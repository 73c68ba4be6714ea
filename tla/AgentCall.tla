----------------------------- MODULE AgentCall -----------------------------
(***************************************************************************)
(* One Agent call of an orchestrator Run, from its acceptance to the       *)
(* moment the Run hears of its outcome: the call ledger, the durable inbox *)
(* of observations, and the processes that move the call.  The kernel      *)
(* accepts the call and executes it; call recovery takes over a call whose *)
(* claim lapsed, dispatches it or inspects the remote task; observation    *)
(* processors apply inbox rows to the ledger and tell the suspended Run;   *)
(* the canceller closes the call of a canceled Run.                        *)
(*                                                                         *)
(* Every write of a call or of a row is a compare-and-set on its           *)
(* state_version.  `fresh' holds the processes whose copy of the call      *)
(* carries the stored version, `rowFresh' the same per row.  A claim names *)
(* its owner by the worker_id of its class, which every instance shares.   *)
(* A renewal and the compare-and-set right after it are one step: a write  *)
(* that came between them would fail the second as it fails the first.     *)
(***************************************************************************)
EXTENDS AgentCallStates, Integers, FiniteSets

CONSTANTS
    Kernel,                \* the process that drives the Run
    Canceller,             \* the cancellation coordinator
    Recoverers,            \* A2ACallRecoveryService sweeps
    Processors,            \* A2AObservationProcessor invocations
    MaxTransportAttempts,  \* max_transport_attempts, of calls and of rows
    MaxInspections,        \* max_uncertain_inspection_attempts
    MaxEvents,             \* bound on the events that disturb the plain course
    MaxAge                 \* bound on the age a call is followed to

ASSUME CallBoundsAssumption ==
    /\ MaxTransportAttempts \in Nat \ {0}
    /\ MaxInspections \in Nat \ {0}
    /\ MaxEvents \in Nat
    /\ MaxAge \in 0 .. 3

\* Recovery dispatches through execute as well (recover_dispatch).
Executors == {Kernel} \cup Recoverers
Procs     == Executors \cup Processors \cup {Canceller}

ASSUME CallProcsAssumption ==
    /\ Kernel # Canceller
    /\ {Kernel, Canceller} \cap (Recoverers \cup Processors) = {}
    /\ Recoverers \cap Processors = {}

VARIABLES
    call,      \* AgentCallLedgerRecord
    row,       \* per observation: A2AObservationInboxRecord
    fresh,     \* processes whose copy of the call is current
    rowFresh,  \* per observation: processes whose copy of the row is current
    run,       \* status of the owning Run
    entry,     \* state of the tool entry in the Run's batch
    told,      \* buffered_terminal_result of the entry
    proc,      \* per process: program counter and memory
    remote,    \* the Agent's side: messages got, and whether its task is done
    age,       \* of the call: 1 orphan TTL, 2 deadline, 3 wait ceiling passed
    room,      \* the Room epoch is active
    events

vars == <<call, row, fresh, rowFresh, run, entry, told, proc, remote, age, room, events>>
-----------------------------------------------------------------------------
(* Data                                                                    *)

None == "none"

\* What an observation reports: progress of the stream, the end of the dispatch
\* stream or response, a Task snapshot read by an inspection or pushed, and the
\* verdicts the runtime reaches itself (one row for every error code).
Rows == {"working", "answer", "polled", "failed", "rejected", "expired"}

\* The status, and the digest, of the terminal result a row carries.
Outcome(o) == IF o \in {"answer", "polled"} THEN "completed" ELSE o

Results == TerminalCallStates

\* The failures a Run may hear of that are not the verdict of the call: the
\* acceptance failed, or execute raised and the kernel made a failed result.
KernelFailures == {"refused", "error"}

\* claim_owner: worker_id of the runtime or of call recovery
Owners == {None, "runtime", "recovery"}

Calls == [st : CallStates \cup {"absent"}, owner : Owners,
          lease : BOOLEAN,   \* claim_expires_at lies ahead
          due : BOOLEAN,     \* next_attempt_at has passed, or is not set
          task : BOOLEAN,    \* a2a_task_id is bound
          tries : 0 .. MaxTransportAttempts,
          looks : 0 .. MaxInspections,
          seen : BOOLEAN,    \* the progress row is in recent_observation_ids
          result : Results \cup {None}]

NoCall == [st |-> "absent", owner |-> None, lease |-> FALSE, due |-> TRUE, task |-> FALSE,
           tries |-> 0, looks |-> 0, seen |-> FALSE, result |-> None]

RowStates == {"absent", "pending", "claimed", "outcome_pending", "completed", "quarantined"}
Routes    == {"unresolved", "executor", "observation_sink"}

InboxRows == [st : RowStates, route : Routes,
              digest : BOOLEAN,    \* outcome_digest is set, to the digest of the verdict
              claims : 0 .. MaxTransportAttempts,   \* attempt_count
              lease : BOOLEAN, due : BOOLEAN]

NoRow == [st |-> "absent", route |-> "unresolved", digest |-> FALSE, claims |-> 0,
          lease |-> FALSE, due |-> TRUE]

Terminal(c) == c.st \in TerminalCallStates
Live(c)     == c.st \in LiveCallStates

\* Fault: a lapsed claim still keeps others out.
ClaimableUnowned(c) == Live(c) /\ c.owner = None /\ c.due

\* MongoAgentCallLedgerStore.claim, list_due
Claimable(c) == Live(c) /\ ~c.lease /\ c.due

Claimed(c, who)  == [c EXCEPT !.owner = who, !.lease = TRUE, !.due = TRUE]
Released(c, due) == [c EXCEPT !.owner = None, !.lease = FALSE, !.due = due]

\* transition_call to a state, the claim released
Moved(c, st, due) == [Released(c, due) EXCEPT !.st = st]

\* transition_call to a terminal state with the result of observation o
Ended(c, o) ==
    [Moved(c, Outcome(o), TRUE) EXCEPT !.result = Outcome(o)]

Legal(c, st) == st \in Successors(c.st)

\* apply_observation, for the calls this module reaches; Bad(c, o) is the
\* raised IllegalAgentCallTransition, Conflicting(c, o) the
\* ConflictingTerminalObservation.
Ignored(c, o) ==
    \/ o = "working" /\ c.seen
    \/ Terminal(c) /\ (o = "working" \/ Outcome(o) = c.result)
    \/ c.st = "cancel_pending"
    \/ o = "working" /\ c.st \in UndispatchedStates

Conflicting(c, o) == Terminal(c) /\ o # "working" /\ Outcome(o) # c.result
Bad(c, o) == ~Ignored(c, o) /\ Live(c) /\ o # "working" /\ ~Legal(c, Outcome(o))

Applied(c, o) ==
    IF Ignored(c, o) THEN c
    ELSE IF o # "working" THEN Ended(c, o)
    ELSE [c EXCEPT !.seen = TRUE, !.task = TRUE,
                   !.st = IF @ \in {"dispatching", "delivery_uncertain"}
                          THEN "working" ELSE @]

RunBlocks == run \in {"canceling", "ended"}

Pcs == {"idle",
        "accepting", "fencing", "accepted", "starting", "returning",
        "claimed", "late", "other", "ready", "dispatching", "sending", "streaming",
        "ambiguous", "retrying", "contract", "applying", "marking", "marked",
        "recovering", "inspecting", "polled", "expiring",
        "observing", "settling", "delivering", "delivered",
        "canceling", "canceled", "closing"}

Memory == [pc : Pcs, on : Rows, res : Results \cup KernelFailures \cup {None}]

Idle == [pc |-> "idle", on |-> "working", res |-> None]

TypeOK ==
    /\ call \in Calls
    /\ row \in [Rows -> InboxRows]
    /\ fresh \subseteq Procs
    /\ rowFresh \in [Rows -> SUBSET Procs]
    /\ run \in {"running", "suspended", "canceling", "ended"}
    /\ entry \in {"pending", "accepted", "waiting", "terminal"}
    /\ told \in Results \cup KernelFailures \cup {None}
    /\ proc \in [Procs -> Memory]
    /\ remote \in [got : 0 .. 2, done : BOOLEAN]
    /\ age \in 0 .. MaxAge
    /\ room \in BOOLEAN
    /\ events \in 0 .. MaxEvents

Init ==
    /\ call = NoCall
    /\ row = [o \in Rows |-> NoRow]
    /\ fresh = {}
    /\ rowFresh = [o \in Rows |-> {}]
    /\ run = "running"
    /\ entry = "pending"
    /\ told = None
    /\ proc = [p \in Procs |-> Idle]
    /\ remote = [got |-> 0, done |-> FALSE]
    /\ age = 0
    /\ room = TRUE
    /\ events = 0
-----------------------------------------------------------------------------
(* Steps                                                                   *)

At(p, pc) == proc[p].pc = pc

Go(p, pc)     == proc' = [proc EXCEPT ![p].pc = pc]
GoOn(p, pc, o) == proc' = [proc EXCEPT ![p].pc = pc, ![p].on = o]
Stop(p)       == proc' = [proc EXCEPT ![p] = Idle]

\* The compare-and-set of p's copy makes all other copies stale.  `Last' is one
\* after which p needs its copy no more, `Done' ends p's use of it without a
\* write.
Write(p, c) == call' = c /\ fresh' = {p}
Last(c)     == call' = c /\ fresh' = {}
Done(p)     == UNCHANGED call /\ fresh' = fresh \ {p}
RowDone(p)  == UNCHANGED row /\ rowFresh' = [rowFresh EXCEPT ![proc[p].on] = @ \ {p}]

Event == events < MaxEvents /\ events' = events + 1

\* A2AObservationIngress.record: insert, or replay of the stored row
Record(o) ==
    /\ row' = [row EXCEPT ![o].st = IF @ = "absent" THEN "pending" ELSE @]
    /\ UNCHANGED rowFresh

\* execute returns: the kernel checkpoints, recover_dispatch discards it.
Return(e, res) ==
    proc' = [proc EXCEPT ![e] = IF e = Kernel
                                THEN [Idle EXCEPT !.pc = "returning", !.res = res]
                                ELSE Idle]

Suspension(e) == Return(e, None)

\* _persisted_outcome_or_suspension
PersistedOutcome(e) == Return(e, call.result)

ledger  == <<call, fresh>>
inbox   == <<row, rowFresh>>
runVars == <<run, entry, told>>
world   == <<remote, age, room>>
-----------------------------------------------------------------------------
(* The kernel accepts the call                                             *)

\* accept, up to the insert: the Room epoch, the Run and the authorization are
\* checked; a denial ends the entry without a call.
AcceptCheck ==
    /\ At(Kernel, "idle") /\ run = "running" /\ entry = "pending" /\ call.st = "absent"
    /\ \/ room /\ Go(Kernel, "accepting") /\ UNCHANGED runVars
       \/ entry' = "terminal" /\ told' = "refused" /\ UNCHANGED <<run, proc>>
    /\ UNCHANGED <<ledger, inbox, world, events>>

AcceptInsert ==
    /\ At(Kernel, "accepting")
    /\ Last([NoCall EXCEPT !.st = "accepted"])
    /\ Go(Kernel, "fencing")
    /\ UNCHANGED <<inbox, runVars, world, events>>

\* Fault: the acceptance is not fenced.
AcceptUnfenced ==
    /\ At(Kernel, "fencing")
    /\ Go(Kernel, "accepted")
    /\ UNCHANGED <<ledger, inbox, runVars, world, events>>

\* _fence_accepted_call: a Run canceled meanwhile did not list this call.
AcceptFence ==
    /\ At(Kernel, "fencing")
    /\ Go(Kernel, IF RunBlocks THEN "canceling" ELSE "accepted")
    /\ UNCHANGED <<ledger, inbox, runVars, world, events>>

\* accept finds the call of an earlier attempt and does not fence it again.
AcceptReplay ==
    /\ At(Kernel, "idle") /\ run = "running" /\ entry = "pending" /\ call.st # "absent"
    /\ Go(Kernel, "accepted")
    /\ UNCHANGED <<ledger, inbox, runVars, world, events>>

\* The kernel checkpoints the acceptance, unless the Run is canceling by now.
CheckpointAcceptance ==
    /\ At(Kernel, "accepted")
    /\ IF run = "running" THEN Go(Kernel, "starting") /\ entry' = "accepted"
       ELSE Stop(Kernel) /\ UNCHANGED entry
    /\ UNCHANGED <<ledger, inbox, run, told, world, events>>

\* A kernel re-enters the batch of a running Run and executes the entry again.
Reenter ==
    /\ At(Kernel, "idle") /\ run = "running" /\ entry = "accepted"
    /\ Go(Kernel, "starting")
    /\ UNCHANGED <<ledger, inbox, runVars, world, events>>

\* The kernel checkpoints what execute returned: a terminal result, or the
\* suspension of the Run.  A canceling Run takes neither.
Checkpoint ==
    /\ At(Kernel, "returning")
    /\ IF run # "running" THEN UNCHANGED runVars
       ELSE IF proc[Kernel].res = None
       THEN entry' = "waiting" /\ run' = "suspended" /\ UNCHANGED told
       ELSE entry' = "terminal" /\ told' = proc[Kernel].res /\ UNCHANGED run
    /\ Stop(Kernel)
    /\ UNCHANGED <<ledger, inbox, world, events>>
-----------------------------------------------------------------------------
(* execute, by the kernel or by recover_dispatch                           *)

ExecStart(e) ==
    /\ At(e, "starting")
    /\ \/ /\ Terminal(call)
          /\ Return(e, call.result)
          /\ Done(e)
       \/ /\ Live(call)
          /\ ~Claimable(call) \/ (e = Kernel /\ RunBlocks)
          /\ Suspension(e)
          /\ Done(e)
       \/ /\ Claimable(call)
          /\ Write(e, Claimed(call, "runtime"))
          /\ Go(e, IF call.st \in UndispatchedStates THEN "claimed"
                   ELSE IF call.st = "dispatching" THEN "late" ELSE "other")
    /\ UNCHANGED <<inbox, runVars, world, events>>

\* The execution fence: a call found dispatching has lost its receipt, and a
\* call in any later state is not the executor's.
ExecNotMine(e) ==
    /\ \/ At(e, "late") /\ e \in fresh /\ Last(Moved(call, "delivery_uncertain", TRUE))
       \/ At(e, "other") /\ e \in fresh /\ Last(Released(call, FALSE))
       \/ (At(e, "late") \/ At(e, "other")) /\ e \notin fresh /\ Done(e)
    /\ Suspension(e)
    /\ UNCHANGED <<inbox, runVars, world, events>>

\* _terminal before the dispatch: the Room is gone, the prepared snapshot does
\* not match, or the authorization was revoked.
ExecVerdict(e, o) ==
    /\ At(e, "claimed")
    /\ \/ o = "expired" /\ ~room /\ UNCHANGED events
       \/ o = "rejected" /\ Event
    /\ Record(o)
    /\ GoOn(e, "applying", o)
    /\ UNCHANGED <<ledger, runVars, world>>

\* A recoverable outage of authorization, epochs or resources.
ExecTransient(e) ==
    /\ At(e, "claimed")
    /\ Event
    /\ IF e \in fresh THEN Last(Released(call, FALSE)) ELSE Done(e)
    /\ Suspension(e)
    /\ UNCHANGED <<inbox, runVars, world>>

ExecReady(e) ==
    /\ At(e, "claimed")
    /\ IF e \in fresh /\ room
       THEN /\ Write(e, [Claimed(call, "runtime") EXCEPT !.st = "ready_to_dispatch"])
            /\ Go(e, "ready")
       ELSE Suspension(e) /\ Done(e)
    /\ UNCHANGED <<inbox, runVars, world, events>>

ExecDispatching(e) ==
    /\ At(e, "ready")
    /\ IF e \in fresh
       THEN /\ Write(e, [call EXCEPT !.st = "dispatching", !.tries = @ + 1])
            /\ Go(e, "dispatching")
       ELSE Suspension(e) /\ Done(e)
    /\ UNCHANGED <<inbox, runVars, world, events>>

\* The last look at the Room and the Run before the message leaves.
ExecFence(e) ==
    /\ At(e, "dispatching")
    /\ IF e \notin fresh \/ ~room THEN Suspension(e) /\ Done(e)
       ELSE IF RunBlocks THEN Last(Claimed(call, "runtime")) /\ Stop(e)
       ELSE Write(e, Claimed(call, "runtime")) /\ Go(e, "sending")
    /\ UNCHANGED <<inbox, runVars, world, events>>

Deliver(e) ==
    /\ At(e, "sending")
    /\ remote' = [remote EXCEPT !.got = @ + 1]
    /\ Go(e, "streaming")
    /\ UNCHANGED <<ledger, inbox, runVars, age, room, events>>

\* The Agent card could not be fetched (RecoverableTransportError) or is broken
\* (AgentCardContractError), which both come before the message leaves; or the
\* outcome of the send is unknown.
SendFails(e) ==
    /\ Event
    /\ \/ At(e, "sending") /\ \E pc \in {"retrying", "contract", "ambiguous"} : Go(e, pc)
       \/ At(e, "streaming") /\ Go(e, "ambiguous")
    /\ UNCHANGED <<ledger, inbox, runVars, world>>

\* _heartbeat_loop: renews whatever revision is stored while the owner is the
\* runtime.
Heartbeat(e) ==
    /\ At(e, "sending") \/ At(e, "streaming")
    /\ call.owner = "runtime" /\ room
    /\ e \notin fresh \/ ~call.lease
    /\ Write(e, [call EXCEPT !.lease = TRUE])
    /\ UNCHANGED <<inbox, runVars, proc, world, events>>

\* The heartbeat finds the claim or the Room lost, or the kernel's cancellation
\* signal fires (ClientCancellationRequested).
DispatchAborted(e) ==
    /\ At(e, "sending") \/ At(e, "streaming")
    /\ \/ (call.owner # "runtime" \/ ~room) /\ Go(e, "ambiguous") /\ UNCHANGED ledger
       \/ e = Kernel /\ run = "canceling" /\ Stop(e) /\ Done(e)
    /\ UNCHANGED <<inbox, runVars, world, events>>

StreamWorking(e) ==
    /\ At(e, "streaming") /\ row["working"].st = "absent"
    /\ Event
    /\ Record("working")
    /\ UNCHANGED <<ledger, runVars, proc, world>>

\* A terminal receipt is recorded before the claim is looked at again.
ReceiptTerminal(e) ==
    /\ At(e, "streaming") /\ remote.done
    /\ Record("answer")
    /\ GoOn(e, "applying", "answer")
    /\ UNCHANGED <<ledger, runVars, world, events>>

\* The Agent took the task and the dispatch, not a stream, ends before it does.
ReceiptAccepted(e) ==
    /\ At(e, "streaming") /\ row["working"].st = "absent"
    /\ IF e \notin fresh \/ ~room THEN Suspension(e) /\ Done(e)
       ELSE IF Legal(call, "working")
       THEN Last([Moved(call, "working", FALSE) EXCEPT !.task = TRUE]) /\ Suspension(e)
       ELSE Return(e, "error") /\ Done(e)
    /\ UNCHANGED <<inbox, runVars, world, events>>

\* The stream ended without an outcome, the receipt names no task, or the
\* deadline of the dispatch has passed.
ReceiptUncertain(e) ==
    /\ At(e, "streaming")
    /\ IF age >= 2 THEN UNCHANGED events ELSE Event
    /\ IF e \notin fresh \/ ~room THEN Suspension(e) /\ Done(e)
       ELSE IF Legal(call, "delivery_uncertain")
       THEN Last(Moved(call, "delivery_uncertain", TRUE)) /\ Suspension(e)
       ELSE Return(e, "error") /\ Done(e)
    /\ UNCHANGED <<inbox, runVars, world>>

ReceiptRejected(e) ==
    /\ At(e, "streaming")
    /\ Event
    /\ IF e \in fresh /\ room
       THEN Record("rejected") /\ GoOn(e, "applying", "rejected") /\ UNCHANGED ledger
       ELSE Suspension(e) /\ Done(e) /\ UNCHANGED inbox
    /\ UNCHANGED <<runVars, world>>

\* After a failed dispatch the latest revision is reloaded while the owner is
\* still the runtime, and renewed.
StillOwner == call.owner = "runtime" /\ room

Ambiguous(e) ==
    /\ At(e, "ambiguous")
    /\ IF ~StillOwner THEN Suspension(e) /\ Done(e)
       ELSE IF Legal(call, "delivery_uncertain")
       THEN Last(Moved(call, "delivery_uncertain", TRUE)) /\ Suspension(e)
       ELSE Return(e, "error") /\ Done(e)
    /\ UNCHANGED <<inbox, runVars, world, events>>

Exhausted(c) == c.tries >= MaxTransportAttempts

Retry(e) ==
    /\ At(e, "retrying") /\ ~(StillOwner /\ Exhausted(call))
    /\ IF ~StillOwner THEN Suspension(e) /\ Done(e)
       ELSE IF Legal(call, "ready_to_dispatch")
       THEN Last(Moved(call, "ready_to_dispatch", FALSE)) /\ Suspension(e)
       ELSE Return(e, "error") /\ Done(e)
    /\ UNCHANGED <<inbox, runVars, world, events>>

DispatchFailed(e) ==
    /\ At(e, "contract") \/ (At(e, "retrying") /\ StillOwner /\ Exhausted(call))
    /\ IF StillOwner
       THEN Write(e, Claimed(call, "runtime")) /\ Record("failed") /\ GoOn(e, "applying", "failed")
       ELSE Suspension(e) /\ Done(e) /\ UNCHANGED inbox
    /\ UNCHANGED <<runVars, world, events>>

\* apply_observation and its compare-and-set, the evidence already recorded.
ApplyVerdict(e) ==
    /\ At(e, "applying")
    /\ \/ /\ e \in fresh /\ Legal(call, Outcome(proc[e].on))
          /\ Last(Ended(call, proc[e].on))
          /\ Go(e, "marking")
       \/ /\ e \in fresh /\ ~Legal(call, Outcome(proc[e].on))
          /\ IF call.st = "cancel_pending" THEN PersistedOutcome(e) ELSE Return(e, "error")
          /\ Done(e)
       \/ /\ e \notin fresh \/ (proc[e].on = "answer" /\ ~room)
          /\ PersistedOutcome(e) \/ Suspension(e)
          /\ Done(e)
    /\ UNCHANGED <<inbox, runVars, world, events>>

\* mark_executor_outcome: a load, then a compare-and-set that no owner guards.
MarkLoad(e) ==
    LET o == proc[e].on IN
    /\ At(e, "marking")
    /\ IF row[o].route = "observation_sink" THEN Return(e, "error") /\ UNCHANGED rowFresh
       ELSE Go(e, "marked") /\ rowFresh' = [rowFresh EXCEPT ![o] = @ \cup {e}]
    /\ UNCHANGED <<ledger, row, runVars, world, events>>

MarkWrite(e) ==
    LET o == proc[e].on IN
    /\ At(e, "marked")
    /\ IF e \in rowFresh[o]
       THEN /\ row' = [row EXCEPT ![o].st = "outcome_pending", ![o].route = "executor",
                                  ![o].digest = TRUE]
            /\ rowFresh' = [rowFresh EXCEPT ![o] = {}]
            /\ Return(e, call.result)
       ELSE Return(e, "error") /\ UNCHANGED inbox
    /\ UNCHANGED <<ledger, runVars, world, events>>
-----------------------------------------------------------------------------
(* Call recovery                                                           *)

\* _DEADLINE_EXEMPT_STATES
ExemptStates == {"dispatching", "delivery_uncertain", "resuming", "cancel_pending",
                 "input_required", "auth_required"}

\* _awaits_acknowledged_task
AwaitsTask(c) == c.st \in {"working", "continuation_pending"} /\ c.task /\ age < 3

\* A claimed call that recovery expires at once: the Room is gone, or the
\* frozen deadline has passed.
Overdue(c) ==
    \/ ~room
    \/ age >= 2 /\ c.st \notin ExemptStates /\ ~AwaitsTask(c)

\* recover_call up to the claim; the calls of a Run that is canceling or over
\* are left alone.
RecClaim(r) ==
    /\ At(r, "idle")
    /\ Claimable(call) /\ ~RunBlocks
    /\ Write(r, Claimed(call, "recovery"))
    /\ IF Overdue(call) THEN Record("expired") /\ GoOn(r, "expiring", "expired")
       ELSE Go(r, "recovering") /\ UNCHANGED inbox
    /\ UNCHANGED <<runVars, world, events>>

RecLost(r) ==
    /\ At(r, "recovering") \/ At(r, "inspecting")
    /\ r \notin fresh
    /\ Stop(r)
    /\ UNCHANGED <<ledger, inbox, runVars, world, events>>

\* An accepted call whose acceptance the Run never checkpointed.
RecOrphan(r) ==
    /\ At(r, "recovering") /\ r \in fresh
    /\ call.st \in UndispatchedStates /\ entry = "pending"
    /\ IF call.st = "accepted" /\ age >= 1
       THEN /\ Write(r, Claimed(call, "recovery"))
            /\ Record("expired")
            /\ GoOn(r, "expiring", "expired")
       ELSE Last(Released(call, FALSE)) /\ Stop(r) /\ UNCHANGED inbox
    /\ UNCHANGED <<runVars, world, events>>

\* The call is released and executed from the beginning.
RecDispatch(r) ==
    /\ At(r, "recovering") /\ r \in fresh
    /\ call.st \in UndispatchedStates /\ entry # "pending"
    /\ Write(r, Released(call, TRUE))
    /\ Go(r, "starting")
    /\ UNCHANGED <<inbox, runVars, world, events>>

\* recover_dispatch raised before it claimed: _reschedule.
RecReschedule(r) ==
    /\ At(r, "starting")
    /\ Event
    /\ IF r \in fresh THEN Last([call EXCEPT !.due = FALSE]) ELSE UNCHANGED ledger
    /\ Stop(r)
    /\ UNCHANGED <<inbox, runVars, world>>

\* Fault: a call found dispatching is dispatched once more.
RecRedispatch(r) ==
    /\ At(r, "recovering") /\ r \in fresh
    /\ call.st = "dispatching"
    /\ Last(Moved(call, "ready_to_dispatch", TRUE))
    /\ Stop(r)
    /\ UNCHANGED <<inbox, runVars, world, events>>

\* A claim of a dispatching call lapsed: its message may have left.
RecUncertain(r) ==
    /\ At(r, "recovering") /\ r \in fresh
    /\ call.st = "dispatching"
    /\ Last(Moved(call, "delivery_uncertain", TRUE))
    /\ Stop(r)
    /\ UNCHANGED <<inbox, runVars, world, events>>

RecInspect(r) ==
    /\ At(r, "recovering") /\ r \in fresh
    /\ call.st \in {"delivery_uncertain", "working"}
    /\ IF RunBlocks THEN Last(Released(call, TRUE)) /\ Stop(r)
       ELSE Write(r, Claimed(call, "recovery")) /\ Go(r, "inspecting")
    /\ UNCHANGED <<inbox, runVars, world, events>>

\* The inspected task is over: the evidence is recorded, then applied.
InspectTerminal(r) ==
    /\ At(r, "inspecting") /\ r \in fresh
    /\ remote.done
    /\ Write(r, Claimed(call, "recovery"))
    /\ Record("polled")
    /\ GoOn(r, "polled", "polled")
    /\ UNCHANGED <<runVars, world, events>>

InspectWorking(r) ==
    /\ At(r, "inspecting") /\ r \in fresh
    /\ remote.got > 0 /\ ~remote.done
    /\ Last(Moved(call, "working", FALSE))
    /\ Stop(r)
    /\ UNCHANGED <<inbox, runVars, world, events>>

\* Fault: the limit of inspections is passed before it is noticed.
LookedEnoughLate(c) == c.looks > MaxInspections

\* max_uncertain_inspection_attempts
LookedEnough(c) == c.looks + 1 >= MaxInspections

\* The task is unknown or out of reach.  Polling a working task goes on; an
\* uncertain delivery is given up after MaxInspections.
InspectNothing(r) ==
    /\ At(r, "inspecting") /\ r \in fresh
    /\ IF remote.got = 0 THEN UNCHANGED events ELSE Event
    /\ IF call.st = "working"
       THEN Last(Released(call, FALSE)) /\ Stop(r) /\ UNCHANGED inbox
       ELSE IF LookedEnough(call)
       THEN /\ Write(r, Claimed(call, "recovery"))
            /\ Record("expired")
            /\ GoOn(r, "expiring", "expired")
       ELSE /\ Last([Released(call, FALSE) EXCEPT !.looks = @ + 1])
            /\ Stop(r)
            /\ UNCHANGED inbox
    /\ UNCHANGED <<runVars, world>>

\* AgentCardContractError of an inspection
InspectContract(r) ==
    /\ At(r, "inspecting")
    /\ Event
    /\ Record("expired")
    /\ GoOn(r, "expiring", "expired")
    /\ UNCHANGED <<ledger, runVars, world>>

\* _expire, or the terminal inspection, after the evidence was recorded.
RecApply(r) ==
    /\ At(r, "expiring") \/ At(r, "polled")
    /\ IF r \in fresh /\ Legal(call, Outcome(proc[r].on))
       THEN Last(Ended(call, proc[r].on)) ELSE Done(r)
    /\ Stop(r)
    /\ UNCHANGED <<inbox, runVars, world, events>>
-----------------------------------------------------------------------------
(* The observation processor                                               *)

\* _release_inbox: only the holder of the claim, with a current copy.
ReleaseRow(p, o, r) ==
    /\ IF p \in rowFresh[o]
       THEN /\ row' = [row EXCEPT ![o] = [r EXCEPT !.lease = FALSE, !.due = TRUE]]
            /\ rowFresh' = [rowFresh EXCEPT ![o] = {}]
       ELSE RowDone(p)
    /\ Stop(p)

CompleteRow(p, o) == ReleaseRow(p, o, [row[o] EXCEPT !.st = "completed"])

\* defer_poison: whoever holds the claim, as every processor has one owner id.
Poison(p, o) ==
    /\ IF row[o].st = "claimed"
       THEN /\ row' = [row EXCEPT ![o].lease = FALSE,
                   ![o].st  = IF row[o].claims >= MaxTransportAttempts
                              THEN "quarantined" ELSE "pending",
                   ![o].due = row[o].claims >= MaxTransportAttempts]
            /\ rowFresh' = [rowFresh EXCEPT ![o] = {}]
       ELSE RowDone(p)
    /\ Stop(p)

\* _process up to the claim, and the load of the call.  Every claim counts as
\* an attempt; those beyond the limit are not told apart.
ProcClaim(p, o) ==
    LET pc == IF row[o].route = "executor" /\ row[o].digest THEN "settling" ELSE "observing" IN
    /\ At(p, "idle")
    /\ row[o].st \notin {"absent", "completed", "quarantined"}
    /\ ~row[o].lease /\ row[o].due
    /\ row' = [row EXCEPT ![o].st = "claimed", ![o].lease = TRUE,
              ![o].claims = IF @ < MaxTransportAttempts THEN @ + 1 ELSE @]
    /\ rowFresh' = [rowFresh EXCEPT ![o] = {p}]
    /\ fresh' = IF pc = "observing" THEN fresh \cup {p} ELSE fresh
    /\ GoOn(p, pc, o)
    /\ UNCHANGED <<call, runVars, world, events>>

\* observe_tool of a terminal result in a suspended Run
Hear(res) == run' = "running" /\ entry' = "terminal" /\ told' = res

\* A row whose outcome the executor path carries: completed once the Run is
\* over or holds the outcome, delivered if the Run waits for it.
ProcSettle(p) ==
    LET o == proc[p].on
        settled == run = "ended" \/ told = call.result
        waiting == ~settled /\ Terminal(call) /\ entry = "waiting"
    IN
    /\ At(p, "settling")
    /\ \/ settled /\ CompleteRow(p, o) /\ UNCHANGED runVars
       \/ waiting /\ run = "suspended" /\ Hear(call.result) /\ Go(p, "delivered") /\ UNCHANGED inbox
       \/ waiting /\ run # "suspended" /\ Poison(p, o) /\ UNCHANGED runVars
       \/ /\ ~settled /\ ~waiting
          /\ ReleaseRow(p, o, [row[o] EXCEPT !.st = "outcome_pending"])
          /\ UNCHANGED runVars
    /\ UNCHANGED <<ledger, world, events>>

ClaimLost(p) == p \notin rowFresh[proc[p].on] \/ ~row[proc[p].on].lease

\* _process goes on with the stored call, which may have a verdict by now.
Proceed(p, res) ==
    /\ proc' = [proc EXCEPT ![p].pc = "delivering", ![p].res = res]
    /\ rowFresh' = [rowFresh EXCEPT ![proc[p].on] = {p}]
    /\ UNCHANGED row

\* The claim is gone, or the row is of no use any more.
ProcSkip(p) ==
    LET o == proc[p].on
        useless == ~room \/ (o = "working" /\ run = "ended")
    IN
    /\ At(p, "observing")
    /\ \/ ClaimLost(p) /\ RowDone(p) /\ Stop(p)
       \/ ~ClaimLost(p) /\ useless /\ CompleteRow(p, o)
    /\ Done(p)
    /\ UNCHANGED <<runVars, world, events>>

\* The row is applied to the ledger.  A row that contradicts the verdict is kept
\* as a completed loser; one the ledger does not admit is poison.  When the
\* compare-and-set is lost the winner counts, if it is a verdict.
ProcObserve(p) ==
    LET o == proc[p].on
        current == p \in fresh
        useful == room /\ (o = "working" => run # "ended")
    IN
    /\ At(p, "observing") /\ ~ClaimLost(p) /\ useful
    /\ \/ /\ current /\ Conflicting(call, o)
          /\ ReleaseRow(p, o, [row[o] EXCEPT !.st = "completed", !.route = "executor",
                                             !.digest = TRUE])
          /\ Done(p)
       \/ /\ current /\ Bad(call, o)
          /\ Poison(p, o)
          /\ Done(p)
       \/ /\ current /\ ~Conflicting(call, o) /\ ~Bad(call, o)
          /\ IF Ignored(call, o) THEN Done(p) ELSE Last(Applied(call, o))
          /\ Proceed(p, Applied(call, o).result)
       \/ ~current /\ Terminal(call) /\ Proceed(p, call.result) /\ UNCHANGED ledger
       \/ /\ ~current /\ Live(call)
          /\ ReleaseRow(p, o, [row[o] EXCEPT !.st = "pending"])
          /\ UNCHANGED ledger
    /\ UNCHANGED <<runVars, world, events>>

\* Fault: a row whose entry does not wait yet counts as done.
LeftToExecutorDone(r, res) ==
    [r EXCEPT !.st = "completed", !.route = "executor", !.digest = @ \/ res # None]

\* The row of an outcome that execute is to return, or a later delivery finds.
LeftToExecutor(r, res) ==
    [r EXCEPT !.st = "outcome_pending", !.route = "executor", !.digest = @ \/ res # None]

\* The outcome of the call goes to the Run if the entry waits for it, else it
\* is left to the executor.
ProcDeliver(p) ==
    LET o == proc[p].on
        res == proc[p].res
        open == run # "ended" /\ ~ClaimLost(p)
    IN
    /\ At(p, "delivering")
    /\ \/ /\ run = "ended"
          /\ ReleaseRow(p, o, [row[o] EXCEPT !.st = "completed", !.route = "executor"])
          /\ UNCHANGED runVars
       \/ run # "ended" /\ ClaimLost(p) /\ Stop(p) /\ RowDone(p) /\ UNCHANGED runVars
       \/ open /\ ~room /\ CompleteRow(p, o) /\ UNCHANGED runVars
       \/ /\ open /\ room /\ entry # "waiting"
          /\ ReleaseRow(p, o, LeftToExecutor(row[o], res))
          /\ UNCHANGED runVars
       \/ open /\ room /\ entry = "waiting" /\ run # "suspended" /\ Poison(p, o) /\ UNCHANGED runVars
       \/ /\ open /\ room /\ entry = "waiting" /\ run = "suspended"
          /\ IF res = None THEN UNCHANGED runVars ELSE Hear(res)
          /\ Go(p, "delivered")
          /\ rowFresh' = [rowFresh EXCEPT ![o] = {p}]
          /\ UNCHANGED row
    /\ UNCHANGED <<ledger, world, events>>

\* deliver returned after the Run went on, however long that took.
ProcDelivered(p) ==
    LET o == proc[p].on IN
    /\ At(p, "delivered")
    /\ IF row[o].lease
       THEN ReleaseRow(p, o, [row[o] EXCEPT !.st = "completed", !.route = "observation_sink"])
       ELSE Stop(p) /\ RowDone(p)
    /\ UNCHANGED <<ledger, runVars, world, events>>
-----------------------------------------------------------------------------
(* Cancellation                                                            *)

CancelRun ==
    /\ run \in {"running", "suspended"} /\ entry # "terminal"
    /\ Event
    /\ run' = "canceling"
    /\ UNCHANGED <<ledger, inbox, entry, told, proc, world>>

\* cancel_run lists the calls of a canceling Run; the cancellation phase of the
\* recovery cycle takes up a cancel_pending call.  The calls of a deleted Room are
\* canceled under its deletion id, which the epoch fence admits.
CancelStart ==
    /\ At(Canceller, "idle")
    /\ run = "canceling" \/ (call.st = "cancel_pending" /\ Claimable(call))
    /\ Go(Canceller, IF call.st = "absent" THEN "closing" ELSE "canceling")
    /\ UNCHANGED <<ledger, inbox, runVars, world, events>>

Cancelers == {Canceller, Kernel}

\* persist_local_cancellation: two compare-and-sets, each retried on the winner.
CancelPending(x) ==
    /\ At(x, "canceling")
    /\ IF Live(call) /\ call.st # "cancel_pending"
       THEN Last([call EXCEPT !.st = "cancel_pending"]) ELSE Done(x)
    /\ Go(x, "canceled")
    /\ UNCHANGED <<inbox, runVars, world, events>>

Canceled(x) ==
    /\ At(x, "canceled")
    /\ IF Live(call)
       THEN Last([Moved(call, "canceled", TRUE) EXCEPT !.result = "canceled"])
       ELSE UNCHANGED ledger
    /\ IF x = Kernel THEN Stop(x) ELSE Go(x, "closing")
    /\ UNCHANGED <<inbox, runVars, world, events>>

\* The canceled Run settles.
CloseRun ==
    /\ At(Canceller, "closing")
    /\ run' = IF run = "canceling" THEN "ended" ELSE run
    /\ Stop(Canceller)
    /\ UNCHANGED <<ledger, inbox, entry, told, world, events>>
-----------------------------------------------------------------------------
(* The Run, the Agent, time and failures                                   *)

\* The Run ends after the result is in its transcript.
RunEnds ==
    /\ run = "running" /\ entry = "terminal" /\ At(Kernel, "idle")
    /\ run' = "ended"
    /\ UNCHANGED <<ledger, inbox, entry, told, proc, world, events>>

\* A sibling entry of the suspended Run is decided on by the model (external to
\* this call): the Run is running for a while with this entry waiting.
RunBusy ==
    /\ run = "suspended" /\ Event
    /\ run' = "running"
    /\ UNCHANGED <<ledger, inbox, entry, told, proc, world>>

RunIdle ==
    /\ run = "running" /\ entry = "waiting"
    /\ run' = "suspended"
    /\ UNCHANGED <<ledger, inbox, entry, told, proc, world, events>>

AgentDone ==
    /\ remote.got > 0 /\ ~remote.done
    /\ remote' = [remote EXCEPT !.done = TRUE]
    /\ UNCHANGED <<ledger, inbox, runVars, proc, age, room, events>>

\* A push notification: a terminal Task snapshot is recorded, any other sign of
\* the end makes the next poll due.
Push ==
    /\ remote.done /\ call.task /\ Live(call)
    /\ Event
    /\ \/ row["polled"].st = "absent" /\ Record("polled") /\ UNCHANGED ledger
       \/ /\ call.st = "working" /\ ~call.lease /\ ~call.due
          /\ call' = [call EXCEPT !.due = TRUE] /\ fresh' = {}
          /\ UNCHANGED inbox
    /\ UNCHANGED <<runVars, proc, world>>

RoomDeleted ==
    /\ room /\ Event
    /\ room' = FALSE
    /\ UNCHANGED <<ledger, inbox, runVars, proc, remote, age>>

Grow ==
    /\ Live(call) /\ age < MaxAge
    /\ age' = age + 1
    /\ UNCHANGED <<ledger, inbox, runVars, proc, remote, room, events>>

\* next_attempt_at passes; no write, no new version.
CallDue ==
    /\ ~call.due
    /\ call' = [call EXCEPT !.due = TRUE]
    /\ UNCHANGED <<fresh, inbox, runVars, proc, world, events>>

RowDue(o) ==
    /\ ~row[o].due
    /\ row' = [row EXCEPT ![o].due = TRUE]
    /\ UNCHANGED <<ledger, rowFresh, runVars, proc, world, events>>

\* A lease runs out, early (a stalled holder) or because its holder is gone.
CallLapses ==
    /\ call.lease
    /\ IF \A e \in Executors : proc[e].pc \in {"idle", "accepting", "fencing", "accepted",
                                             "starting", "returning", "canceling", "canceled"}
       THEN UNCHANGED events ELSE Event
    /\ call' = [call EXCEPT !.lease = FALSE]
    /\ UNCHANGED <<fresh, inbox, runVars, proc, world>>

RowLapses(o) ==
    /\ row[o].lease
    /\ IF \A p \in Processors : At(p, "idle") \/ proc[p].on # o
       THEN UNCHANGED events ELSE Event
    /\ row' = [row EXCEPT ![o].lease = FALSE]
    /\ UNCHANGED <<ledger, rowFresh, runVars, proc, world>>

Crash(p) ==
    /\ ~At(p, "idle") /\ Event
    /\ Stop(p)
    /\ fresh' = fresh \ {p}
    /\ rowFresh' = [o \in Rows |-> rowFresh[o] \ {p}]
    /\ UNCHANGED <<call, row, runVars, world>>

KernelStep ==
    \/ AcceptCheck \/ AcceptInsert \/ AcceptFence \/ AcceptReplay
    \/ CheckpointAcceptance \/ Reenter \/ Checkpoint

ExecStep(e) ==
    \/ ExecStart(e) \/ ExecNotMine(e) \/ ExecTransient(e) \/ ExecReady(e)
    \/ ExecDispatching(e) \/ ExecFence(e) \/ Deliver(e) \/ SendFails(e) \/ Heartbeat(e)
    \/ DispatchAborted(e) \/ StreamWorking(e) \/ ReceiptTerminal(e) \/ ReceiptAccepted(e)
    \/ ReceiptUncertain(e) \/ ReceiptRejected(e) \/ Ambiguous(e) \/ Retry(e)
    \/ DispatchFailed(e) \/ ApplyVerdict(e) \/ MarkLoad(e) \/ MarkWrite(e)
    \/ \E o \in Rows : ExecVerdict(e, o)

RecStep(r) ==
    \/ RecClaim(r) \/ RecLost(r) \/ RecOrphan(r) \/ RecDispatch(r) \/ RecReschedule(r)
    \/ RecUncertain(r) \/ RecInspect(r) \/ InspectTerminal(r)
    \/ InspectWorking(r) \/ InspectNothing(r) \/ InspectContract(r) \/ RecApply(r)

ProcStep(p) ==
    \/ ProcSettle(p) \/ ProcSkip(p) \/ ProcObserve(p) \/ ProcDeliver(p) \/ ProcDelivered(p)
    \/ \E o \in Rows : ProcClaim(p, o)

CancelStep ==
    CancelStart \/ CloseRun \/ \E x \in Cancelers : CancelPending(x) \/ Canceled(x)

WorldStep ==
    \/ CancelRun \/ RunEnds \/ RunBusy \/ RunIdle \/ AgentDone \/ Push \/ RoomDeleted
    \/ Grow \/ CallDue \/ CallLapses \/ \E o \in Rows : RowDue(o) \/ RowLapses(o)
    \/ \E p \in Procs : Crash(p)

Next ==
    \/ KernelStep
    \/ \E e \in Executors : ExecStep(e)
    \/ \E r \in Recoverers : RecStep(r)
    \/ \E p \in Processors : ProcStep(p)
    \/ CancelStep
    \/ WorldStep

Spec == Init /\ [][Next]_vars
-----------------------------------------------------------------------------
(* Properties                                                              *)

Promise == INSTANCE RemoteCall WITH
    Verdicts <- Results, Failures <- KernelFailures,
    sent <- remote.got, verdict <- call.result, told <- told

\* However claims lapse and processes die between the send and its receipt, the
\* Agent gets the message at most once, the ledger takes one verdict, and the
\* Run hears of the call once: its verdict, or a failure of the kernel's own.
ImplementsRemoteCall == Promise!Spec

\* A Run that waits for a call that has its verdict can still be told of it:
\* unless a cancellation gave it, the inbox holds an open row that carries it,
\* whichever of executor, recovery and processor applied the verdict.
WaitingRunHasEvidence ==
    entry = "waiting" /\ run # "ended" /\ room /\ Terminal(call) /\ call.st # "canceled"
        => \E o \in Rows \ {"working"} :
              Outcome(o) = call.result /\ row[o].st \notin {"absent", "completed"}

\* A canceled Run leaves no live call behind that it knows of: cancel_run closed
\* it, or the acceptance fence does.  A kernel that dies between the insert and
\* the fence leaves an orphan, and a Run may end on a failure that is not the
\* verdict of its call (RunHearsVerdicts).
CanceledRunClosesItsCall ==
    run = "ended" /\ Live(call) =>
        \/ proc[Kernel].pc \in {"fencing", "canceling", "canceled"}
        \/ proc[Kernel].pc = "idle" /\ entry = "pending"
        \/ told = "error"

\* What the comment in execute says: a failure of the observation ingress never
\* becomes a terminal tool result that competes with the verdict of the call.
\* mark_executor_outcome raises when a processor claimed the row after its
\* load, and the kernel turns that into a failed result.
RunHearsVerdicts == told # "error"
-----------------------------------------------------------------------------
(* Liveness                                                                *)

\* The part of an action that needs no disturbing event
Plain(A) == A /\ UNCHANGED events

\* The kernel, the sweeps of the recovery cycle and the processor they call run
\* again and again; claims and delays run out; the Agent need not answer.
Fairness ==
    /\ WF_vars(KernelStep)
    /\ \A e \in Executors : WF_vars(Plain(ExecStep(e)))
    /\ \A r \in Recoverers : WF_vars(Plain(RecStep(r)))
    /\ \A p \in Processors : WF_vars(ProcStep(p))
    /\ WF_vars(CancelStep)
    /\ WF_vars(RunIdle)
    /\ WF_vars(Grow)
    /\ WF_vars(CallDue) /\ WF_vars(Plain(CallLapses))
    /\ WF_vars(\E o \in Rows : RowDue(o))
    /\ WF_vars(\E o \in Rows : Plain(RowLapses(o)))

FairSpec == Spec /\ Fairness

\* A call the Run accepted comes to an end for it, whatever died or stalled on
\* the way: the Run hears an outcome, ends, loses its Room, or the inbox gives
\* the row up.
CallSettles ==
    entry \in {"accepted", "waiting"} ~>
        \/ entry = "terminal" \/ run = "ended" \/ ~room
        \/ \E o \in Rows : row[o].st = "quarantined"
=============================================================================
