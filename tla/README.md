# Verification of hybro's durable orchestrator and its event delivery

hybro is a multi-agent chat server: a FastAPI backend (MongoDB for durable
state, Redis for locks and fan-out) and a Next.js frontend. A user's prompt in a
room becomes an orchestrator **Run**: a durable aggregate that a kernel advances
through model turns and tool calls, that can suspend for a remote agent or for a
human answer, that survives the death of the process driving it, and that can be
cancelled at any moment. What a Run says reaches the browser as a sequenced stream
of room events. This directory holds TLA+ models of that machinery, TLC
configurations that check them on small instances, and TLAPS proofs of the safety
results for every value of the constants.

## Inventory

| Component | State it keeps | Operations | What is hard |
|---|---|---|---|
| Run store (`execution/repository/orchestrator/run_store.py`) | the aggregate document (versioned) and a recovery-lease document per Run | `cas_mutate`, `claim/renew/release/schedule_recovery`, `request_cancellation`, `repair_canceling_recovery`, `list_due_runs`, projection intents | two documents, no transaction; every method can be cut between its writes, by a death or by another process |
| Session (`execution/orchestrator/session.py`) | in-memory Runs it drives, its renewal loop | prompt, observe_tool, cancel, shutdown, schedule_run_recovery | executes with or without a lease; dies with its process |
| Recovery worker (`orchestrator_composition.py`, `jobs/orchestrator_workers.py`) | nothing durable | repair, list, claim, dispatch, release or quarantine | acts on listed snapshots; several instances |
| Observation sink (`a2a_runtime/observations.py`) and HITL (`container.py`, `a2a_runtime/hitl.py`) | nothing durable | schedule the watchdog, resume the Run, fail it | resumes a Run another process may still hold |
| Kernel (`execution/orchestrator/kernel.py`) | a loaded copy of the Run | checkpoint, suspend, resume, terminalize | writes from a copy that may be stale |
| Settlement and projection (`settlement.py`, `projection.py`) | an outbox inside the aggregate | claim, apply, retry, complete | at-least-once effects |
| A2A runtime (`a2a_runtime/`) | one ledger document per remote call, an inbox row per observation | accept, dispatch, inspect, apply, deliver, cancel, push | claims that lapse under their holder; a send whose receipt is lost; an observation applied by one process and delivered by another |
| Agent interactions (`a2a_runtime/hitl.py`, `adapters/hitl.py`) | a document per question, the continuation in the ledger | park, surface, answer, send, inspect, supersede | the request and the recovery phase share one coordinator; the Agent may ask again before the answer's receipt is written |
| Approval (`approval/`) | the interaction, a document per question, the resume command | ask, show, answer, apply, cancel, expire, reconcile | one submission is many writes; the answer races expiry and cancellation; effects under two leases |
| Room events (`delivery/room_events.py`, `event_publisher.py`, `sse/`, `snapshot.py`) | the room's log and counter, a queue per connection | append, heal, broadcast, resync, snapshot | slots burned by a dead writer, a full queue, a snapshot older than what was sent |
| Terminal frames (`sse/deduplication.py`) | a reservation and a marker per instance and in Redis | reserve, renew, confirm, release | a lease that lapses under a slow sender; a Redis call whose effect is unknown |
| Room reducer (`frontend/src/lib/room-sync`, `lib/api/sse.ts`) | watermarks, reorder window, timers | fold deltas and snapshots, detect a gap, reconnect | early, late and repeated frames; a fold that waits while the stream is replaced |
| Redis DAL and jobs (`dal/redis`, `jobs/`) | leader locks | acquire, renew, release, run sweeps | lock expiry under a slow holder |
| Execution facade (`execution/facade.py`, `idempotency.py`) | admission records | submit, replay, cancel | duplicated client requests |
| Everything else | agent registry, conversations, LLM gateway, room files, web sessions, diagnostics, settings, MCP, packaging | CRUD, provider I/O, start-up | little shared mutable state of its own |

The session, the workers, the sinks and the cancel requests are separate processes
(or separate coroutines of one process); they meet in the Run's two documents, and
the kernel is called by each of them. The Run meets a remote call in the call's
ledger document: the kernel and the call's executor write it first, call recovery,
the observation processor and the cancellation coordinator afterwards, and the Run
hears of the call through the inbox. A question, of the supervisor or of an Agent,
suspends the Run until an answer, a deadline or a cancellation resumes or ends it.
When the Run ends, its outbox publishes the outcome; every public event goes
through the room's log to the connections of the room.

What makes the core correct:

* a Run ends once; a cancelled Run ends as `canceled`, whatever races with it;
* the lease has one live owner, and a dead owner's lease expires;
* a durable cancellation is eventually settled;
* a Run that is executing always has something that will wake it up;
* an execution whose driver died is failed, not resumed;
* quarantine is final unless the user cancels.

What makes the outbox correct:

* the settlement of a Run is published last, after its event and final message;
* nothing is acknowledged whose effect is not in place, and nothing that was
  acknowledged or blocked is reopened, whichever loops lose their claims;
* the projection state is never ahead of the intents, and follows them in time;
* every intent is eventually acknowledged or blocked.

What makes a remote call correct:

* the Agent gets the message at most once, also after a send whose outcome is
  unknown;
* the Agent gets each answer of the user at most once. The code does not have this:
  two coordinators at once send an answer twice (run `answer_twice`). What it does have
  is that nothing but two coordinators at once sends it twice;
* the call has one verdict, and a Run that waits for it can still be told of it;
* an answer is not sent before the Run has suspended on its question, and an answer
  that was stored is not forgotten;
* a cancelled Run leaves no live call behind; every call settles.

What makes a questionnaire correct:

* its answers come from one submission, and the Run is resumed with what is shown;
* what the Run was resumed with is neither cancelled nor expired afterwards;
* a complete questionnaire reaches its Run, an open question is shown, a withdrawal
  reaches every question, whoever died in between.

What makes the stream correct:

* nothing is delivered that is not in the log, and a browser never shows an event
  above a missing one nor takes back what it has shown;
* a logged event reaches the browser, whatever was dropped on the way;
* a terminal frame is reported as delivered only after a transport took it, and one
  disturbance lets at most one duplicate through.

## Modules

| Module | What it is |
|---|---|
| `RunLifecycle` | the abstract promise: one `status` and the transitions it may make |
| `RunRecovery` | the detailed system: the aggregate, the lease row, and every process that writes them |
| `MCRunRecovery` | the model-checking instance of `RunRecovery`, with two scenarios in one run (`ApartSpec`) |
| `RunRecoveryProofs` | the inductive invariant of `RunRecovery`, the theorems and their proofs |
| `ProjectionOutbox` | the projection intents of ended Runs and the loops that drain them |
| `MCProjectionOutbox` | the model-checking instance of `ProjectionOutbox` (the loops are interchangeable) |
| `ProjectionOutboxProofs` | the inductive invariant of `ProjectionOutbox`, the theorems and their proofs |
| `RemoteCall` | the abstract promise about a call: sent at most once, one verdict, told once |
| `AgentCallStates` | the states of a call and the transitions between them, shared by the next two |
| `AgentCall` | one call: ledger, inbox, and the executor, recovery, processor, push and cancellation that move it; implements `RemoteCall` |
| `AgentInteraction` | a call whose Agent asks back: questions, answers, continuations and their recovery |
| `AgentInteractionRivals` | `AgentInteraction` with a record of whether two coordinators have been at work at once |
| `Approval` | a questionnaire of the supervisor, from its first write to its application or withdrawal |
| `RoomStream` | the room's log, its publishers, one connection and the reducer in the browser |
| `TerminalDelivery` | the reservations and markers that deduplicate one terminal frame |
| `AgentCallProofs`, `AgentInteractionProofs`, `ApprovalProofs`, `RoomStreamProofs`, `TerminalDeliveryProofs` | the inductive invariants of these, the theorems and their proofs |
| `AgentInteractionRivalsProofs` | what holds of `AgentInteraction` until two coordinators overlap, and its proof |
| `MCAgentCall`, `MCAgentInteraction`, `MCApproval`, `MCRoomStream`, `MCTerminalDelivery` | the model-checking instances of these |

### RunRecovery and the code

`run` is the aggregate, `row` the dedicated lease document (`NoClaim` until it
is first written), `proc[p]` the program counter and local variables of a
process, `now` the shared clock. Each store method is split at its database
writes: `claim_recovery` is `BeginClaim` (reads and early returns), `ClaimRow`
(the conditional update of the row), then `ClaimAccepted`, `ClaimInvalid` or
`ClaimLost`/`ClaimUndo`; `release_recovery` is `Leave`, `ReleaseRow`,
`ReleaseCas` or `ReleaseMirror`; `schedule_recovery` is `ScheduleLoad`,
`ScheduleCas`, `ScheduleRow`, `ScheduleLost`; `request_cancellation` is
`CancelLoad`, `CancelCas`, `CancelRow`, `CancelLost`;
`repair_canceling_recovery` is `Repair`, `RepairRow`; `list_due_runs` is `List`;
`renew_recovery` is `Renew`. The unversioned write that follows most of them,
`_mirror_recovery_claim`, is the action `Mirror`, taken at any later moment
before the process goes on.

The kernel is `Observe`, `KernelLoad`, `KernelCheckpoint`, `KernelLost`,
`KernelReturn`, `KernelRaise`, `Settle`, `Commit` and `CommitLost`: it loads the
aggregate and every checkpoint is a compare-and-set from the copy it holds.
`Checkpoints` is the set of statuses one checkpoint may write.

Deaths are `Crash`: at any point between two writes. A dead session is not
rebuilt (its Runs belong to its process); workers, sinks and cancel requests come
back at `idle`. `Shutdown` is the graceful death, which settles the Run first.

Abstractions of `RunRecovery`:

* `state_version` is compared for equality only and only grows, so the set
  `current` of processes whose copy carries the stored version replaces it.
* Of the embedded claim only `kind` is read once the row exists, and
  `next_attempt_at` before; the rest is not kept.
* The reads a method makes before its first write are one step. `Renew` is a
  load and an owner-fenced write in one step: the fence makes an interleaving
  between them a no-op.
* An owner token names the process. The code's workers use a fresh token per
  attempt; a worker makes one attempt at a time and forgets the old one.
* A process has one pending mirror write, because it awaits it before going on.
* `waiting_external` and `awaiting_user` are one status, `suspended`: every test
  of the modelled code is membership in `SUSPENDED_RUN_STATUSES`.
* Times are `0 .. Horizon`; later instants are not told apart. `Dormant` is the
  ten-year schedule of a suspended Run and lies beyond the horizon: it never
  elapses. `NoTime` is `None`, and has always elapsed, as in every test of the
  code.
* The closure checkpoints of a terminalization (open tool calls, transcript) are
  folded into `Commit`.
* Cancel requests share one command id, the one the routing layer derives from
  the Run.
* `FailInteraction` is called with the Run in any status, as
  `terminalize_canonical_hitl_run` tests none.

### ProjectionOutbox and the code

The compare-and-set that ends a Run (`Terminate`) puts two or three intents into
its aggregate: the terminal event, the final message of a completed Run, and the
settlement publication, which waits for the others (`Waits`). `outbox[r][k]` is
the intent of kind `k`; `projection[r]` is `projection_state`; `effects[r]` are
the kinds whose projector has taken effect, a fact about the event store and the
room that no field of the aggregate records.

A loop is one call of `ProjectionOutboxWorker.run_once`. `List` is
`list_due_projection_intents`, with its order and its limit; `Begin` is the start
of `_process_intent`, which loads the Run anew; `ReleaseExpired`/`ReleaseLost`,
`ClaimCheck`/`ClaimCas`/`ClaimLost`/`ClaimReplayed`, `Project`, `Complete`,
`Block`, `Retry` and `Settle`/`SettleLost` are its later steps, one per database
write. The kernel that ended the Run calls `SettlingProjectionDriver.settle`
once (`DriverSettle`, then `Settle`). One process runs the same worker object
from two jobs, each under its own leader lock, and from a nudge under none, so the
loops are concurrent and share one `worker_id`.

A claim is checked for its version twice: in `_intent` and in the
compare-and-set. A loop between the two when another loop's claim of the same
intent lands has sent the same command (`SameCommand`) and is told `replayed`,
which the worker treats like `accepted`: two loops then project one intent under
one live lease. The proofs show that this does no harm to the order, honesty and
finality of the effects.

* `state_version` is again the set `current`. `Touch` is any other write of the
  aggregate, such as the release of the recovery lease.
* The claim's owner is not kept: every loop of the system presents the same
  `worker_id`, so the owner tests of the store hold exactly when the intent is
  claimed.
* A projector is an outcome (`Outcomes`): success with its effect in place, or
  failure with or without it. That success implies the effect is how the three
  projectors are written.
* All the loop's times come from the instant at which the batch was listed, so a
  lease may be born expired, as in the code. The exponential back-off is one
  constant: the properties do not tell delays apart.
* `after_project` is never set by the composition root and is left out.

### AgentCall and the code

`call` is `AgentCallLedgerRecord`, `row[o]` the inbox document of an observation,
`run`, `entry` and `told` the owning Run as far as it concerns the call: its status,
the state of the tool entry in its batch, and the result buffered there. `remote` is
the Agent, which is external: how often it got the message, and whether its task is
done.

| Code | Actions |
|---|---|
| acceptance in the kernel and the runtime | `AcceptCheck`, `AcceptInsert`, `AcceptFence`/`AcceptUnfenced`, `AcceptReplay`, `CheckpointAcceptance`, `Reenter`, `Checkpoint` |
| `execute` and dispatch | `ExecStart` .. `ExecFence`, `Deliver`, `SendFails`, `Heartbeat`, `DispatchAborted`, `StreamWorking`, `Receipt*`, `Ambiguous`, `Retry`, `DispatchFailed`, `ApplyVerdict`, `MarkLoad`, `MarkWrite` |
| `A2ACallRecoveryService` | `RecClaim` .. `RecUncertain`, `RecInspect`, `Inspect*`, `RecApply` |
| `A2AObservationProcessor` | `ProcClaim`, `ProcSettle`, `ProcSkip`, `ProcObserve`, `ProcDeliver`, `ProcDelivered`, `Poison` |
| cancellation of the Run and of its call | `CancelRun`, `CancelStart`, `CancelPending`, `Canceled`, `CloseRun` |
| push, Room deletion, time, deaths | `Push`, `RoomDeleted`, `Grow`, `CallDue`, `RowDue`, `CallLapses`, `RowLapses`, `Crash` |

* Every write of the ledger and of the inbox is a compare-and-set on a version that
  only grows, so `fresh` and `rowFresh`, the processes whose copy is current, replace
  the versions. A renewal and the compare-and-set right behind it are one step: a
  write between the two fails the second as it would have failed the first.
* A claim names its owner by the `worker_id` of its class, which every instance
  shares: a second worker of the class passes the owner test of the first.
* An observation is one of six: progress, the end of the dispatch stream, a Task
  snapshot (inspected or pushed), and the three verdicts the runtime reaches itself.
  Error codes and contents are left out; two observations conflict when their results
  differ.
* `age` has the three thresholds the code tests (orphan TTL, deadline, wait ceiling).
  Delays are a Boolean, due or not.
* `events` bounds what disturbs the plain course: deaths, lapses under a working
  holder, failing and lost sends, a deleted Room.

### AgentInteraction and the code

The call starts parked on the Agent's first question, as the executor leaves it. The
kernel surfaces a question (`Surface`, `Publish`, `Shown`: `surface_agent_questions`)
or closes the call (`CancelBegin`, `CancelCall`, `CancelEnd`). An answering request
(`Submit`, `Store`, `Mark`, `Fence`, `Schedule`, `Claim`, `Authorize`, `Resume`) and the
continuation phase of the recovery cycle (`Pick`, `Reconcile`, `Recover`) go through
one coordinator: `Attempt`, `Send`, `Inspect`, `MarkUncertain`, `RetrySafe`,
`Contract`, `Accept`, `Finalize`, `Supersede`. When the Agent asks again the call is
parked anew, by the coordinator, by call recovery (`PollClaim`, `Poll`, `Postpone`)
or by an observation processor (`ObserveQuestion`, `ProcApply`, `ProcAttach`,
`ProcActivate`, `Tell`).

* A question is a round number; a stored answer is a fact about its round. What an
  answer says is left out: the properties tell apart which question it answers, how
  often the Agent got it and when.
* A process in both `Answerers` and `Sweeps` can do what either can, one thing at a
  time. The server has two at least: its requests and its sweep run at the same time and
  claim under one `worker_id`, so the owner test of the store does not tell them apart.
* A renewal and the write behind it are one step where the loser of the write gives up.
  Where the loser goes on with the winner's record they are two: `Authorize` renews, and
  `Resume` stores the command or, having lost, delivers the winner's record if it carries
  the same command, however far the winner has come (`hitl.py:930`). `Schedule` goes on
  with whatever record it finds (`hitl.py:1546`). `Owns` is the store's owner test: the
  record of a winner may be owned by call recovery, or by nobody.
* `met` of `AgentInteractionRivals` is a history variable: two coordinators have been at
  work at once.
* A transition that is not in the ledger's table raises (`Raises`) and leaves the claim
  behind.
* The claims of inbox rows, the deadlines of the call and the Run's other steps are
  those of `AgentCall` and are not repeated.

### Approval and the code

`agg` is the interaction document, `row[q]` a question's request document, `cmd` the
resume command, `run` the owning Run and `delivered` the answers it was resumed with,
a fact no document of the approval package records. `Ask`, `CreateRow`, `Attach`,
`ShowClaim` and `Show` materialize and publish the questionnaire; `Submit`,
`AnswerRow`, `RecordAnswer` and `RepairRefs` are a submission; `Apply`,
`ClaimApplication`, `Respond`, `Command`, `CmdClaim`, `Fence`, `Effect`, `Ack`,
`CmdProject`, `ProjClaim`, `ProjMark`, `MarkApplied`, `CmdApplied`, `CmdFail` and
`AggFail` its application; `CancelByUser`, `CancelScan`, `CancelRequest`,
`CancelUnattached`, `ExpireDue`, `Expire`, `Withdraw`, `ReconMember`, `Tell`, `Close`
and `EndRun` the ways to withdraw it. The reconciler's passes are `Pass`: it resumes a
materialization, shows what was not shown, repairs answer references, resumes an
application or a command, expires and reconciles.

* The stores' compare-and-set loops (attach, record an answer) read and write again
  when they lose: they are atomic.
* A lease counts only against others and lapses when its holder is gone or `slow`
  (`Stall`). A process drops one claim before it takes the next, so the process is
  the claim's identity.
* An exception that leaves nothing written behind is a `Crash`.
* `Respond` reads the status of each question, goes on with the others after one that
  fails, and fails the application at the end (`Responding`). `read` are the questions the
  applier read as answered: one that another applier took since then fails its
  compare-and-set.
* An answer is the submission it belongs to; `late` says that the deadline passed.

### RoomStream and the code

`log[n]` is the event in slot `n`, a tombstone or a hole; `seq` is the room's counter.
`Alloc` is the append: in a transaction, or counter first when there is none, and then
`Insert` with its attempts, `Fill` (the writer's own tombstone) and `Heal` (the
tombstones of slots more than the grace behind). `Send` broadcasts the frame that was
persisted. `BuildEdge` and `SendEdge` are the boundary snapshot after a terminal frame;
`Connect`, `Handshake`, `Deliver` and `ResyncShot` the server's end of a connection: a
queue that drops its frames when it is full and then sends a snapshot, which folds the
log up to its first hole. `Take` is one frame in the browser (`OnConnected`,
`OnSnapshot`, `OnHeartbeat`, `OnDelta`), `FoldDone` and `Replay` the end of a fold and
the frames that were waiting for it, `Fire` the bootstrap, gap and reorder timers.

* An event's content is its slot; the view is the set of slots folded into it. What a
  client without sequence numbers shows is recorded only when a snapshot brings it, and
  such a snapshot does not move `applied` (`room-reducer.ts` tracks `appliedRoomSeq` for
  sequenced clients only). `ShownStays` therefore speaks of events up to `applied`: what a
  client was shown in its mode without sequence numbers may go when it reconnects.
* A fold waits where the handler awaits (`getAgentName`), so it ends in a later step.
* The reader of a stream that was given up keeps the frames it had received only when
  it was in the middle of a batch. At most one such reader is kept.
* The back-off before a resync is any delay. Every terminal frame that is broadcast starts
  a boundary snapshot of its own (`edge`, one per publisher and terminal event), and
  several of a room may be under way.
* A snapshot that the browser's stores refuse changes nothing and makes the client
  reconnect (`OnSnapshot`, `room-reducer.ts:169`).
* `faults` bounds deaths of publishers, broken streams, lost frames, and snapshots that
  fail or are refused.

### TerminalDelivery and the code

`l1[i]` is the memory of a server instance (reservation, whether it is backed by
Redis, marker), `redis` the frame's key, `em[e]` an emitter. `Reserve` takes the
instance's lock and `SetNx`/`Get` reserve in Redis; `Deliver` is the transport;
`Renew`/`RenewFails` the lease loop; `Confirm`, `Confirmed`, `Mark` and `SetMarker` leave
the marker; `Release` and `Delete` give the reservation back after a failed delivery.

* Claim ids are fresh numbers; one is free whenever one is needed.
* A Redis call that fails may have had its effect (`Fails`).
* A reservation nobody renews lapses freely; one that is renewed lapses only as a
  disturbance (a stall longer than the lease). The marker's TTL, far longer than any
  retry, does not elapse.
* A caller that is told `in flight` or `failed` calls again: the durable callers do
  so in their next pass.

## Runs

| Run | Instance | Properties | Shows |
|---|---|---|---|
| takeover (`MCRunRecovery`) | a worker, horizon 2, quarantine after two failures, fair, and either a driver and one death or a cancel request and two deaths | `TypeOK`, `OwnedLeaseExpires`, `LiveLeaseIsNotStolen`, `QuarantineIsFinal`, `InterruptedRunIsTakenOver`, `CancellationSettles` | the lease protocol: no theft of a live lease, no lease without an expiry, quarantine at the limit and not before, no revival of a quarantined row; a dead driver's Run is taken over; a cancellation settles although the request died between its two writes |
| cancel (`MCRunRecovery`) | a driver that hosts answers, a sink, a cancel request, horizon 1, one death | `CancelingRunsRecoverAsCancellation`, `ImplementsLifecycle` | the cancellation wins against stale checkpoints, releases and mirrors; two resumptions of one Run stay within the lifecycle |
| outbox (`MCProjectionOutbox`) | two loops, one Run, two attempts, one death, one foreign write, horizon 1 | `TypeOK`, `StatusIsPublishedLast`, `CompletedIsProjected`, `VerdictIsHonest`, `OutcomeIsFinal` | order, honesty and finality of the effects under every race of two loops |
| outbox_live (`MCProjectionOutbox`) | one loop, one Run, batches of three, one death, horizon 2, fair | `OutboxDrains` | every intent is acknowledged or one is blocked |
| call (`MCAgentCall`) | kernel, canceller, a recoverer, a processor, two attempts, two inspections, one disturbance, all ages, fair | `TypeOK`, `WaitingRunHasEvidence`, `CanceledRunClosesItsCall`, `ImplementsRemoteCall`, `CallSettles` | one send, one verdict, one report, whoever takes the call over; the evidence the Run waits for is never dropped |
| interaction (`MCAgentInteraction`) | a request and sweep, a rival sweep, a recoverer, a processor, two questions, one disturbance, fair | `TypeOK`, `RepeatsNeedRivals`, `AnswerFollowsQuestion`, `AnswerSettles` | an answer is sent again, or past the limits, only where two coordinators overlapped; it is not sent before the Run waits for it, and is not forgotten |
| answer_twice (`AgentInteraction`) | a request beside a sweep, a recoverer, a processor, two questions, no disturbance | `AnswerIsSentOnce`, expected violated | the code sends an answer twice, without any failure (observation 8) |
| approval (`MCApproval`) | two clients, two questions, two different answers, two disturbances | `TypeOK`, `AnswersFromOneSubmission`, `DeliveredAnswerStands`, `AppliedIsConfirmed`, `ConfirmedCommandIsFinal` | answers are not mixed, and what the Run got stands |
| approval_live (`MCApproval`) | a client, the reconciler, one question, one disturbance, fair | `AnswerReachesRun`, `OpenQuestionIsShown`, `WithdrawalReachesQuestions` | the reconciler finishes what a dead process left |
| stream (`MCRoomStream`) | two publishers, two events, three slots, queue and buffers of one, one disturbance | `TypeOK`, `DeltaIsDurable`, `ViewIsPrefix` | persist before broadcast; no event above a missing one |
| stream_live (`MCRoomStream`) | one publisher, two terminal events, one disturbance, fair | `ShownStays`, `EventReachesRoom` | a late snapshot takes back nothing that was folded; a logged event reaches the room |
| terminal (`MCTerminalDelivery`) | two instances, three emitters, two disturbances, fair | `TypeOK`, `MarkedIsAccepted`, `DuplicatesNeedDisturbance`, `EmissionEnds` | no false "already delivered"; one duplicate per disturbance; every caller ends |

Why the bounds are enough to be interesting:

* Run: `takeover` is two scenarios in one state space, split by who begins
  (`ApartSpec`): a session on a Run nobody cancels, or a cancel request on a Run whose
  session never begins. The sessions and cancel requests that race are those of
  `cancel`, and so are the sessions that fail: here a session ends, loses a checkpoint
  or dies. Beside it recovery fails on invariants only, the failures that lead to
  quarantine; beside the cancel request adapters fail too.
* Run and outbox: horizon 2 with a lease term of 1 lets a lease expire, be claimed
  again and expire again; horizon 1 lets a lease expire under a working owner; one
  death can fall between any two writes; two loops are enough for every pairwise
  race; two attempts let an intent be retried and then blocked. The proofs below
  remove these bounds for the safety properties, several workers included.
* Calls: one recoverer shares its claim name with every other, and a claim that
  lapses under it (the one disturbance) puts it beside the executor and the
  processor; two attempts and two inspections reach both "try again" and "give up".
  Two questions are what an answer in the wrong round needs. The rival of `interaction`
  begins while the call is on its first question, before any disturbance, and while call
  recovery and the processor are at rest; while it works, they begin nothing new and only
  a claim may lapse, and once the two have overlapped nothing more is disturbed. Without these restrictions, and with no disturbance or with one, the
  safety properties hold as well (0.24 and 3.8 million states); the restriction makes the
  liveness property fit. The rivals of `answer_twice` are not restricted.
* Questionnaires: two clients with different answers race each other, and cancel or
  miss the deadline at any point; two disturbances let one applier stall and the next
  one die.
* Stream: three slots with a grace of 1 let a slot be burned, healed and followed; a
  queue, a buffer and a wire of one frame overflow at once.
* Terminal frames: two emitters in one instance and a third in the other meet in L1
  and in Redis; two disturbances tell "one each" from "two for one".

Larger instances give the same results for the safety properties and are left out of
the runs only for their time: `call` with two recoverers or two processors (0.8 million
states each), `interaction` with one coordinator and two disturbances, `approval` with a client beside the
reconciler and two disturbances, `terminal` with three disturbances (1.7 million).

Deadlock is checked in every run but those where everything may end: `cancel` (no
worker, so a dead driver ends everything), `call`, `interaction`, `answer_twice`,
`approval`, `approval_live` (the Run ends) and `terminal` (every caller is done).

### Fairness

`Fairness` of `RunRecovery` is weak fairness of the clock and of a worker's sweep, and
strong fairness of its `Settle` and `Commit`. The workers run on a timer (every 30 s,
on the instance that holds the leader lock) for as long as the backend lives. A
pass may raise (`KernelRaise`, `LoseLease` are always possible), but a settlement
that is attempted again and again is, at some point, not interrupted: that is the
strong fairness. Nothing is assumed of sessions, sinks or cancel requests. `ApartSpec`
restricts only steps of those and `KernelRaise`, never a step that fairness is about.

In `ProjectionOutbox` it is weak fairness of the clock, of each loop as a whole
(the jobs call `run_once` on a timer) and of a kernel that has ended its Run, and
strong fairness of listing a given intent, which only matters where the horizon
makes two due times coincide that the code would tell apart. A projector may fail
every time: the attempts are then used up and the intent is blocked.

In `AgentCall` it is weak fairness of every process and of time, for the steps that
need no disturbing event. The Agent need never answer: age and the inspection limit
end the call.

In `AgentInteraction` the coordinator must also come to a call that is claimed and
changed by call recovery over and over: strong fairness of picking it, of claiming it
while it can be claimed, and of a coordinator's step from a current copy. The code
justifies it by the order of the phases: one recovery cycle runs the continuation
phase before the calls phase, and the calls phase postpones what it touches. The rival
of the run need never begin, but ends what it has begun (weak). `AnswerSettles` has an
exception for a call that a rival has `Misled`: the answer to an earlier question is on
it, and the later answer is never sent.

In `Approval` every process finishes what it began (weak), and each pass of the
reconciler is strongly fair: it runs on a timer, and a holder that keeps a lease only
delays it. No user has to answer. In `RoomStream` publishers finish an append, the
connection sends what it has, the browser reads, folds, reconnects and its timers
fire (all weak); nobody has to publish, so progress does not rest on a later event.
In `TerminalDelivery` an emitter takes its steps and reservations lapse (weak).

### Observations

Properties that the documents, comments or names of the code suggest and that the
models show it not to have. Their definitions are in the modules, with what the code
does instead; TLC finds a counterexample to each when it is added to a run of its
module (where an instance is named, it is that one). Number 8 is recorded as a run that
expects the violation, and as a finding; of the others only the property and the
instance are recorded here.

1. **A hosted resume is not armed** (`ActiveRunIsArmed`, with `HostedResume`).
   `claim_recovery` takes `allow_scheduled` so that "an in-process driver [may] take an
   unowned lease before its watchdog is due" (`run_store.py:531`), but
   `_claim_dedicated_recovery_lease` tests `next_attempt_at` again (`run_store.py:159`)
   and refuses. The session resumes a suspended Run without a lease, and its row stays
   at the far-future schedule, although `persistence.py:33` says such Runs "are
   re-armed at their extended deadline when they resume": if the process dies, nothing
   wakes the Run. A Run that never had a row, as with the in-memory store, is not
   affected.
2. **A sink's watchdog is overwritten** (`ActiveRunIsArmed`, with a sink). The sink arms
   the watchdog before resuming (`observations.py:78`), but does nothing while the driver
   that suspended the Run still owns the row (`session.py:593`); the driver's release then
   writes the dormant schedule under the resumed Run.
3. **An interrupted execution can be resumed** (`InterruptedRunIsNotResumed`, two
   workers). `session.py:429` says "an interrupted execution is never resumed". A worker
   whose aggregate write is lost (`run_store.py:578`) gives the row back with no owner
   instead of the dead session's, so the next sweep does not recognise an interruption.
4. **A drained outbox may never settle** (`DrainedOutboxSettles`). A death between the
   last acknowledgement and the settlement (`projection.py:206`) leaves
   `projection_state` pending: only due intents are listed, and there is none left to
   bring a loop back to the Run. `projection.py:51` calls `settle` safe "after a worker
   crash", but nobody calls it then.
5. **Waiting intents can fill the batch** (`EveryRunIsServed`, batches of one, two
   Runs). A settlement intent whose sibling is blocked stays pending and due since the
   Run ended, so it comes first in every listing (`run_store.py:936`); a batch limit's
   worth of them starves every younger Run.
6. **An inbox race becomes a failed tool result** (`RunHearsVerdicts`). `mark_executor_outcome`
   raises when a processor claimed the row after its load (`ingress.py:293`). The error
   is none of those `execute` turns into a suspension, so the kernel makes a failed
   result of it: what `runtime.py:293` says must never happen.
7. **A question may be dropped as audit evidence** (`AskedQuestionReachesRun`). The
   processor completes a row whose observation was already applied when the call shows
   another interaction (`ingress.py:525`). The rule assumes that the call has moved on; a
   call that has not yet been parked on the question looks the same, and the Run then
   never hears of a question the Agent still asks.
8. **An answer is sent twice, and may go to a later question** (`AnswerIsSentOnce`, run
   `answer_twice`; `AnswerMatchesQuestion`, the same instance). A repeated submission,
   or a sweep beside one, reads the call while call recovery has postponed its poll.
   `_due_for_answer` then loses its write, goes on with the winner's record
   (`hitl.py:1546`) and does not repeat the check of `hitl.py:638`. When the winner has
   sent the answer and the Agent has asked again, the loser claims the call and sends
   the old answer a second time; if the call is already parked on the new question, the
   old answer stands as the answer to it and the true one is never sent (`Misled`). The
   loser of the write of the command does the like (`hitl.py:930-938`): it delivers the
   winner's command once more, also when that is already `dispatching`, which passes the
   attempt limits too. This contradicts `hitl.py:1130-1132`, "Never convert the old
   challenge into permission to repeat the remote effect", and
   `docs/System-Architecture.md:2529`, "Remote delivery uncertainty is durable and never
   blindly retried". Both sends carry the message id of one command, so an Agent that
   drops repeated ids is spared the second. One coordinator after the other sends
   nothing twice, whatever it dies of (`RepeatsNeedRivals`).
9. **An expired question may leave its Run waiting** (`ExpiredQuestionEndsRun`).
   `container.py:442`: "while that cancellation is pending the call raises and the HITL
   reconciler retries". The interaction is marked reconciled before the Run is
   terminalized (`approval/service.py:1229`), so after the exception no pass lists it
   again. The Run's own deadline remains.
10. **A fold may be overtaken** (`NotOvertaken`). `sse.ts:187`: a later terminal frame
    "must never overtake an earlier start/update handler". The reader of a stream that
    was given up may still wait in a handler; its continuation ends in the next
    session (`room-reducer.ts:254`) and sets `lastRoomSeq` back. The next delta then
    looks like a gap and costs one more reconnection; what is shown stays a prefix.

Remarks without a property of their own: an authorization or transport failure of a
continuation (`hitl.py:940`, `hitl.py:1407`) ends the call without the inbox row that
`runtime.py:684` says recovery needs, so the Run hears of it only through its watchdog.
The comment at `recovery.py:139` says that the continuation phase runs after the calls
phase; in `A2ARecoveryCycle` it runs before. An interaction whose answers are complete
and whose Run is being cancelled never settles (`application.py:523` returns early), and
stays at the front of the reconciler's limited lists. An interaction cancelled while it
was being materialized, with some question not attached, fails the reconciler's
inventory check for good. A publisher that dies between the counter and its insert
leaves a hole at the tail that is healed only when as many further slots as the grace
are allocated; until then heartbeats carry a counter the client cannot reach and it
reconnects (`EventReachesRoom` excludes that case). A failed snapshot at connect time puts the
client into its mode without sequence numbers until it reconnects.

## Proofs

`RunRecoveryProofs` proves, for any finite or infinite sets of processes, any
lease, deadline and retry terms, any horizon and any number of deaths:
`TypeCorrectness`, `CancellationKind`, `LeaseExpiry`, `NoTheft`,
`QuarantineSticks` and `Refinement` (`RunRecovery` implements `RunLifecycle`).
The assumptions are those of `RunRecovery`: the four kinds of process are
disjoint, `NoOwner` is none of them, the lease term is positive, the other bounds
are naturals and `MaxInvariantFailures` is positive.

The argument is one inductive invariant, `IInv`:

* `Typed`, the types of the variables;
* `RunOK`: a Run whose cancellation was requested is canceling or has ended, and
  a canceling aggregate carries a cancellation claim;
* `RowOK`: an owned row has an expiry, no schedule and no quarantine, and a row is
  quarantined exactly when its failures are used up (`Counted`);
* `ProcsOK`: what a process holds in memory agrees with where it is (`MemoryOK`)
  and, while it is in `current`, with the stored aggregate (`CopyOK`).

None of the properties is inductive alone. That a canceling Run carries a
cancellation claim needs to know that a *current* copy has the stored status and
kind, and that the claim a process is about to write is one that could be in the
row; that an owned row is never quarantined needs the due-test a claimant made to
be remembered by the claim it will write. The invariant was checked with TLC on
the instances above before it was proved. The proof has one lemma per action, and
`Invariance` puts them together. `Refinement` uses that a current copy's status is
the stored one, so a checkpoint is always a transition of the present status.

`ProjectionOutboxProofs` proves, for any sets of Runs and loops, any terms, limits
and horizon and any number of deaths and foreign writes: `OutboxTypeCorrectness`,
`PublishedLast`, `AcknowledgedIsProjected`, `HonestVerdict` and `FinalOutcome`. The
assumptions are those of `ProjectionOutbox`: loops and Runs are disjoint, the
attempts and the batch limit are positive, the other bounds are naturals. Its
inductive invariant adds to the properties:

* `MemoryOK`: where a process is agrees with what it holds, and a loop that holds
  an intent has the instant of its batch;
* `HeldOK`: the Run a process works on has ended, and the process' copy is right
  about it (`CopyOK`): an intent past the wait test need not wait, *whether or not
  the copy is current*; a completing loop's effect is in place; and a current copy
  shows the status its step expects and the verdict it will write;
* `RunningOK`: a Run that has not ended has no intents and no effects.

The heart of it is that acknowledged intents stay acknowledged, so a wait test once
passed stays passed (`WaitsMonotone`) and stale loops are harmless, while every
write takes currency from all other copies of the Run (`WrittenCopies`). `Preserved`
states this once, for a step of one process, and each action is an instance of it.

`TerminalDeliveryProofs` proves, for any finite sets of instances and emitters and any
number of disturbances: `TypeCorrect`, `MarkedAcceptedHolds` and `DuplicatesBounded`.
That duplicates are paid for by disturbances is not inductive: an emitter that has
reserved the frame and not yet delivered it has spent a delivery already. `Budget`
counts the frames in hand as sent (`Spent`), and says that `Spent` exceeds the
disturbances by at most one, and by one only while Redis holds the marker, or a claim
whose emitter *guards* it: it holds the reservation in Redis and in its instance, has
not lost its lease, and will confirm or mark. A step that lets a second emitter reserve
either finds the key free, and then the first delivery was paid for, or is a disturbance
itself. `LockOK`, `Accepted` and `Unlost` say what the program counters imply. Finite
sets are needed because the frames in hand are counted.

`RoomStreamProofs` proves, for any publishers and events, any number of slots, any
queue, buffer and wire sizes, any grace and any number of disturbances: `TypeCorrect`,
`DeltasDurable`, `ViewsArePrefixes` and `FoldedStaysShown`. The log only grows (`Grows`):
a hole is filled, and nothing that fills it is replaced. So whatever is under way keeps
naming an event (`FrameOK`), and a watermark whose prefix had no hole when a snapshot was
built keeps a solid prefix however late the snapshot arrives. In the browser a client
that has its snapshot shows exactly the events up to `applied`, and a fold that waits,
also one of a stream that was given up, is at most one slot beyond `applied`: that is why
an overtaken fold (observation 10) leaves a prefix behind. The buffers of the code are
filtered in two places; `Kept` defines this by indices so that it can be proved about,
and the first hole of the log exists because a nonempty set of slots has a least element.

`ApprovalProofs` proves, for any numbers of questions, answers, clients and reconcilers
and any number of disturbances: `TypeCorrect`, `OneSubmission`, `AnswerStands`,
`AppliedConfirmed` and `ConfirmedStays`. The code takes three kinds of lease, and the
argument needs none of them; a lease only spares work. The statuses of the interaction,
of a question and of the command go forward only (`Onward`), and a worker's place says how
far the questions have come: a submission at question `q` has its answer on every question
before `q`, so two different submissions cannot both get beyond the first; an applier past
its questions has seen all of them responded on an interaction that was claimed for
application, and an interaction so claimed is in none of the states a withdrawal starts
from. The command is confirmed only after the Run got the answers, and the projection and
the end of the application come only after the confirmation.

`AgentCallProofs` proves, for any recoverers and processors, any limits of attempts and
inspections, any number of disturbances and both sides of every race: `TypeCorrect`,
`Evidence`, `Closed` and `Refinement` (`AgentCall` implements `RemoteCall`). The
assumptions are that the kinds of process are disjoint and that the limits are positive;
no claim and no lease is used. The invariant has five ideas:

* the call goes forward (`CallOnward`): what a stale process remembers of it (that it
  exists, has a verdict, is being canceled) stays true. `PlaceOK` says what each place
  remembers, `CopyOK` what a current copy adds;
* one turn to send (`TokenOK`): at most one executor is between the write of
  `dispatching` and the end of its dispatch, none while the call can be dispatched, and
  one that has not sent finds the Agent without the message. The places that hand the
  turn back (an aborted or a retried dispatch) have not sent. This is why the message is
  sent at most once although `execute` checks only its own copy;
* evidence first (`EvidenceOK`): a verdict that no cancellation gave has its row in the
  inbox, because the row is recorded before the compare-and-set and rows are not deleted;
* completed only when of no use (`Spent`): the entry is terminal, the Run ended, the Room
  deleted, the call canceled, or another outcome won. A processor that completes a row
  after it told the Run relies on `PlaceOK` of `delivered`;
* `Excused`: the kernel's place says where the entry is (`KernelOK`), so a live call of a
  Run that is over, or that the canceller is about to close, is one the acceptance fence
  still closes, an orphan, or one whose execution raised. The invariant keeps that a
  canceller which found no call saw a canceling Run: the call it did not see is inserted
  behind its back, and only the fence can find it.

`ProcessStep` turns all this into the obligations of one step of one process, and each
action is an instance of it (or of `QuietStep`, if it reaches neither Run nor Agent); the
insert of the call is the one step that is not, since before it nobody knows of a call.
`PromiseKept` gives the step of `RemoteCall`: an action changes at most one of message
count, verdict and what was told (`Single`).

`AgentInteractionProofs` proves, for any requests, sweeps, recoverers and processors,
also when several coordinators work at once, any number of questions and disturbances:
`TypeCorrect` and `AnswerFollows`. The assumptions are that the limits of attempts,
inspections and authorization refreshes and the number of questions are positive. An
answer needs a published question, a published question has a surface entry
(`QuestionsOK`), and the fence lets an answer pass only if that entry is not pending:
so what passes is shown. None of the three is taken back (`Onward`, `RunStep`), hence
what a process remembers of it in its place (`PlaceOK`), and the command it becomes on
the call (`CallOK`), stays right however stale the carrier is. It matters that a
question whose publication fails gives up its surface entry only while it is not
published: that is why the fence may take an absent entry for a shown one. `TypeCorrect`
says more than types: a call that waits for its user carries no command of an earlier
round, and a command that is yet to be sent has a transport attempt left. It bounds no
attempts: with two coordinators they pass the limits.

`AgentInteractionRivalsProofs` proves `OnceWithoutRivals`: for any set of coordinators
that is not empty (`RivalsAssumption`), any recoverers, processors, questions, limits and
disturbances, no answer is sent twice and no attempt passes its limit as long as no two
coordinators have been at work at once (`met`). Coordinators may follow each other in any
order and take over what another left when it died. The theorem says that their overlap,
which the code does not prevent, is the only thing that repeats an answer; crashes, lost
receipts, lapsed claims, call recovery, processors and cancellation do not. Its invariant
is `IInv` and, while `met` is false, for every coordinator that is alone:

* `SentOK`: the call never forgets that an answer was sent. The answered question was
  seen, so it cannot be asked anew; and as long as the call names the question, the
  command is there and on record as dispatched, so it is inspected and not sent;
* `UnsentOK`: the answer a coordinator holds was not sent, and the command on the call is
  its own or gone, also when it goes on with a winner's record (`Reload`, `Resume`);
* `NewOK`: a question about to be attached is new, and nobody holds an answer to it.

Only model-checked are the liveness properties: they need fairness and ENABLED, which are
out of the prover's reach.

## Not modelled

Within the modelled components:

* Run: creation, waiters, subscriber fan-out; model turns, tools, budgets, transcript
  and compaction inside the kernel.
* Outbox: the projectors' own writes and the evaluation that chooses a terminal status.
* Calls: the model's reply to a question of the Agent (`dispatch_model_reply`), the
  detail of authorization references, untyped or invalid question specifications,
  context references and artifacts, quarantine of malformed input. How the executor
  first parks a call is the initial state of `AgentInteraction`.
* Approval: requests that come from an Agent (their protocol is `AgentInteraction`),
  failed interactions and the command's permanent failure (unreachable for the
  supervisor), the version a client read, event contents, room deletion.
* Stream: what a fold does to the stores, the client without sequence numbers, room
  subscriptions and their fan-out across instances, the reconnect attempt limit.

Not modelled at all: the Redis leader lock and the jobs it gates, admission and
idempotency of prompts, direct agent execution, message storage. Provider I/O (LLM
gateway, A2A adapter), CRUD services, HTTP routes, data types, settings, start-up,
packaging, the MCP server and the user interface keep little shared state of their own;
they are most of the repository's lines, and a state machine has nothing to say of
them. The models cover about a tenth of the implementation's lines, those that carry
its concurrency and recovery.

## Plan

1. `RunLifecycle`, `RunRecovery`, `ProjectionOutbox` and their proofs (done).
2. `RemoteCall`, `AgentCall`, `AgentInteraction` (done), `Approval` (done), `RoomStream`,
   `TerminalDelivery` (done).
3. Proofs: `TerminalDelivery`, `RoomStream`, `Approval`, `AgentCall` with its refinement,
   `AgentInteraction` with any coordinators and until two overlap (done).
4. `LeaderLock` (the Redis lock under a slow holder), `RoomSubscription` (admission,
   cleanup and cross-instance fan-out), `Admission` (idempotent prompts, replay and
   cancel-before-run).
