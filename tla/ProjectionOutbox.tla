-------------------------- MODULE ProjectionOutbox --------------------------
(***************************************************************************)
(* The terminal side effects of orchestrator Runs.  The compare-and-set    *)
(* that ends a Run mints projection intents into the aggregate; loops of   *)
(* the ProjectionOutboxWorker claim each, run its projector, and complete, *)
(* retry or block it; the projection_state of the Run is derived from them.*)
(*                                                                         *)
(* One process runs the same worker object from two jobs under different   *)
(* leader locks and from a nudge under none, so several loops drain the    *)
(* outbox at once, with one worker_id: the owner of a claim tells them     *)
(* apart no better than its status does, and is not kept.                  *)
(*                                                                         *)
(* Every write is a compare-and-set of the whole aggregate on its          *)
(* state_version.  `current' is the set of processes whose loaded copy of  *)
(* the Run they work on still carries the stored version.                  *)
(***************************************************************************)
EXTENDS Integers, FiniteSets

CONSTANTS
    Runs,
    Workers,       \* concurrent run_once loops
    LeaseTerm,     \* lease_seconds
    Backoff,       \* the exponential delay, not told apart by attempt
    MaxAttempts,   \* max_attempts
    BatchLimit,    \* batch_limit
    Horizon,       \* bound: later instants are not told apart
    MaxInterrupts, \* bound on deaths and adapter failures
    MaxTouches     \* bound on writes of other owners of the aggregate

\* The kernel that ends a Run is named by the Run.
Procs == Workers \cup Runs

NoRun == "no run"

ASSUME ProcsAssumption == Workers \cap Runs = {} /\ NoRun \notin Runs

ASSUME OutboxBoundsAssumption ==
    /\ LeaseTerm \in Nat
    /\ Backoff \in Nat
    /\ MaxAttempts \in Nat \ {0}
    /\ BatchLimit \in Nat \ {0}
    /\ Horizon \in Nat
    /\ MaxInterrupts \in Nat
    /\ MaxTouches \in Nat

VARIABLES
    outbox,     \* per Run and kind: the projection intent
    projection, \* per Run: projection_state
    updated,    \* per Run: updated_at
    effects,    \* per Run: the kinds whose projector has taken effect
    proc,       \* per process: program counter and memory
    current,    \* processes whose loaded copy has the stored state_version
    now,
    interrupts,
    touches

vars == <<outbox, projection, updated, effects, proc, current, now, interrupts, touches>>
-----------------------------------------------------------------------------
(* Intents                                                                 *)

NoTime  == -1                   \* None: has always elapsed
Times   == NoTime .. Horizon
Upto(t) == IF t <= Horizon THEN t ELSE Horizon

\* append_orchestrator_event, deliver_final_message, project_terminal_run_status
Kinds == {"event", "message", "status"}

Intents == [status : {"absent", "pending", "claimed", "completed", "blocked"},
            attempts : 0 .. MaxAttempts, next : Times, lease : Times]

Absent == [status |-> "absent", attempts |-> 0, next |-> NoTime, lease |-> NoTime]
Minted == [Absent EXCEPT !.status = "pending"]

\* The attempts beyond the limit are not told apart.
Claimed(i, lease) ==
    [i EXCEPT !.status = "claimed", !.next = NoTime, !.lease = lease,
              !.attempts = IF @ < MaxAttempts THEN @ + 1 ELSE @]

\* Fault: a released intent keeps the expiry of its claim.
PendingWithLease(i, next) == [i EXCEPT !.status = "pending", !.next = next]

Pending(i, next) == [i EXCEPT !.status = "pending", !.next = next, !.lease = NoTime]
Closed(i, status) == [i EXCEPT !.status = status, !.next = NoTime, !.lease = NoTime]

\* Fault: a claim whose worker died is not listed again.
DueUnlessClaimed(i, t) == i.status = "pending" /\ i.next <= t

\* list_due_projection_intents
Due(i, t) ==
    \/ i.status = "pending" /\ i.next <= t
    \/ i.status = "claimed" /\ i.lease <= t

\* _projection_due_at: next_attempt_at, else claim_expires_at, else updated_at
DueAt(r, i) ==
    IF i.next # NoTime THEN i.next
    ELSE IF i.lease # NoTime THEN i.lease ELSE updated[r]

\* Fault: the settlement publication waits for the final message only.
WaitsForMessage(items, k) ==
    k = "status" /\ items["message"].status \notin {"absent", "completed"}

\* The settlement publication is the dependent intent of all the others.
Waits(items, k) ==
    /\ k = "status"
    /\ \E o \in Kinds \ {k} : items[o].status \notin {"absent", "completed"}

\* Fault: an intent that is being projected counts as delivered.
VerdictCountingClaims(items) ==
    IF \E k \in Kinds : items[k].status = "blocked" THEN "blocked"
    ELSE IF \E k \in Kinds : items[k].status = "pending" THEN "pending"
    ELSE "settled"

\* evaluate_projection_settlement; every intent is required.
Verdict(items) ==
    IF \E k \in Kinds : items[k].status = "blocked" THEN "blocked"
    ELSE IF \E k \in Kinds : items[k].status \notin {"absent", "completed"} THEN "pending"
    ELSE "settled"
-----------------------------------------------------------------------------
(* Processes                                                               *)

\* batch: what run_once listed and has not looked at; at: the instant of the
\* whole batch; run, kind: the intent at hand, of which attempts and lease are
\* as claimed; verdict: the projection state to be written.
Fresh(where) ==
    [pc |-> where, batch |-> {}, at |-> NoTime, run |-> NoRun, kind |-> "event",
     attempts |-> 0, lease |-> NoTime, verdict |-> "pending"]

Init ==
    /\ outbox = [r \in Runs |-> [k \in Kinds |-> Absent]]
    /\ projection = [r \in Runs |-> "pending"]
    /\ updated = [r \in Runs |-> 0]
    /\ effects = [r \in Runs |-> {}]
    /\ proc = [p \in Procs |-> Fresh(IF p \in Runs THEN "running" ELSE "idle")]
    /\ current = {}
    /\ now = 0
    /\ interrupts = 0
    /\ touches = 0

Become(p, new) == proc' = [proc EXCEPT ![p] = new]

\* The intent at hand, and the whole outbox it belongs to.
Items(p) == outbox[proc[p].run]
Item(p)  == Items(p)[proc[p].kind]

\* p is done with its intent and turns to the rest of its batch.
Onward(p) ==
    IF proc[p].batch = {} THEN Fresh(IF p \in Runs THEN "done" ELSE "idle")
    ELSE [Fresh("batch") EXCEPT !.batch = proc[p].batch, !.at = proc[p].at]

\* p has just read or written the aggregate: with these items it writes the
\* projection state if that has changed.
Settling(p, items) ==
    IF Verdict(items) = projection[proc[p].run] THEN Onward(p)
    ELSE [proc[p] EXCEPT !.pc = "settle", !.verdict = Verdict(items)]

Holders(r) == {q \in Procs : proc[q].run = r}

\* The processes of S that still work on a Run have current copies.
Copies(S) == current' = {q \in S : proc'[q].run # NoRun}

\* p's write leaves every other copy of its Run out of date.
Written(p) == Copies((current \ Holders(proc[p].run)) \cup {p})

\* Fault: a write from whatever copy the process happens to hold.
PutIgnoringVersion(p, intent) ==
    /\ outbox' = [outbox EXCEPT ![proc[p].run][proc[p].kind] = intent]
    /\ Written(p)

\* _intent: the aggregate is replaced with this intent changed.
Put(p, intent) ==
    /\ p \in current
    /\ outbox' = [outbox EXCEPT ![proc[p].run][proc[p].kind] = intent]
    /\ Written(p)

Reload(p) == Copies(current \cup {p})
-----------------------------------------------------------------------------
(* The worker: run_once and _process_intent                                *)

\* The first BatchLimit due intents, the longest due first.
List(p) ==
    LET due == {x \in Runs \X Kinds : Due(outbox[x[1]][x[2]], now)}
        at(x) == DueAt(x[1], outbox[x[1]][x[2]])
    IN  /\ proc[p].pc = "idle"
        /\ \E batch \in SUBSET due :
              /\ Cardinality(batch) <= BatchLimit
              /\ batch = due \/ Cardinality(batch) = BatchLimit
              /\ \A x \in batch, y \in due \ batch : at(x) <= at(y)
              /\ Become(p, IF batch = {} THEN Fresh("idle")
                           ELSE [Fresh("batch") EXCEPT !.batch = batch, !.at = now])
        /\ UNCHANGED <<outbox, projection, updated, effects, current, now, interrupts, touches>>

\* Load the Run and look at the intent again.
Begin(p) ==
    /\ proc[p].pc = "batch"
    /\ \E x \in proc[p].batch :
          LET i    == outbox[x[1]][x[2]]
              rest == [proc[p] EXCEPT !.batch = @ \ {x}]
              me   == [rest EXCEPT !.run = x[1], !.kind = x[2]]
              skip == IF rest.batch = {} THEN Fresh("idle") ELSE rest
              where == IF i.status = "claimed" /\ i.lease <= proc[p].at THEN "release"
                       ELSE IF i.status = "pending" /\ ~Waits(outbox[x[1]], x[2])
                       THEN "claim" ELSE "skip"
          IN  /\ Become(p, IF where = "skip" THEN skip ELSE [me EXCEPT !.pc = where])
              /\ Reload(p)
    /\ UNCHANGED <<outbox, projection, updated, effects, now, interrupts, touches>>

\* An expired claim is first given back.
ReleaseExpired(p) ==
    /\ proc[p].pc = "release"
    /\ Become(p, IF Waits(Items(p), proc[p].kind) THEN Onward(p)
                 ELSE [proc[p] EXCEPT !.pc = "claim"])
    /\ Put(p, Pending(Item(p), proc[p].at))
    /\ UNCHANGED <<projection, updated, effects, now, interrupts, touches>>

\* Somebody else was first; the Run is reloaded and may be claimed all the same.
ReleaseLost(p) ==
    /\ proc[p].pc = "release"
    /\ p \notin current
    /\ Become(p, IF Item(p).status # "pending" \/ Waits(Items(p), proc[p].kind)
                 THEN Onward(p) ELSE [proc[p] EXCEPT !.pc = "claim"])
    /\ Reload(p)
    /\ UNCHANGED <<outbox, projection, updated, effects, now, interrupts, touches>>

\* The version is compared once before the compare-and-set.
ClaimCheck(p) ==
    /\ proc[p].pc = "claim"
    /\ Become(p, IF p \in current THEN [proc[p] EXCEPT !.pc = "claimCas"] ELSE Onward(p))
    /\ UNCHANGED <<outbox, projection, updated, effects, current, now, interrupts, touches>>

\* The command id names the intent and the version but not the claimant: for
\* everybody about to send the same command it is processed now.
SameCommand(p) ==
    {q \in current \ {p} : /\ proc[q].pc = "claimCas"
                           /\ proc[q].run = proc[p].run /\ proc[q].kind = proc[p].kind}

ClaimCas(p) ==
    LET claimed == Claimed(Item(p), Upto(proc[p].at + LeaseTerm))
    IN  /\ proc[p].pc = "claimCas"
        /\ proc' = [q \in Procs |->
              IF q = p THEN [proc[p] EXCEPT !.pc = "project", !.lease = claimed.lease,
                                            !.attempts = claimed.attempts]
              ELSE IF q \in SameCommand(p) THEN [proc[q] EXCEPT !.pc = "replayed"]
              ELSE proc[q]]
        /\ Put(p, claimed)
        /\ UNCHANGED <<projection, updated, effects, now, interrupts, touches>>

ClaimLost(p) ==
    /\ proc[p].pc = "claimCas"
    /\ p \notin current
    /\ Become(p, Onward(p))
    /\ UNCHANGED <<outbox, projection, updated, effects, current, now, interrupts, touches>>

\* A replayed claim is as good as an accepted one.
ClaimReplayed(p) ==
    /\ proc[p].pc = "replayed"
    /\ Become(p, IF Item(p).status # "claimed" THEN Onward(p)
                 ELSE [proc[p] EXCEPT !.pc = "project", !.lease = Item(p).lease,
                                      !.attempts = Item(p).attempts])
    /\ Reload(p)
    /\ UNCHANGED <<outbox, projection, updated, effects, now, interrupts, touches>>

\* Fault: a projector's error is taken for a success.
OutcomesConfused == {"complete", "failed"} \X BOOLEAN

\* The outcomes of a projector, and whether its effect is in place: it may
\* fail after its effect, but reports no success without it.
Outcomes == {<<"complete", TRUE>>, <<"failed", TRUE>>, <<"failed", FALSE>>}

Project(p) ==
    /\ proc[p].pc = "project"
    /\ \E o \in Outcomes :
          /\ Become(p, [proc[p] EXCEPT !.pc = o[1]])
          /\ effects' = IF o[2] THEN [effects EXCEPT ![proc[p].run] = @ \cup {proc[p].kind}]
                        ELSE effects
    /\ UNCHANGED <<outbox, projection, updated, current, now, interrupts, touches>>

\* complete_projection_intent, or block_projection_intent once the attempts
\* are used up; then _settle on the Run the store returned.
Close(p, status) ==
    /\ \/ /\ Become(p, Settling(p, [Items(p) EXCEPT ![proc[p].kind] = Closed(@, status)]))
          /\ Put(p, Closed(Item(p), status))
       \/ /\ p \notin current
          /\ Become(p, Settling(p, Items(p)))
          /\ Reload(p)
          /\ UNCHANGED outbox
    /\ UNCHANGED <<projection, updated, effects, now, interrupts, touches>>

Complete(p) == proc[p].pc = "complete" /\ Close(p, "completed")

Block(p) ==
    /\ proc[p].pc = "failed"
    /\ proc[p].attempts >= MaxAttempts
    /\ Close(p, "blocked")

\* The result of the release is not looked at: one that is lost leaves the
\* intent to the expiry of its lease.
Retry(p) ==
    /\ proc[p].pc = "failed"
    /\ proc[p].attempts < MaxAttempts
    /\ Become(p, Onward(p))
    /\ \/ Put(p, Pending(Item(p), Upto(proc[p].at + Backoff)))
       \/ p \notin current /\ UNCHANGED <<outbox, current>>
    /\ UNCHANGED <<projection, updated, effects, now, interrupts, touches>>
-----------------------------------------------------------------------------
(* Settlement, by the worker and by SettlingProjectionDriver               *)

Settle(p) ==
    /\ proc[p].pc = "settle"
    /\ p \in current
    /\ projection' = [projection EXCEPT ![proc[p].run] = proc[p].verdict]
    /\ updated' = [updated EXCEPT ![proc[p].run] = proc[p].at]
    /\ Become(p, Onward(p))
    /\ Written(p)
    /\ UNCHANGED <<outbox, effects, now, interrupts, touches>>

\* Nothing retries a settlement that was lost.
SettleLost(p) ==
    /\ proc[p].pc = "settle"
    /\ p \notin current
    /\ Become(p, Onward(p))
    /\ UNCHANGED <<outbox, projection, updated, effects, current, now, interrupts, touches>>

\* The terminal compare-and-set mints the intents: a completed Run also has a
\* final message to deliver.
Terminate(r) ==
    /\ proc[r].pc = "running"
    /\ \E minted \in {Kinds, Kinds \ {"message"}} :
          outbox' = [outbox EXCEPT ![r] = [k \in Kinds |-> IF k \in minted THEN Minted ELSE Absent]]
    /\ updated' = [updated EXCEPT ![r] = now]
    /\ Become(r, [Fresh("ended") EXCEPT !.run = r])
    /\ current' = current \ Holders(r)
    /\ UNCHANGED <<projection, effects, now, interrupts, touches>>

\* SettlingProjectionDriver.settle, once, right after the terminal write.
DriverSettle(r) ==
    /\ proc[r].pc = "ended"
    /\ proc' = [proc EXCEPT ![r] =
          IF Verdict(outbox[r]) = projection[r] THEN Fresh("done")
          ELSE [@ EXCEPT !.pc = "settle", !.verdict = Verdict(outbox[r]), !.at = now]]
    /\ Reload(r)
    /\ UNCHANGED <<outbox, projection, updated, effects, now, interrupts, touches>>

\* A release of the recovery lease, or any other write of the aggregate.
Touch(r) ==
    /\ touches < MaxTouches
    /\ proc[r].pc # "running"
    /\ touches' = touches + 1
    /\ current' = current \ Holders(r)
    /\ UNCHANGED <<outbox, projection, updated, effects, proc, now, interrupts>>

\* A death, or an adapter failure that ends the sweep: between two writes, or
\* after one whose answer is lost.
Interrupt(p) ==
    /\ interrupts < MaxInterrupts
    /\ proc[p].pc \notin {"idle", "running", "done"}
    /\ interrupts' = interrupts + 1
    /\ Become(p, Fresh(IF p \in Runs THEN "done" ELSE "idle"))
    /\ current' = current \ {p}
    /\ UNCHANGED <<outbox, projection, updated, effects, now, touches>>

Tick ==
    /\ now < Horizon
    /\ now' = now + 1
    /\ UNCHANGED <<outbox, projection, updated, effects, proc, current, interrupts, touches>>

Sweep(p) ==
    \/ List(p) \/ Begin(p) \/ ReleaseExpired(p) \/ ReleaseLost(p)
    \/ ClaimCheck(p) \/ ClaimCas(p) \/ ClaimLost(p) \/ ClaimReplayed(p)
    \/ Project(p) \/ Complete(p) \/ Block(p) \/ Retry(p)

Next ==
    \/ \E p \in Workers : Sweep(p)
    \/ \E p \in Procs : Settle(p) \/ SettleLost(p) \/ Interrupt(p)
    \/ \E r \in Runs : Terminate(r) \/ DriverSettle(r) \/ Touch(r)
    \/ Tick

Spec == Init /\ [][Next]_vars

\* The jobs sweep on a timer for as long as the backend runs, kernels finish
\* what they began, and time passes.  Where the horizon makes instants of the
\* code coincide, it is not always the same intent that the batch leaves out.
Fairness ==
    /\ WF_vars(Tick)
    /\ \A w \in Workers : 
          /\ WF_vars(Sweep(w) \/ Settle(w) \/ SettleLost(w))
          /\ \A x \in Runs \X Kinds : SF_vars(List(w) /\ x \in proc'[w].batch)
    /\ \A r \in Runs : WF_vars(DriverSettle(r) \/ Settle(r) \/ SettleLost(r))

FairSpec == Spec /\ Fairness
-----------------------------------------------------------------------------
(* Properties                                                              *)

Memory ==
    [pc : {"idle", "batch", "release", "claim", "claimCas", "replayed", "project",
           "complete", "failed", "settle", "running", "ended", "done"},
     batch : SUBSET (Runs \X Kinds), at : Times, run : Runs \cup {NoRun}, kind : Kinds,
     attempts : 0 .. MaxAttempts, lease : Times,
     verdict : {"pending", "settled", "blocked"}]

\* With the types: an intent has a claim expiry exactly while it is claimed.
TypeOK ==
    /\ outbox \in [Runs -> [Kinds -> Intents]]
    /\ \A r \in Runs, k \in Kinds :
          outbox[r][k].lease # NoTime <=> outbox[r][k].status = "claimed"
    /\ projection \in [Runs -> {"pending", "settled", "blocked"}]
    /\ updated \in [Runs -> Times]
    /\ effects \in [Runs -> SUBSET Kinds]
    /\ proc \in [Procs -> Memory]
    /\ current \subseteq Procs
    /\ now \in 0 .. Horizon
    /\ interrupts \in 0 .. MaxInterrupts
    /\ touches \in 0 .. MaxTouches

\* The room hears that a Run has settled only after the event and the final
\* message of the Run are durable, whichever loops race and fail on the way.
StatusIsPublishedLast ==
    \A r \in Runs : "status" \in effects[r] =>
        \A k \in Kinds \ {"status"} : outbox[r][k].status \in {"absent", "completed"}

\* No intent is acknowledged whose effect is not in place, however its claim
\* changed hands between the projection and the acknowledgement.
CompletedIsProjected ==
    \A r \in Runs, k \in Kinds : outbox[r][k].status = "completed" => k \in effects[r]

\* The projection state never says more than the intents do.
VerdictIsHonest ==
    \A r \in Runs :
        /\ projection[r] = "settled" =>
              \A k \in Kinds : outbox[r][k].status \in {"absent", "completed"}
        /\ projection[r] = "blocked" => \E k \in Kinds : outbox[r][k].status = "blocked"

\* An acknowledged or blocked intent is never reopened, by a worker that lost
\* its lease, by a lost answer or by anyone else.
OutcomeIsFinal ==
    [][\A r \in Runs, k \in Kinds :
          outbox[r][k].status \in {"completed", "blocked"} =>
              outbox'[r][k] = outbox[r][k]]_vars

\* Every ended Run comes to have all its effects acknowledged or one of them
\* blocked, whatever died holding a claim.
OutboxDrains ==
    \A r \in Runs : proc[r].pc # "running" ~>
        \/ \E k \in Kinds : outbox[r][k].status = "blocked"
        \/ \A k \in Kinds : outbox[r][k].status \in {"absent", "completed"}

\* Every Run's event is delivered or blocked, however the other Runs fare.
EveryRunIsServed ==
    \A r \in Runs : outbox[r]["event"].status = "pending"
        ~> outbox[r]["event"].status \in {"completed", "blocked"}

\* The projection state of a drained outbox comes to say so.
DrainedOutboxSettles ==
    \A r \in Runs : outbox[r]["status"].status = "completed" ~> projection[r] = "settled"
=============================================================================
