-------------------------- MODULE AgentInteraction --------------------------
(***************************************************************************)
(* An Agent that asks back: the questions of one Agent call, the user's    *)
(* answers and their delivery to the Agent.                                *)
(*                                                                         *)
(* The call starts parked on the Agent's first question, which the Run     *)
(* knows.  The kernel shows the question to the user or closes the call.   *)
(* The answer is stored, marked on the call and sent as a continuation, by *)
(* the answering request (an Answerer) or by the continuation phase of the *)
(* recovery cycle (a Sweep), which share one coordinator and its           *)
(* worker_id.  The Agent may ask again: the call is parked anew, by the    *)
(* coordinator, by call recovery or by an observation processor, and the   *)
(* Run hears of it.                                                        *)
(*                                                                         *)
(* As in AgentCall every write of the call is a compare-and-set, `fresh'   *)
(* holds the processes whose copy is current, and a renewal is one step    *)
(* with the write after it, but where the loser of the write goes on       *)
(* (Authorize, Resume).  The claims of inbox rows, the deadlines of a call *)
(* and the Run's own steps are modelled there: a row here is open until    *)
(* its observation is delivered or dismissed.                              *)
(***************************************************************************)
EXTENDS AgentCallStates, Integers

CONSTANTS
    Kernel, Canceller,
    Answerers,             \* requests that submit the user's answer
    Sweeps,                \* A2AContinuationRecoveryService
    Recoverers,            \* A2ACallRecoveryService
    Processors,            \* A2AObservationProcessor
    MaxRounds,             \* bound on the questions the Agent asks
    MaxTransportAttempts,  \* max_transport_attempts
    MaxInspections,        \* max_uncertain_inspection_attempts
    MaxRefreshes,          \* max_authorization_refresh_attempts
    MaxEvents              \* bound on the events that disturb the plain course

ASSUME InteractionBoundsAssumption ==
    /\ MaxRounds \in Nat \ {0}
    /\ MaxTransportAttempts \in Nat \ {0}
    /\ MaxInspections \in Nat \ {0}
    /\ MaxRefreshes \in Nat \ {0}
    /\ MaxEvents \in Nat

Coordinators == Answerers \cup Sweeps
Cancellers   == {Kernel, Canceller}
Procs        == Cancellers \cup Coordinators \cup Recoverers \cup Processors

VARIABLES
    call,    \* AgentCallLedgerRecord
    fresh,   \* processes whose copy of the call is current
    hitl,    \* per round: the durable interaction
    asked,   \* per round: the inbox row of the question
    ended,   \* per verdict: its inbox row
    run,     \* status of the owning Run
    entry,   \* the tool entry of the call in the Run: state and latest round known
    surf,    \* per round: the surface_agent_questions entry
    agent,   \* the Agent's side
    proc,    \* per process: program counter and memory
    events

vars == <<call, fresh, hitl, asked, ended, run, entry, surf, agent, proc, events>>
-----------------------------------------------------------------------------
(* Data                                                                    *)

None == "none"

Rounds == 1 .. MaxRounds

\* What may end the call by way of an observation.
Verdicts == {"completed", "failed", "expired"}

\* continuation_state: how far the command has come
Continuations == {None, "pending", "dispatching", "delivery_uncertain", "accepted"}

Calls == [st : CallStates,
          owner : {None, "recovery", "continuation"},
          lease : BOOLEAN,                    \* claim_expires_at lies ahead
          due : BOOLEAN,                      \* next_attempt_at passed or not set
          pend : 0 .. MaxRounds,              \* pending_interaction_id
          applied : 0 .. MaxRounds,           \* answer_applied
          cmd : 0 .. MaxRounds,               \* continuation_command
          cst : Continuations,                \* continuation_state
          tries : Nat,                        \* continuation_attempts
          refresh : 0 .. MaxRefreshes,
          seen : SUBSET Rounds]               \* recent_observation_ids

Interactions == [made : BOOLEAN, eligible : BOOLEAN, closed : BOOLEAN,
                 published : BOOLEAN, answered : BOOLEAN]

NoInteraction == [made |-> FALSE, eligible |-> FALSE, closed |-> FALSE,
                  published |-> FALSE, answered |-> FALSE]

Terminal(c) == c.st \in TerminalCallStates
Live(c)     == ~Terminal(c)

Parked(c, i) == c.st = "input_required" /\ c.pend = i

\* MongoAgentCallLedgerStore.claim, list_due
Claimable(c) == Live(c) /\ ~c.lease /\ c.due

Claimed(c, who)  == [c EXCEPT !.owner = who, !.lease = TRUE, !.due = TRUE]
Released(c, due) == [c EXCEPT !.owner = None, !.lease = FALSE, !.due = due]
Ended(c, v)      == [Released(c, TRUE) EXCEPT !.st = v]

\* Fault: the command of the last round is kept.
AskedKeeping(c, i) ==
    [c EXCEPT !.st = "continuation_pending", !.seen = @ \cup {i}, !.due = TRUE,
              !.pend = 0, !.applied = 0, !.refresh = 0]

\* apply_observation of question i: the last round is forgotten.
Asked(c, i) ==
    [c EXCEPT !.st = "continuation_pending", !.seen = @ \cup {i}, !.due = TRUE,
              !.pend = 0, !.applied = 0, !.cmd = 0, !.cst = None, !.tries = 0, !.refresh = 0]

\* _typed_waiting, the processor's attach: the call waits for question i.
Attached(c, i) == [c EXCEPT !.st = "input_required", !.pend = i]

\* _due_for_answer: the copy of a parked call is scheduled for a later poll.
Soon(c) == c.st = "input_required" /\ c.refresh = 0 /\ ~c.due /\ ~c.lease

\* DurableHITLApplicationPort.read_interaction
Readable(i) == hitl[i].eligible /\ ~hitl[i].closed

\* MongoHITLApplicationStore.abandon, of a lifecycle close
Closed(S) ==
    [i \in Rounds |-> IF i \in S /\ hitl[i].made
                     THEN [hitl[i] EXCEPT !.closed = TRUE, !.eligible = FALSE] ELSE hitl[i]]

RunBlocks == run \in {"canceling", "ended"}

Pcs == {"idle", "storing", "marking", "fencing", "scheduling", "claiming", "authorizing",
        "commanding", "picked", "recovering", "delivering", "sending", "inspecting", "contract",
        "retrying", "uncertain", "accepting", "expiring", "verdict", "finalizing",
        "parking", "attaching", "activating", "superseding",
        "polling", "postponing",
        "applying", "procAttaching", "procActivating", "telling",
        "canceling", "closing"}

Memory == [pc : Pcs,
           on : 0 .. MaxRounds,         \* the question worked on
           out : Verdicts \cup {None},  \* the verdict worked on
           mark : 0 .. MaxRounds,       \* answer_applied of the copy that is sent
           soon : BOOLEAN]              \* Soon of the copy when it was read

Idle == [pc |-> "idle", on |-> 0, out |-> None, mark |-> 0, soon |-> FALSE]

RowStates == {"absent", "open", "completed"}

TypeOK ==
    /\ call \in Calls
    /\ call.st \in {"continuation_pending", "input_required"} => call.cmd = 0
    /\ call.cst \in {None, "pending"} => call.tries < MaxTransportAttempts
    /\ fresh \subseteq Procs
    /\ hitl \in [Rounds -> Interactions]
    /\ asked \in [Rounds -> RowStates]
    /\ ended \in [Verdicts -> RowStates]
    /\ run \in {"running", "suspended", "canceling", "ended"}
    /\ entry \in [st : {"waiting", "question", "terminal"}, known : Rounds]
    /\ surf \in [Rounds -> {None, "pending", "shown"}]
    /\ agent \in [asks : 0 .. MaxRounds, last : Rounds, got : [Rounds -> Nat], done : BOOLEAN]
    /\ proc \in [Procs -> Memory]
    /\ events \in 0 .. MaxEvents

Init ==
    /\ call = [st |-> "input_required", owner |-> None, lease |-> FALSE, due |-> TRUE,
               pend |-> 1, applied |-> 0, cmd |-> 0, cst |-> None, tries |-> 0,
               refresh |-> 0, seen |-> {1}]
    /\ fresh = {}
    /\ hitl = [i \in Rounds |-> IF i = 1
                                THEN [NoInteraction EXCEPT !.made = TRUE, !.eligible = TRUE]
                                ELSE NoInteraction]
    /\ asked = [i \in Rounds |-> IF i = 1 THEN "completed" ELSE "absent"]
    /\ ended = [v \in Verdicts |-> "absent"]
    /\ run = "running"
    /\ entry = [st |-> "question", known |-> 1]
    /\ surf = [i \in Rounds |-> None]
    /\ agent = [asks |-> 1, last |-> 1, got |-> [i \in Rounds |-> 0], done |-> FALSE]
    /\ proc = [p \in Procs |-> Idle]
    /\ events = 0
-----------------------------------------------------------------------------
(* Steps                                                                   *)

At(p, pc) == proc[p].pc = pc
On(p)     == proc[p].on

Go(p, pc) == proc' = [proc EXCEPT ![p].pc = pc]

\* p goes on with a copy it has just read or written.
With(p, pc, i, c) ==
    proc' = [proc EXCEPT ![p] = [Idle EXCEPT !.pc = pc, !.on = i, !.soon = Soon(c)]]

Stop(p) == proc' = [proc EXCEPT ![p] = Idle]

\* Reading makes p's copy current, a write makes all others stale; `Done' ends
\* p's use of its copy.
Read(p)     == UNCHANGED call /\ fresh' = fresh \cup {p}
Write(p, c) == call' = c /\ fresh' = {p}
Last(c)     == call' = c /\ fresh' = {}
Done(p)     == UNCHANGED call /\ fresh' = fresh \ {p}

\* The copy is stale: the write or the renewal fails and p gives up.
GiveUp(p) == p \notin fresh /\ Done(p) /\ Stop(p)

\* A coordinator that loses the write to a terminal winner closes its question,
\* _finalized_state.
Yield(p) ==
    \/ GiveUp(p)
    \/ p \in Coordinators /\ p \notin fresh /\ Terminal(call) /\ Read(p) /\ Go(p, "finalizing")

\* transition_call: an illegal move raises, and the claim is left behind.
Raises(p, st) == p \in fresh /\ st \notin Successors(call.st) /\ Done(p) /\ Stop(p)

Event == events < MaxEvents /\ events' = events + 1

\* A2AObservationIngress.record: insert, or replay of the stored row; then p
\* acts on it.
Recorded(rows, o) == [rows EXCEPT ![o] = IF @ = "absent" THEN "open" ELSE @]

RecordQuestion(p, i) ==
    /\ asked' = Recorded(asked, i)
    /\ proc' = [proc EXCEPT ![p].pc = "parking", ![p].on = i]
    /\ UNCHANGED ended

RecordVerdict(p, v) ==
    /\ ended' = Recorded(ended, v)
    /\ proc' = [proc EXCEPT ![p].pc = "verdict", ![p].out = v]
    /\ UNCHANGED asked

\* TerminalInteractionFinalizer.finalize
ClosePending == hitl' = Closed({call.pend})

ledger  == <<call, fresh>>
inbox   == <<asked, ended>>
runVars == <<run, entry, surf>>
-----------------------------------------------------------------------------
(* The user's answer is stored and marked                                  *)

\* route_hitl_answer and _resume, up to the answer: a first answer needs a call
\* that waits for it, a repeated one goes on where the first one stands.
Submit(q) ==
    /\ q \in Answerers /\ At(q, "idle") /\ ~RunBlocks
    /\ \E i \in Rounds :
        /\ Readable(i) /\ hitl[i].published
        /\ \/ ~hitl[i].answered /\ Parked(call, i) /\ With(q, "storing", i, call)
           \/ hitl[i].answered /\ call.applied = i /\ Terminal(call)
              /\ With(q, "finalizing", i, call)
           \/ hitl[i].answered /\ call.applied = i /\ call.cmd # 0
              /\ call.st \in {"resuming", "delivery_uncertain", "working"}
              /\ With(q, "recovering", i, call)
           \/ hitl[i].answered /\ Parked(call, i)
              /\ With(q, IF call.applied = i THEN "fencing" ELSE "marking", i, call)
    /\ Read(q)
    /\ UNCHANGED <<hitl, inbox, runVars, agent, events>>

\* DurableHITLApplicationPort.answer: fenced by the state of the interaction
Store(q) ==
    /\ At(q, "storing")
    /\ IF Readable(On(q))
       THEN /\ hitl' = [hitl EXCEPT ![On(q)].answered = TRUE]
            /\ Go(q, "marking")
            /\ UNCHANGED ledger
       ELSE UNCHANGED hitl /\ Stop(q) /\ Done(q)
    /\ UNCHANGED <<inbox, runVars, agent, events>>

\* _persist_answer_marker: a winner that carries the same mark will do.
Mark(q) ==
    /\ At(q, "marking")
    /\ LET marked == [call EXCEPT !.applied = On(q)] IN
       \/ q \in fresh /\ Write(q, marked) /\ With(q, "fencing", On(q), marked)
       \/ q \notin fresh /\ call.applied = On(q) /\ (call.cmd # 0 => Readable(On(q))) /\ Read(q)
          /\ With(q, IF call.cmd # 0 THEN "recovering" ELSE "fencing", On(q), call)
       \/ call.cmd # 0 /\ ~Readable(On(q)) /\ GiveUp(q)
       \/ call.applied # On(q) /\ GiveUp(q)
    /\ UNCHANGED <<hitl, inbox, runVars, agent, events>>

\* Fault: the answer does not wait for the question to be shown in full.
FenceUnshown(q) ==
    /\ At(q, "fencing")
    /\ IF RunBlocks \/ ~Readable(On(q))
       THEN Stop(q) /\ Done(q)
       ELSE Go(q, "scheduling") /\ UNCHANGED ledger
    /\ UNCHANGED <<hitl, inbox, runVars, agent, events>>

\* _create_or_replay_command, _ensure_resumed_projection: the Run still wants
\* the answer, the question is shown in full and has not been closed.
Fence(q) ==
    /\ At(q, "fencing")
    /\ IF RunBlocks \/ surf[On(q)] = "pending" \/ ~Readable(On(q))
       THEN Stop(q) /\ Done(q)
       ELSE Go(q, "scheduling") /\ UNCHANGED ledger
    /\ UNCHANGED <<hitl, inbox, runVars, agent, events>>

\* _due_for_answer: the poll that call recovery scheduled must not delay the
\* answer.  A lost compare-and-set goes on with the winner.
Schedule(q) ==
    /\ At(q, "scheduling")
    /\ IF ~proc[q].soon THEN UNCHANGED ledger
       ELSE IF q \in fresh THEN Write(q, [call EXCEPT !.due = TRUE])
       ELSE Read(q)
    /\ Go(q, "claiming")
    /\ UNCHANGED <<hitl, inbox, runVars, agent, events>>

Claim(q) ==
    /\ At(q, "claiming")
    /\ IF q \in fresh /\ Claimable(call)
       THEN Write(q, Claimed(call, "continuation")) /\ Go(q, "authorizing")
       ELSE Stop(q) /\ Done(q)
    /\ UNCHANGED <<hitl, inbox, runVars, agent, events>>

\* The continuation is authorized and the claim renewed; a copy that may not be
\* resumed raises.
Authorize(q) ==
    /\ At(q, "authorizing")
    /\ \/ /\ q \in fresh /\ "resuming" \in Successors(call.st)
          /\ Write(q, Claimed(call, "continuation"))
          /\ Go(q, "commanding")
       \/ Yield(q) \/ Raises(q, "resuming")
    /\ UNCHANGED <<hitl, inbox, runVars, agent, events>>

\* The command is stored.  The loser of this write delivers the winner's record if
\* it carries the same command, however far that has come.
Resume(q) ==
    /\ At(q, "commanding")
    /\ \/ /\ q \in fresh
          /\ Write(q, [call EXCEPT !.st = "resuming", !.cmd = On(q), !.cst = "pending",
                                   !.refresh = 0])
          /\ Go(q, "delivering")
       \/ q \notin fresh /\ Live(call) /\ call.cmd = On(q) /\ Read(q) /\ Go(q, "delivering")
       \/ q \notin fresh /\ Terminal(call) /\ Read(q) /\ Go(q, "finalizing")
       \/ Live(call) /\ call.cmd # On(q) /\ GiveUp(q)
    /\ UNCHANGED <<hitl, inbox, runVars, agent, events>>

\* _terminalize_authorization_failure: denied, or the Room is gone
Deny(q) ==
    /\ At(q, "authorizing") /\ q \in fresh
    /\ Event
    /\ "failed" \in Successors(call.st)
    /\ Last(Ended(call, "failed"))
    /\ Go(q, "finalizing")
    /\ UNCHANGED <<hitl, inbox, runVars, agent>>

\* _defer_authorization_refresh
Defer(q) ==
    /\ At(q, "authorizing") /\ q \in fresh
    /\ Event
    /\ IF call.refresh + 1 >= MaxRefreshes
       THEN /\ "failed" \in Successors(call.st)
            /\ Last(Ended(call, "failed")) /\ Go(q, "finalizing")
       ELSE /\ Last([Released(call, FALSE) EXCEPT !.refresh = @ + 1])
            /\ Stop(q)
    /\ UNCHANGED <<hitl, inbox, runVars, agent>>
-----------------------------------------------------------------------------
(* The continuation phase of the recovery cycle                            *)

\* What the continuation phase and _recover_call take up.
Recoverable(c) ==
    /\ c.cmd # 0
    /\ \/ c.st \in {"resuming", "delivery_uncertain"}
       \/ c.st = "working" /\ c.cst = "accepted"

\* A2AContinuationRecoveryService.recover_due lists the call.
Pick(q) ==
    /\ q \in Sweeps /\ At(q, "idle") /\ Claimable(call)
    /\ \/ call.st = "input_required" /\ Go(q, "picked")
       \/ Recoverable(call) /\ Go(q, "recovering")
    /\ UNCHANGED <<ledger, hitl, inbox, runVars, agent, events>>

\* _reconcile_answer
Reconcile(q) ==
    /\ At(q, "picked")
    /\ LET i == call.pend IN
       IF ~RunBlocks /\ (Terminal(call) \/ call.cmd # 0)
       THEN Read(q) /\ With(q, IF Terminal(call) THEN "finalizing" ELSE "recovering", i, call)
       ELSE IF ~RunBlocks /\ call.st = "input_required" /\ hitl[i].answered /\ Readable(i)
       THEN Read(q) /\ With(q, IF call.applied = i THEN "fencing" ELSE "marking", i, call)
       ELSE Done(q) /\ Stop(q)
    /\ UNCHANGED <<hitl, inbox, runVars, agent, events>>

\* Fault: a command that was being sent when its sender died is sent again.
InspectsLess(c) == c.cst \in {"delivery_uncertain", "accepted"}

\* What is found sent, or maybe sent, is inspected and never sent again.
Inspects(c) == c.cst \in {"dispatching", "delivery_uncertain", "accepted"}

\* _recover_call: the read and the claim
Recover(q) ==
    /\ At(q, "recovering")
    /\ IF ~RunBlocks /\ Terminal(call) THEN Read(q) /\ Go(q, "finalizing")
       ELSE IF ~RunBlocks /\ Recoverable(call) /\ Claimable(call)
       THEN /\ Write(q, Claimed(call, "continuation"))
            /\ With(q, IF Inspects(call) THEN "inspecting" ELSE "delivering", call.cmd, call)
       ELSE Done(q) /\ Stop(q)
    /\ UNCHANGED <<hitl, inbox, runVars, agent, events>>
-----------------------------------------------------------------------------
(* _deliver                                                                *)

\* The store renews and releases for the owner of the claim only; the copy of a
\* winner (Resume) may be owned by call recovery, or by nobody.
Owns(q) == q \in fresh /\ call.owner = "continuation"

\* The Run is gone: _release
DeliverBlocked(q) ==
    /\ At(q, "delivering") \/ At(q, "inspecting")
    /\ RunBlocks
    /\ IF Owns(q) THEN Last(Released(call, TRUE)) ELSE Done(q)
    /\ Stop(q)
    /\ UNCHANGED <<hitl, inbox, runVars, agent, events>>

\* The attempt is on record before the Agent sees anything of it.
Attempt(q) ==
    /\ At(q, "delivering") /\ ~RunBlocks
    /\ \/ /\ Owns(q)
          /\ Write(q, [call EXCEPT !.cst = "dispatching", !.tries = @ + 1])
          /\ proc' = [proc EXCEPT ![q].pc = "sending", ![q].mark = call.applied]
       \/ q \in fresh /\ ~Owns(q) /\ Done(q) /\ Stop(q)
       \/ Yield(q)
    /\ UNCHANGED <<hitl, inbox, runVars, agent, events>>

\* What the Agent does with an answer, or of itself while it works.
AgentMoves(a) ==
    {[a EXCEPT !.done = TRUE, !.asks = 0], a, [a EXCEPT !.asks = 0]}
        \cup (IF a.last < MaxRounds
              THEN {[a EXCEPT !.asks = a.last + 1, !.last = @ + 1]} ELSE {})

Hearing(i) == [agent EXCEPT !.got[i] = @ + 1]

\* A receipt: the verdict, a further question, or that the Agent works on; the
\* question that the copy shows as answered is none (_repeats_answered_challenge).
Receipt(q, a, answered) ==
    IF a.done THEN RecordVerdict(q, "completed")
    ELSE IF a.asks = 0 THEN UNCHANGED inbox /\ Go(q, "accepting")
    ELSE IF a.asks # answered THEN RecordQuestion(q, a.asks)
    ELSE FALSE

\* continue_task; the Agent may answer with the question it was asked.
Send(q) ==
    /\ At(q, "sending") /\ ~RunBlocks
    /\ \E a \in AgentMoves(Hearing(On(q))) :
        /\ agent' = a
        /\ \/ Receipt(q, a, proc[q].mark)
           \/ /\ ~a.done /\ a.asks # 0 /\ a.asks = proc[q].mark
              /\ RecordVerdict(q, "failed")
    /\ UNCHANGED <<ledger, hitl, runVars, events>>

\* After a failure the coordinator goes on with the latest record if a
\* continuation worker, whichever, owns it.
Reload(q) == UNCHANGED call /\ fresh' = IF call.owner = "continuation" THEN fresh \cup {q} ELSE fresh

\* Nothing is known of the effect: the answer may have arrived or not.
SendLost(q) ==
    /\ At(q, "sending")
    /\ \/ RunBlocks /\ UNCHANGED <<agent, events>>
       \/ Event /\ agent' \in {agent} \cup AgentMoves(Hearing(On(q)))
    /\ Reload(q) /\ Go(q, "uncertain")
    /\ UNCHANGED <<hitl, inbox, runVars>>

\* The card could not be fetched, or is not one: nothing was sent.
SendFails(q) ==
    /\ At(q, "sending") /\ Event
    /\ \E pc \in {"retrying", "contract"} : Go(q, pc)
    /\ Reload(q)
    /\ UNCHANGED <<hitl, inbox, runVars, agent>>

\* max_uncertain_inspection_attempts
Exhausted(c) == c.tries >= MaxInspections

\* _deliver with inspect; the limit ends the call, _expire
Inspect(q) ==
    /\ At(q, "inspecting") /\ ~RunBlocks
    /\ \/ /\ q \in fresh /\ Exhausted(call)
          /\ RecordVerdict(q, "expired")
          /\ UNCHANGED <<ledger, events>>
       \/ /\ q \in fresh /\ ~Exhausted(call)
          /\ Write(q, [call EXCEPT !.cst = "delivery_uncertain", !.tries = @ + 1])
          /\ \/ Receipt(q, agent, call.applied) /\ UNCHANGED events
             \/ UNCHANGED <<inbox, events>> /\ ~agent.done /\ agent.asks = call.applied
                /\ Go(q, "uncertain")
             \/ UNCHANGED inbox /\ Event /\ \E pc \in {"uncertain", "contract"} : Go(q, pc)
       \/ Yield(q) /\ UNCHANGED <<inbox, events>>
    /\ UNCHANGED <<hitl, runVars, agent>>
-----------------------------------------------------------------------------
(* What the coordinator makes of the receipt                               *)

\* _mark_uncertain
MarkUncertain(q) ==
    /\ At(q, "uncertain")
    /\ \/ /\ q \in fresh
          /\ Last([Released(call, FALSE) EXCEPT
                     !.cst = "delivery_uncertain",
                     !.st = IF @ = "resuming" THEN "delivery_uncertain" ELSE @])
          /\ Stop(q)
       \/ Yield(q)
    /\ UNCHANGED <<hitl, inbox, runVars, agent, events>>

\* _terminalize_continuation_transport_failure
Fail(q) ==
    /\ q \in fresh /\ "failed" \in Successors(call.st)
    /\ Last(Ended(call, "failed"))
    /\ Go(q, "finalizing")

\* _retry_safe_continuation
RetrySafe(q) ==
    /\ At(q, "retrying")
    /\ \/ /\ q \in fresh
          /\ IF call.tries < MaxTransportAttempts
             THEN Last([Released(call, FALSE) EXCEPT !.cst = "pending"]) /\ Stop(q)
             ELSE Fail(q) \/ Raises(q, "failed")
       \/ Yield(q)
    /\ UNCHANGED <<hitl, inbox, runVars, agent, events>>

\* The card is not one.
Contract(q) ==
    /\ At(q, "contract")
    /\ Fail(q) \/ Raises(q, "failed") \/ Yield(q)
    /\ UNCHANGED <<hitl, inbox, runVars, agent, events>>

\* The Agent works on it.
Accept(q) ==
    /\ At(q, "accepting")
    /\ \/ /\ q \in fresh
          /\ Last([Released(call, FALSE) EXCEPT !.st = "working", !.cst = "accepted",
                                                !.tries = 0])
          /\ Stop(q)
       \/ Yield(q)
    /\ UNCHANGED <<hitl, inbox, runVars, agent, events>>

\* The verdict of the coordinator or of call recovery, which is on record, ends
\* the call; a row that a processor has claimed is left to it.
Conclude(x) ==
    /\ At(x, "verdict")
    /\ \/ /\ x \in fresh
          /\ Last(Ended(call, proc[x].out))
          /\ IF x \in Recoverers THEN Stop(x) ELSE Go(x, "finalizing")
       \/ /\ x \in fresh /\ x \in Coordinators
          /\ \E p \in Processors : proc[p].out = proc[x].out
          /\ Go(x, "uncertain")
          /\ UNCHANGED ledger
       \/ Yield(x)
    /\ UNCHANGED <<hitl, inbox, runVars, agent, events>>

\* _finalized_state: the question of a terminal call is closed.
Finalize(q) ==
    /\ At(q, "finalizing")
    /\ ClosePending
    /\ Stop(q) /\ Done(q)
    /\ UNCHANGED <<inbox, runVars, agent, events>>
-----------------------------------------------------------------------------
(* park_call_for_interaction, by the coordinator and by call recovery      *)

\* The question was parked by another in the meantime.
Forestalled(x) ==
    /\ x \in Coordinators /\ x \notin fresh /\ Parked(call, On(x))
    /\ Done(x) /\ Go(x, "superseding")

\* The question is applied to the call; one applied before is not again.
Park(x) ==
    /\ At(x, "parking")
    /\ \/ /\ x \in fresh /\ On(x) \notin call.seen
          /\ Write(x, Released(Asked(call, On(x)), TRUE))
          /\ Go(x, "attaching")
       \/ /\ x \in fresh /\ On(x) \in call.seen
          /\ Stop(x) /\ Done(x)
       \/ Forestalled(x) \/ Yield(x)
    /\ UNCHANGED <<hitl, inbox, runVars, agent, events>>

ParkAttach(x) ==
    /\ At(x, "attaching")
    /\ hitl' = [hitl EXCEPT ![On(x)].made = TRUE]
    /\ \/ x \in fresh /\ Write(x, Attached(call, On(x))) /\ Go(x, "activating")
       \/ Forestalled(x) \/ Yield(x)
    /\ UNCHANGED <<inbox, runVars, agent, events>>

\* activate: refused to a closed question.
ParkActivate(x) ==
    /\ At(x, "activating")
    /\ hitl' = [hitl EXCEPT ![On(x)].eligible = @ \/ ~hitl[On(x)].closed]
    /\ IF hitl[On(x)].closed \/ x \in Recoverers THEN Stop(x) ELSE Go(x, "superseding")
    /\ Done(x)
    /\ UNCHANGED <<inbox, runVars, agent, events>>

\* _after_typed_park closes the question of the round before.
Supersede(q) ==
    /\ At(q, "superseding")
    /\ hitl' = Closed({On(q) - 1})
    /\ Stop(q)
    /\ UNCHANGED <<ledger, inbox, runVars, agent, events>>
-----------------------------------------------------------------------------
(* Call recovery                                                           *)

\* Fault: an answered call is postponed like any other that waits.
PollClaimAny(r) ==
    /\ At(r, "idle") /\ Claimable(call) /\ ~RunBlocks
    /\ Write(r, Claimed(call, "recovery"))
    /\ Go(r, IF call.st = "working" THEN "polling" ELSE "postponing")
    /\ UNCHANGED <<hitl, inbox, runVars, agent, events>>

\* recover_call: an answered call is left to the continuation phase.
PollClaim(r) ==
    /\ At(r, "idle") /\ Claimable(call) /\ ~RunBlocks
    /\ ~(call.st = "input_required" /\ call.applied # 0 /\ call.cmd = 0)
    /\ Write(r, Claimed(call, "recovery"))
    /\ Go(r, IF call.st = "working" THEN "polling" ELSE "postponing")
    /\ UNCHANGED <<hitl, inbox, runVars, agent, events>>

\* _release with a delay
Postpone(r) ==
    /\ At(r, "postponing")
    /\ IF r \in fresh THEN Last(Released(call, FALSE)) ELSE Done(r)
    /\ Stop(r)
    /\ UNCHANGED <<hitl, inbox, runVars, agent, events>>

\* inspect, of a call whose Agent works
Poll(r) ==
    /\ At(r, "polling")
    /\ \/ RunBlocks /\ Go(r, "postponing") /\ UNCHANGED <<inbox, events>>
       \/ UNCHANGED inbox /\ Event /\ Go(r, "postponing")
       \/ RecordVerdict(r, "expired") /\ Event
       \/ /\ ~RunBlocks /\ UNCHANGED events
          /\ IF agent.done THEN RecordVerdict(r, "completed")
             ELSE IF agent.asks # 0 THEN RecordQuestion(r, agent.asks)
             ELSE UNCHANGED inbox /\ Go(r, "postponing")
    /\ UNCHANGED <<ledger, hitl, runVars, agent>>
-----------------------------------------------------------------------------
(* Observation processors                                                  *)

Finished(rows, o) == [rows EXCEPT ![o] = "completed"]

Took(p, pc, i, v) ==
    /\ proc' = [proc EXCEPT ![p] = [Idle EXCEPT !.pc = pc, !.on = i, !.out = v]]
    /\ Read(p)

\* The question goes with the terminal call or Run that needs no answer.
Dismiss(i) == hitl' = Closed({call.pend, i}) /\ asked' = Finished(asked, i)

\* process, up to the first write, of a question: it is dismissed if the Run or
\* the call is terminal, or if it was applied before and is not the one attached.
ObserveQuestion(p) ==
    /\ At(p, "idle")
    /\ \E i \in Rounds :
        /\ asked[i] = "open"
        /\ \/ /\ run = "ended"
              /\ ClosePending /\ asked' = Finished(asked, i)
              /\ UNCHANGED <<ledger, proc>>
           \/ /\ run # "ended" /\ Terminal(call)
              /\ Dismiss(i)
              /\ UNCHANGED <<ledger, proc>>
           \/ /\ run # "ended" /\ Live(call) /\ i \in call.seen /\ ~Parked(call, i)
              /\ asked' = Finished(asked, i)
              /\ UNCHANGED <<ledger, hitl, proc>>
           \/ /\ run # "ended" /\ Parked(call, i)
              /\ Took(p, "procActivating", i, None)
              /\ UNCHANGED <<hitl, asked>>
           \/ /\ run # "ended"
              /\ i \notin call.seen /\ "continuation_pending" \in Successors(call.st)
              /\ Took(p, "applying", i, None)
              /\ UNCHANGED <<hitl, asked>>
    /\ UNCHANGED <<ended, runVars, agent, events>>

\* The same of a verdict: the loser of a conflict is dismissed.
ObserveVerdict(p) ==
    /\ At(p, "idle")
    /\ \E v \in Verdicts :
        /\ ended[v] = "open"
        /\ \/ /\ Terminal(call) /\ call.st # v
              /\ ClosePending /\ ended' = Finished(ended, v)
              /\ UNCHANGED <<ledger, proc>>
           \/ /\ call.st = v
              /\ ClosePending /\ Took(p, "telling", 0, v)
              /\ UNCHANGED ended
           \/ /\ v \in Successors(call.st)
              /\ Took(p, "applying", 0, v)
              /\ UNCHANGED <<hitl, ended>>
    /\ UNCHANGED <<asked, runVars, agent, events>>

\* apply_observation and its compare-and-set; a loser leaves the row open, unless
\* the winner is terminal.
ProcApply(p) ==
    /\ At(p, "applying")
    /\ \/ /\ p \in fresh /\ On(p) # 0
          /\ Write(p, Asked(call, On(p)))
          /\ Go(p, "procAttaching")
          /\ UNCHANGED <<hitl, asked>>
       \/ /\ p \in fresh /\ On(p) = 0
          /\ Last(Ended(call, proc[p].out))
          /\ ClosePending
          /\ Go(p, "telling")
          /\ UNCHANGED asked
       \/ p \notin fresh /\ Live(call) /\ GiveUp(p) /\ UNCHANGED <<hitl, asked>>
       \/ p \notin fresh /\ Terminal(call) /\ On(p) # 0 /\ GiveUp(p) /\ Dismiss(On(p))
       \/ /\ p \notin fresh /\ Terminal(call) /\ On(p) = 0
          /\ ClosePending /\ Done(p)
          /\ Go(p, "telling")
          /\ UNCHANGED asked
    /\ UNCHANGED <<ended, runVars, agent, events>>

ProcAttach(p) ==
    /\ At(p, "procAttaching")
    /\ LET made == [hitl EXCEPT ![On(p)].made = TRUE] IN
       \/ /\ p \in fresh /\ Write(p, Attached(call, On(p))) /\ Go(p, "procActivating")
          /\ hitl' = made /\ UNCHANGED asked
       \/ Live(call) /\ GiveUp(p) /\ hitl' = made /\ UNCHANGED asked
       \/ /\ Terminal(call) /\ GiveUp(p)
          /\ hitl' = [made EXCEPT ![On(p)].closed = TRUE, ![On(p)].eligible = FALSE]
          /\ asked' = Finished(asked, On(p))
    /\ UNCHANGED <<ended, runVars, agent, events>>

\* The call is read again once the question is active.
ProcActivate(p) ==
    /\ At(p, "procActivating")
    /\ IF Terminal(call) /\ ~hitl[On(p)].closed
       THEN Dismiss(On(p)) /\ Stop(p)
       ELSE /\ hitl' = [hitl EXCEPT ![On(p)].eligible = @ \/ ~hitl[On(p)].closed]
            /\ IF Parked(call, On(p)) /\ ~hitl[On(p)].closed THEN Go(p, "telling") ELSE Stop(p)
            /\ UNCHANGED asked
    /\ Done(p)
    /\ UNCHANGED <<ended, runVars, agent, events>>

\* The suspended Run hears of a question or a verdict; a Run that is not
\* suspended keeps the row waiting, and an ended one needs it no more.
Tell(p) ==
    /\ At(p, "telling")
    /\ IF run \in {"suspended", "ended"}
       THEN IF On(p) # 0 THEN asked' = Finished(asked, On(p)) /\ UNCHANGED ended
            ELSE ended' = Finished(ended, proc[p].out) /\ UNCHANGED asked
       ELSE UNCHANGED inbox
    /\ IF run = "suspended"
       THEN /\ run' = "running"
            /\ entry' = IF On(p) # 0 THEN [st |-> "question", known |-> On(p)]
                        ELSE [entry EXCEPT !.st = "terminal"]
       ELSE UNCHANGED <<run, entry>>
    /\ IF run = "ended" THEN ClosePending ELSE UNCHANGED hitl
    /\ Stop(p) /\ Done(p)
    /\ UNCHANGED <<surf, agent, events>>
-----------------------------------------------------------------------------
(* The kernel and the canceller                                            *)

Known == entry.known

\* surface_agent_questions, its entry checkpointed first
Surface ==
    /\ At(Kernel, "idle") /\ run = "running" /\ entry.st = "question" /\ surf[Known] = None
    /\ surf' = [surf EXCEPT ![Known] = "pending"]
    /\ UNCHANGED <<ledger, hitl, inbox, run, entry, agent, proc, events>>

\* publish_parked_interaction; a call that no longer waits for the question
\* makes the tool fail.
Publish ==
    /\ At(Kernel, "idle") /\ run = "running" /\ surf[Known] = "pending" /\ ~hitl[Known].published
    /\ IF Parked(call, Known) /\ Readable(Known)
       THEN hitl' = [hitl EXCEPT ![Known].published = TRUE] /\ UNCHANGED surf
       ELSE surf' = [surf EXCEPT ![Known] = None] /\ UNCHANGED hitl
    /\ UNCHANGED <<ledger, inbox, run, entry, agent, proc, events>>

\* The Run waits for the answer.
Shown ==
    /\ At(Kernel, "idle") /\ run = "running" /\ surf[Known] = "pending" /\ hitl[Known].published
    /\ surf' = [surf EXCEPT ![Known] = "shown"]
    /\ entry' = [entry EXCEPT !.st = "waiting"]
    /\ run' = "suspended"
    /\ UNCHANGED <<ledger, hitl, inbox, agent, proc, events>>

\* The user cancels the Run.
CancelRun ==
    /\ run \in {"running", "suspended"} /\ Event
    /\ run' = "canceling"
    /\ UNCHANGED <<ledger, hitl, inbox, entry, surf, agent, proc>>

\* abandon_parked_interaction of the kernel, which answers without the Agent,
\* and cancel_call: persist_local_cancellation takes the call as it finds it.
CancelBegin(x) ==
    /\ At(x, "idle")
    /\ IF x = Canceller THEN run = "canceling"
       ELSE run = "running" /\ entry.st = "question" /\ surf[Known] # "pending"
            /\ call.pend = Known
    /\ IF Live(call) THEN Last([call EXCEPT !.st = "cancel_pending"]) /\ Go(x, "canceling")
       ELSE UNCHANGED ledger /\ Go(x, "closing")
    /\ UNCHANGED <<hitl, inbox, runVars, agent, events>>

CancelCall(x) ==
    /\ At(x, "canceling")
    /\ IF Live(call) THEN Last(Ended(call, "canceled")) ELSE UNCHANGED ledger
    /\ Go(x, "closing")
    /\ UNCHANGED <<hitl, inbox, runVars, agent, events>>

\* The question is closed and the Run has its result.
CancelEnd(x) ==
    /\ At(x, "closing")
    /\ ClosePending
    /\ IF x = Canceller THEN run' = "ended" /\ UNCHANGED entry
       ELSE /\ entry' = IF run = "running" THEN [entry EXCEPT !.st = "terminal"] ELSE entry
            /\ UNCHANGED run
    /\ Stop(x)
    /\ UNCHANGED <<ledger, inbox, surf, agent, events>>

\* With the result of the call the Run comes to its end.
RunEnds ==
    /\ At(Kernel, "idle") /\ run = "running" /\ entry.st = "terminal"
    /\ run' = "ended"
    /\ UNCHANGED <<ledger, hitl, inbox, entry, surf, agent, proc, events>>
-----------------------------------------------------------------------------
(* Agent, time and crashes                                                 *)

\* The Agent goes on with what it was given.
AgentWorks ==
    /\ agent.asks = 0 /\ ~agent.done
    /\ agent' \in AgentMoves(agent) \ {agent}
    /\ UNCHANGED <<ledger, hitl, inbox, runVars, proc, events>>

\* p works under the claim it holds.
Holds(p) ==
    /\ p \in fresh
    /\ proc[p].pc \in {"authorizing", "commanding", "delivering", "sending", "inspecting", "contract",
                       "retrying", "uncertain", "accepting", "verdict", "parking",
                       "polling", "postponing"}

\* A claim lapses: freely when nobody works under it, as an event otherwise.
Lapse ==
    /\ call.lease
    /\ call' = [call EXCEPT !.lease = FALSE]
    /\ IF \E p \in Procs : Holds(p) THEN Event ELSE UNCHANGED events
    /\ UNCHANGED <<fresh, hitl, inbox, runVars, agent, proc>>

\* next_attempt_at passes, for every copy of it.
Due ==
    /\ ~call.due
    /\ call' = [call EXCEPT !.due = TRUE]
    /\ proc' = [p \in Procs |-> [proc[p] EXCEPT !.soon = FALSE]]
    /\ UNCHANGED <<fresh, hitl, inbox, runVars, agent, events>>

\* A process of the coordinator or of a sweep dies, or its request is aborted.
Crash(x) ==
    /\ ~At(x, "idle") /\ Event
    /\ Stop(x) /\ Done(x)
    /\ UNCHANGED <<hitl, inbox, runVars, agent>>
-----------------------------------------------------------------------------
(* The specification                                                       *)

Coordinate(q) ==
    \/ Store(q) \/ Mark(q) \/ Fence(q) \/ Schedule(q) \/ Claim(q) \/ Authorize(q) \/ Resume(q)
    \/ Pick(q) \/ Reconcile(q) \/ Recover(q)
    \/ DeliverBlocked(q) \/ Attempt(q) \/ Send(q) \/ Inspect(q)
    \/ MarkUncertain(q) \/ RetrySafe(q) \/ Contract(q) \/ Accept(q)
    \/ Finalize(q) \/ Supersede(q)

Disturb(q) == Deny(q) \/ Defer(q) \/ SendLost(q) \/ SendFails(q)

Parking(x) == Park(x) \/ ParkAttach(x) \/ ParkActivate(x) \/ Conclude(x)

Recovery(r) == PollClaim(r) \/ Postpone(r) \/ Poll(r)

Processing(p) ==
    \/ ObserveQuestion(p) \/ ObserveVerdict(p)
    \/ ProcApply(p) \/ ProcAttach(p) \/ ProcActivate(p) \/ Tell(p)

KernelSteps == Surface \/ Publish \/ Shown \/ RunEnds

Cancelling(x) == CancelBegin(x) \/ CancelCall(x) \/ CancelEnd(x)

Next ==
    \/ \E q \in Coordinators : Submit(q) \/ Coordinate(q) \/ Disturb(q)
    \/ \E x \in Coordinators \cup Recoverers : Parking(x)
    \/ \E r \in Recoverers : Recovery(r)
    \/ \E p \in Processors : Processing(p)
    \/ KernelSteps
    \/ \E x \in Cancellers : Cancelling(x)
    \/ CancelRun \/ AgentWorks \/ Lapse \/ Due
    \/ \E x \in Procs \ Cancellers : Crash(x)

Spec == Init /\ [][Next]_vars

\* The server's processes go on, sweeps come round again, time passes.  A process
\* that comes back to the call often enough finds it unclaimed once, and once
\* unchanged since it read it: the calls phase, the rival of the continuation
\* phase, follows it in every recovery cycle and postpones what it touches.
FairCoordinator(q) ==
    /\ WF_vars(Coordinate(q)) /\ WF_vars(Parking(q))
    /\ SF_vars(Pick(q)) /\ SF_vars(Claimable(call) /\ Recover(q))
    /\ SF_vars(q \in fresh /\ Coordinate(q))

FairRest ==
    /\ \A r \in Recoverers : WF_vars(Recovery(r)) /\ WF_vars(Parking(r))
    /\ \A p \in Processors : WF_vars(Processing(p)) /\ SF_vars(p \in fresh /\ ProcApply(p))
    /\ WF_vars(KernelSteps)
    /\ \A x \in Cancellers : WF_vars(CancelCall(x) \/ CancelEnd(x))
    /\ WF_vars(Lapse) /\ WF_vars(Due)

FairSpec == Spec /\ (\A q \in Coordinators : FairCoordinator(q)) /\ FairRest
-----------------------------------------------------------------------------
(* Properties                                                              *)

\* The command a call carries answers the question the call waits for: a
\* coordinator whose copy of the call is stale (_cas_or_load_winner) does not
\* put the answer of an earlier round on a call that has moved on.  The program
\* does not have it when two coordinators work at once.
AnswerMatchesQuestion ==
    Live(call) /\ call.cmd # 0 => call.cmd = call.pend /\ hitl[call.cmd].answered

\* The Agent gets the user's answer to a question at most once.  The program does
\* not have it: with two coordinators at work the loser of _due_for_answer, or of
\* the write of the command (_cas_or_load_winner), goes on with the winner's record
\* and sends what the winner has sent.
AnswerIsSentOnce == \A i \in Rounds : agent.got[i] <= 1

\* The Agent gets an answer only after the Run has suspended on the question
\* (_ensure_resumed_projection): what the Agent says next cannot overtake the
\* suspension it is to end.
AnswerFollowsQuestion == \A i \in Rounds : agent.got[i] > 0 => surf[i] = "shown"

\* The call carries the answer to a question it has left: the other harm of the
\* rivals that AnswerMatchesQuestion names.
Misled == call.cmd \notin {0, call.pend}

\* An answer that was stored is given to the Agent, unless the call or the Run
\* ends first, the question is closed or the call is misled: a crash of the
\* request, a claim of call recovery, a postponed poll (recover_due,
\* _due_for_answer) or a rival coordinator only delay it.
AnswerSettles ==
    \A i \in Rounds :
        hitl[i].answered ~> \/ agent.got[i] > 0 \/ Terminal(call)
                            \/ RunBlocks \/ hitl[i].closed \/ Misled

\* A question the Agent still asks is let go by the inbox (A2AObservationProcessor)
\* only once the Run of the live call knows it.
AskedQuestionReachesRun ==
    \A i \in Rounds :
        asked[i] = "completed" /\ agent.asks = i /\ Live(call) /\ ~RunBlocks => entry.known >= i
=============================================================================
