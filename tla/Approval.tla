------------------------------ MODULE Approval ------------------------------
(***************************************************************************)
(* A questionnaire the supervisor asks its user (ask_user).                *)
(*                                                                         *)
(* The aggregate is written first and opens when every question is stored  *)
(* and attached.  A submission writes its answers question by question,    *)
(* then applies them: the applier claims the aggregate, answers every      *)
(* question in public, creates the resume command, resumes the owning Run  *)
(* under two leases, projects the answers and closes the aggregate.  The   *)
(* user, the owning Run's cancellation and the deadline withdraw it.  The  *)
(* reconciler resumes whatever a dead process left.                        *)
(*                                                                         *)
(* The compare-and-set loops of the stores (attach, record) are atomic:    *)
(* they read and write again when they lose.  A lease counts only against  *)
(* others, and it lapses when its holder is gone or `slow'.  The claim     *)
(* identity of a process is the process: it drops one before it takes the  *)
(* next.  An exception that leaves nothing written behind is a Crash.      *)
(***************************************************************************)
EXTENDS Integers, FiniteSets

CONSTANTS
    Clients,      \* requests and Run drivers
    Reconcilers,  \* HITLLifecycleReconciler
    N,            \* questions of the interaction
    Answers,      \* what different submissions answer
    None,         \* no process, no answer
    MaxFaults     \* bound on crashes, slow holders and failed effects

ASSUME ApprovalAssumption ==
    /\ N \in Nat \ {0}
    /\ MaxFaults \in Nat
    /\ None \notin Clients \cup Reconcilers \cup Answers

Workers   == Clients \cup Reconcilers
Questions == 1..N

VARIABLES
    agg,        \* the interaction document
    row,        \* per question: the request document
    cmd,        \* the resume command
    run,        \* the owning Run
    delivered,  \* the answers the Run was resumed with, per question
    late,       \* expires_at has passed
    slow,       \* workers whose leases have lapsed under them
    faults,
    proc        \* per worker: program counter, question, answer, claim, target

vars == <<agg, row, cmd, run, delivered, late, slow, faults, proc>>
runVars == <<run, delivered>>
world   == <<late, slow, faults>>
-----------------------------------------------------------------------------
(* Data                                                                    *)

\* HITLInteractionStatus; a supervisor interaction never fails.
AggStatus ==
    {"none", "materializing", "open", "partially_answered", "answers_recorded",
     "applying", "delivery_uncertain", "applied", "canceled", "expired"}
Withdrawn == {"canceled", "expired"}
Askable   == {"open", "partially_answered"}

\* HITLStatus
RowStatus == {"none", "pending", "answer_recorded", "responded"} \cup Withdrawn

\* HITLResumeCommandStatus: those of a supervisor command.
CmdStatus == {"none", "pending", "delivering", "retryable_error", "acknowledged", "projected"}

NoAgg == [st |-> "none", att |-> {}, refs |-> {}, claim |-> None,
          proj |-> "pending", projClaim |-> None, reconciled |-> FALSE]
NoRow == [st |-> "none", ans |-> None, shown |-> FALSE,
          projected |-> FALSE, reconciled |-> FALSE]
NoCmd == [st |-> "none", claim |-> None, applied |-> FALSE]

Idle == [pc |-> "idle", q |-> 1, ans |-> None, own |-> FALSE, to |-> "none", read |-> {}]

CmdPcs   == {"fence", "effect", "ack", "cmdfail"}
ApplyPcs == CmdPcs \cup {"respond", "command", "cmdclaim", "cmdproject", "projclaim",
                         "projmark", "mark", "aggfail"}
Pcs == ApplyPcs \cup
    {"idle", "create", "attach", "show", "shown", "answer", "record", "apply", "repair", "refs",
     "repaired", "claim", "cmdapplied", "finish", "cancel", "unattached", "withdraw", "expire",
     "recon", "tell", "close", "endrun"}

Aggregates == [st : AggStatus, att : SUBSET Questions, refs : SUBSET Questions,
               claim : Workers \cup {None},
               proj : {"pending", "applying", "applied", "failed"},
               projClaim : Workers \cup {None}, reconciled : BOOLEAN]
Rows     == [st : RowStatus, ans : Answers \cup {None}, shown : BOOLEAN,
             projected : BOOLEAN, reconciled : BOOLEAN]
Commands == [st : CmdStatus, claim : Workers \cup {None}, applied : BOOLEAN]
Memory   == [pc : Pcs, q : Questions, ans : Answers \cup {None}, own : BOOLEAN,
             to : {"none", "applying", "delivery_uncertain"}, read : SUBSET Questions]

\* canonical_run_allows_resume
RunBlocks == run \in {"canceling", "ended"}

Init ==
    /\ agg = NoAgg
    /\ row = [q \in Questions |-> NoRow]
    /\ cmd = NoCmd
    /\ run = "awaiting"
    /\ delivered = [q \in Questions |-> None]
    /\ late = FALSE
    /\ slow = {}
    /\ faults = 0
    /\ proc = [w \in Workers |-> Idle]
-----------------------------------------------------------------------------
(* Workers                                                                 *)

At(w, pc) == proc[w].pc = pc
Q(w)      == proc[w].q

Go(w, pc)    == proc' = [proc EXCEPT ![w].pc = pc]
From(w, pc)  == proc' = [proc EXCEPT ![w].pc = pc, ![w].q = 1]
Stop(w)      == proc' = [proc EXCEPT ![w] = Idle]
Raise(w, pc, to) == proc' = [proc EXCEPT ![w].pc = pc, ![w].to = to]

\* The next question of a loop, or what follows the loop.
Loop(w, pc, next) ==
    IF Q(w) < N THEN proc' = [proc EXCEPT ![w].pc = pc, ![w].q = @ + 1]
    ELSE IF next = "idle" THEN Stop(w) ELSE From(w, next)

Fault == faults < MaxFaults /\ faults' = faults + 1

\* A claim of w taken at one of pcs no longer keeps others out.
Lapsed(w, pcs) == w \notin {v \in Workers \ slow : proc[v].pc \in pcs}

\* The exact inventory every pass asks for (validate_exact_member_inventory).
Complete == agg.att = Questions

Answered(q) == row[q].st \in {"answer_recorded", "responded"}

Crash(w) ==
    /\ ~At(w, "idle")
    /\ Fault
    /\ Stop(w)
    /\ slow' = slow \ {w}
    /\ UNCHANGED <<agg, row, cmd, runVars, late>>

\* A worker stalls for longer than its leases; the heartbeat stalls with it.
Stall(w) ==
    /\ proc[w].pc \in ApplyPcs /\ w \notin slow
    /\ Fault
    /\ slow' = slow \cup {w}
    /\ UNCHANGED <<agg, row, cmd, runVars, late, proc>>

\* The deadline of the interaction.
Tick ==
    /\ ~late
    /\ late' = TRUE
    /\ UNCHANGED <<agg, row, cmd, runVars, slow, faults, proc>>
-----------------------------------------------------------------------------
(* Materialization                                                         *)

\* request_interaction: the aggregate is the first durable write.
Ask(w) ==
    /\ At(w, "idle") /\ agg.st \in {"none", "materializing"} /\ run = "awaiting"
    /\ agg' = IF agg.st = "none" THEN [agg EXCEPT !.st = "materializing"] ELSE agg
    /\ From(w, "create")
    /\ UNCHANGED <<row, cmd, runVars, world>>

ResumeMaterializing(r) ==
    /\ At(r, "idle") /\ agg.st = "materializing"
    /\ From(r, "create")
    /\ UNCHANGED <<agg, row, cmd, runVars, world>>

\* _request_interaction_member: the request is stored first.
CreateRow(w) ==
    /\ At(w, "create")
    /\ row' = [row EXCEPT ![Q(w)].st = IF @ = "none" THEN "pending" ELSE @]
    /\ Go(w, "attach")
    /\ UNCHANGED <<agg, cmd, runVars, world>>

\* attach_interaction_request: the last question opens the interaction.
Attach(w) ==
    /\ At(w, "attach")
    /\ IF agg.st \in Withdrawn \cup {"applied"} THEN UNCHANGED agg /\ Stop(w)
       ELSE /\ agg' = [agg EXCEPT
                          !.att = @ \cup {Q(w)},
                          !.st = IF @ = "materializing" /\ agg.att \cup {Q(w)} = Questions
                                 THEN "open" ELSE @]
            /\ Loop(w, "create", "show")
    /\ UNCHANGED <<row, cmd, runVars, world>>

\* Fault: a question partly published is not taken up again.
RecoverShowFirst(r) ==
    /\ At(r, "idle") /\ agg.st = "materializing"
    /\ From(r, "show")
    /\ UNCHANGED <<agg, row, cmd, runVars, world>>

\* _recover_open_projections
RecoverShow(r) ==
    /\ At(r, "idle") /\ agg.st \in Askable
    /\ \E q \in Questions : ~row[q].shown
    /\ From(r, "show")
    /\ UNCHANGED <<agg, row, cmd, runVars, world>>

\* claim_hitl_open_projection; the claim of a dead worker lapses.
ShowClaimable(q) ==
    /\ row[q].st = "pending" /\ ~row[q].shown
    /\ \A v \in Workers : ~(At(v, "shown") /\ Q(v) = q)

\* recover_open_interaction_projection: the claim of one question.  A question
\* that is shown, or that another worker is showing, is passed over.
ShowClaim(w) ==
    /\ At(w, "show")
    /\ \/ /\ Q(w) = 1 /\ agg.st \notin Askable
          /\ Stop(w)
       \/ /\ Q(w) > 1 \/ agg.st \in Askable
          /\ IF ShowClaimable(Q(w)) THEN Go(w, "shown")
             ELSE IF row[Q(w)].st = "pending" \/ row[Q(w)].shown THEN Loop(w, "show", "idle")
             ELSE Stop(w)
    /\ UNCHANGED <<agg, row, cmd, runVars, world>>

\* The question is published and marked so.
Show(w) ==
    /\ At(w, "shown")
    /\ row' = [row EXCEPT ![Q(w)].shown = TRUE]
    /\ Loop(w, "show", "idle")
    /\ UNCHANGED <<agg, cmd, runVars, world>>
-----------------------------------------------------------------------------
(* Answers                                                                 *)

\* handle_batch_response up to the first write: a late submission expires the
\* interaction whatever was recorded in time.
Submit(w, a) ==
    /\ At(w, "idle") /\ Complete
    /\ IF late THEN From(w, "expire")
       ELSE /\ agg.st \notin Withdrawn
            /\ proc' = [proc EXCEPT ![w] = [Idle EXCEPT !.pc = "answer", !.ans = a]]
    /\ UNCHANGED <<agg, row, cmd, runVars, world>>

\* claim_hitl_request
Claimable(q) == row[q].st = "pending" /\ ~late

\* Fault: a question answered otherwise is passed over.
SameAnswerSkipped(w) == Answered(Q(w))

\* The answer the question already has must be this one.
SameAnswer(w) == Answered(Q(w)) /\ row[Q(w)].ans = proc[w].ans

AnswerRow(w) ==
    /\ At(w, "answer")
    /\ IF Claimable(Q(w))
       THEN row' = [row EXCEPT ![Q(w)].st = "answer_recorded", ![Q(w)].ans = proc[w].ans]
                /\ Go(w, "record")
       ELSE UNCHANGED row /\ IF SameAnswer(w) THEN Go(w, "record") ELSE Stop(w)
    /\ UNCHANGED <<agg, cmd, runVars, world>>

\* record_interaction_answer
Recordable(q) == q \in agg.att /\ agg.st \in Askable /\ ~late
Recorded(q) ==
    LET refs == agg.refs \cup {q} IN
    [agg EXCEPT !.refs = refs,
                !.st = IF refs = agg.att THEN "answers_recorded" ELSE "partially_answered"]

RecordAnswer(w) ==
    /\ At(w, "record")
    /\ \/ Q(w) \in agg.refs /\ UNCHANGED agg /\ Loop(w, "answer", "apply")
       \/ Q(w) \notin agg.refs /\ Recordable(Q(w))
          /\ agg' = Recorded(Q(w)) /\ Loop(w, "answer", "apply")
       \/ Q(w) \notin agg.refs /\ ~Recordable(Q(w)) /\ UNCHANGED agg
          /\ IF late THEN From(w, "expire") ELSE Stop(w)
    /\ UNCHANGED <<row, cmd, runVars, world>>

\* repair_persisted_answer_refs, question by question.
RepairRefs(w, pc, next) ==
    /\ At(w, pc) /\ Complete
    /\ \/ (Q(w) \in agg.refs \/ ~Answered(Q(w))) /\ UNCHANGED agg /\ Loop(w, pc, next)
       \/ Answered(Q(w)) /\ Q(w) \notin agg.refs
          /\ IF Recordable(Q(w)) THEN agg' = Recorded(Q(w)) /\ Loop(w, pc, next)
             ELSE UNCHANGED agg /\ Stop(w)
    /\ UNCHANGED <<row, cmd, runVars, world>>

\* _repair_answers of the reconciler; a complete questionnaire is applied.
RepairAnswers(r) ==
    /\ At(r, "idle") /\ Complete /\ agg.st \in Askable
    /\ \E q \in Questions : Answered(q) /\ q \notin agg.refs
    /\ From(r, "refs")
    /\ UNCHANGED <<agg, row, cmd, runVars, world>>

RepairedAnswers(r) ==
    /\ At(r, "repaired")
    /\ IF agg.st = "answers_recorded" THEN From(r, "apply") ELSE Stop(r)
    /\ UNCHANGED <<agg, row, cmd, runVars, world>>
-----------------------------------------------------------------------------
(* Application                                                             *)

\* apply_interaction: a Run that is canceling or over is not resumed.
Apply(w) ==
    /\ At(w, "apply")
    /\ IF RunBlocks THEN Stop(w) ELSE From(w, "repair")
    /\ UNCHANGED <<agg, row, cmd, runVars, world>>

Repair(w) == RepairRefs(w, "repair", "claim") \/ RepairRefs(w, "refs", "repaired")

\* Fault: the claim of a dead applier is never taken over.
ApplicationUnclaimed == agg.st = "answers_recorded"

\* claim_interaction_application
ApplicationClaimable ==
    \/ agg.st = "answers_recorded"
    \/ agg.st = "applying" /\ Lapsed(agg.claim, ApplyPcs)

\* An applier that lost to one that has finished, only finishes too.
ClaimApplication(w) ==
    /\ At(w, "claim")
    /\ \/ /\ agg.st = "applied" /\ UNCHANGED agg
          /\ \E pc \in {"projclaim", "finish"} : From(w, pc)
       \/ /\ ApplicationClaimable
          /\ agg' = [agg EXCEPT !.st = "applying", !.claim = w]
          /\ proc' = [proc EXCEPT ![w].pc = "respond", ![w].q = 1, ![w].own = TRUE,
                                  ![w].read = {q \in Questions : row[q].st = "answer_recorded"}]
       \/ /\ agg.st # "applied" /\ ~ApplicationClaimable
          /\ UNCHANGED agg /\ Stop(w)
    /\ UNCHANGED <<row, cmd, runVars, world>>

\* finalize_applied for one question: the answer is public from here.
Responded(q, ok) == [row EXCEPT ![q].st = "responded", ![q].projected = @ \/ ok]

\* The next question, or what follows the last: an error if one has failed.
Responding(w, ok) ==
    LET to == IF ok THEN proc[w].to ELSE "applying"
        pc == IF Q(w) < N THEN "respond" ELSE IF to = "none" THEN "command" ELSE "aggfail"
    IN  proc' = [proc EXCEPT ![w].pc = pc, ![w].q = IF @ < N THEN @ + 1 ELSE 1,
                             ![w].to = to, ![w].read = @ \ {Q(w)}]

\* A question fails whose event or display does, whose row is not answered, or
\* was read before another applier took it: the others are answered all the same.
Respond(w) ==
    /\ At(w, "respond")
    /\ \/ /\ Answered(Q(w)) /\ row' = Responded(Q(w), TRUE)
          /\ Responding(w, TRUE) /\ UNCHANGED faults
       \/ /\ Answered(Q(w)) /\ ~row[Q(w)].projected /\ Fault
          /\ row' = Responded(Q(w), FALSE) /\ Responding(w, FALSE)
       \/ /\ Answered(Q(w)) => Q(w) \in proc[w].read /\ row[Q(w)].st = "responded"
          /\ UNCHANGED <<row, faults>> /\ Responding(w, FALSE)
    /\ UNCHANGED <<agg, cmd, runVars, late, slow>>

\* Fault: a command that is found was delivered.
CommandFound(w) ==
    /\ At(w, "command")
    /\ IF cmd.st = "none" THEN cmd' = [cmd EXCEPT !.st = "pending"] /\ Go(w, "cmdclaim")
       ELSE UNCHANGED cmd /\ Go(w, "projclaim")
    /\ UNCHANGED <<agg, row, runVars, world>>

\* create_resume_command, and what a replay finds.
Command(w) ==
    /\ At(w, "command")
    /\ \/ cmd.st = "none" /\ cmd' = [cmd EXCEPT !.st = "pending"] /\ Go(w, "cmdclaim")
       \/ cmd.st = "acknowledged" /\ UNCHANGED cmd /\ Go(w, "cmdproject")
       \/ cmd.st = "projected" /\ UNCHANGED cmd /\ Go(w, "projclaim")
       \/ cmd.st \in {"pending", "retryable_error", "delivering"}
          /\ UNCHANGED cmd /\ Go(w, "cmdclaim")
    /\ UNCHANGED <<agg, row, runVars, world>>

\* Fault: a confirmed command is claimed again.
CmdClaimableAgain == cmd.st \in {"pending", "retryable_error", "acknowledged"}

\* claim_resume_command
CmdClaimable == cmd.st \in {"pending", "retryable_error"}

CmdClaim(w) ==
    /\ At(w, "cmdclaim")
    /\ IF CmdClaimable
       THEN cmd' = [cmd EXCEPT !.st = "delivering", !.claim = w] /\ Go(w, "fence")
       ELSE UNCHANGED cmd /\ Raise(w, "aggfail", "applying")
    /\ UNCHANGED <<agg, row, runVars, world>>

HoldsAgg(w) == agg.st = "applying" /\ agg.claim = w
HoldsCmd(w) == cmd.st = "delivering" /\ cmd.claim = w

\* _renew_leases_once right before the effect.
Fence(w) ==
    /\ At(w, "fence")
    /\ IF HoldsAgg(w) /\ HoldsCmd(w)
       THEN Go(w, "effect") /\ slow' = slow \ {w}
       ELSE Raise(w, "cmdfail", "applying") /\ UNCHANGED slow
    /\ UNCHANGED <<agg, row, cmd, runVars, late, faults>>

\* The Run takes the answers of the tool call once.
Resume ==
    /\ run' = IF run = "awaiting" THEN "running" ELSE run
    /\ delivered' = IF run = "awaiting" THEN [q \in Questions |-> row[q].ans] ELSE delivered

\* resume_supervisor_hitl_port: it may fail before or after the Run resumed, or
\* time out.
Effect(w) ==
    /\ At(w, "effect")
    /\ \/ ~RunBlocks /\ Resume /\ Go(w, "ack") /\ UNCHANGED faults
       \/ RunBlocks /\ UNCHANGED <<runVars, faults>> /\ Raise(w, "cmdfail", "applying")
       \/ /\ ~RunBlocks /\ Fault
          /\ Resume \/ UNCHANGED runVars
          /\ \E to \in {"applying", "delivery_uncertain"} : Raise(w, "cmdfail", to)
    /\ UNCHANGED <<agg, row, cmd, late, slow>>

\* mark_resume_command_state, acknowledged
Ack(w) ==
    /\ At(w, "ack")
    /\ IF HoldsCmd(w)
       THEN cmd' = [cmd EXCEPT !.st = "acknowledged", !.claim = None] /\ Go(w, "cmdproject")
       ELSE UNCHANGED cmd /\ Raise(w, "aggfail", "applying")
    /\ UNCHANGED <<agg, row, runVars, world>>

CmdProject(w) ==
    /\ At(w, "cmdproject")
    /\ IF cmd.st = "acknowledged"
       THEN cmd' = [cmd EXCEPT !.st = "projected"] /\ Go(w, "projclaim")
       ELSE UNCHANGED cmd /\ Raise(w, "aggfail", "applying")
    /\ UNCHANGED <<agg, row, runVars, world>>

\* claim_run_answer_projection
ProjClaimable ==
    \/ agg.proj \in {"pending", "failed"}
    \/ agg.proj = "applying" /\ Lapsed(agg.projClaim, {"projmark"})

AfterProjection(w) == Go(w, IF proc[w].own THEN "mark" ELSE "cmdapplied")

ProjClaim(w) ==
    /\ At(w, "projclaim")
    /\ \/ agg.proj = "applied" /\ UNCHANGED agg /\ AfterProjection(w)
       \/ ProjClaimable /\ Go(w, "projmark")
          /\ agg' = [agg EXCEPT !.proj = "applying", !.projClaim = w]
       \/ agg.proj = "applying" /\ ~ProjClaimable
          /\ UNCHANGED agg /\ Raise(w, "aggfail", "applying")
    /\ UNCHANGED <<row, cmd, runVars, world>>

\* mark_run_answer_projection, applied or failed
ProjMark(w) ==
    /\ At(w, "projmark")
    /\ LET held == agg.proj = "applying" /\ agg.projClaim = w
           Marked(st) == IF held THEN agg' = [agg EXCEPT !.proj = st, !.projClaim = None]
                         ELSE UNCHANGED agg
       IN \/ Marked("applied") /\ UNCHANGED faults
             /\ IF held THEN AfterProjection(w) ELSE Raise(w, "aggfail", "applying")
          \/ Fault /\ Marked("failed") /\ Raise(w, "aggfail", "applying")
    /\ UNCHANGED <<row, cmd, runVars, late, slow>>

\* mark_interaction_application_state, applied
MarkApplied(w) ==
    /\ At(w, "mark")
    /\ IF HoldsAgg(w) /\ agg.proj = "applied"
       THEN agg' = [agg EXCEPT !.st = "applied", !.claim = None] /\ Go(w, "cmdapplied")
       ELSE UNCHANGED agg /\ Stop(w)
    /\ UNCHANGED <<row, cmd, runVars, world>>

\* _mark_command_aggregate_applied
CmdApplied(w) ==
    /\ At(w, "cmdapplied")
    /\ cmd' = IF cmd.st = "projected" THEN [cmd EXCEPT !.applied = TRUE] ELSE cmd
    /\ From(w, "finish")
    /\ UNCHANGED <<agg, row, runVars, world>>

\* finalize_applied of the closed interaction
Finish(w) ==
    /\ At(w, "finish")
    /\ row' = Responded(Q(w), TRUE)
    /\ Loop(w, "finish", "idle")
    /\ agg' = IF Q(w) = N THEN [agg EXCEPT !.reconciled = TRUE] ELSE agg
    /\ UNCHANGED <<cmd, runVars, world>>

\* The error paths: the command first, then the aggregate, each if still held.
CmdFail(w) ==
    /\ At(w, "cmdfail")
    /\ cmd' = IF HoldsCmd(w) THEN [cmd EXCEPT !.st = "retryable_error", !.claim = None] ELSE cmd
    /\ Go(w, "aggfail")
    /\ UNCHANGED <<agg, row, runVars, world>>

\* Fault: the claim is kept.
AggFailKeepingClaim(w) ==
    /\ At(w, "aggfail")
    /\ agg' = IF HoldsAgg(w) THEN [agg EXCEPT !.st = proc[w].to] ELSE agg
    /\ Stop(w)
    /\ slow' = slow \ {w}
    /\ UNCHANGED <<row, cmd, runVars, late, faults>>

AggFail(w) ==
    /\ At(w, "aggfail")
    /\ agg' = IF HoldsAgg(w)
              THEN [agg EXCEPT !.st = proc[w].to,
                               !.claim = IF proc[w].to = "applying" THEN @ ELSE None]
              ELSE agg
    /\ Stop(w)
    /\ slow' = slow \ {w}
    /\ UNCHANGED <<row, cmd, runVars, late, faults>>

\* _resume_applications; an uncertain delivery is resumed without a claim.
ResumeApplication(r) ==
    /\ At(r, "idle") /\ Complete
    /\ \/ ApplicationClaimable /\ UNCHANGED agg
       \/ agg.st = "applied" /\ ~agg.reconciled /\ UNCHANGED agg
       \/ agg.st = "delivery_uncertain" /\ agg' = [agg EXCEPT !.st = "applying"]
    /\ From(r, "apply")
    /\ UNCHANGED <<row, cmd, runVars, world>>

\* _reconcile_commands: a stale delivery becomes retryable; a confirmed or a
\* retryable command finishes its interaction.
ReconcileCommand(r) ==
    /\ At(r, "idle") /\ Complete
    /\ \/ /\ cmd.st = "delivering" /\ Lapsed(cmd.claim, CmdPcs)
          /\ cmd' = [cmd EXCEPT !.st = "retryable_error", !.claim = None]
          /\ UNCHANGED <<agg, proc>>
       \/ /\ cmd.st = "acknowledged" \/ (cmd.st = "projected" /\ ~cmd.applied)
          /\ cmd' = [cmd EXCEPT !.st = "projected"]
          /\ agg' = [agg EXCEPT !.st = IF @ = "delivery_uncertain" THEN "applying" ELSE @]
          /\ From(r, "apply")
       \/ /\ cmd.st = "retryable_error"
          /\ From(r, "apply")
          /\ UNCHANGED <<agg, cmd>>
    /\ UNCHANGED <<row, runVars, world>>
-----------------------------------------------------------------------------
(* Withdrawal                                                              *)

\* The statuses a cancellation still finds withdrawable.
Cancelable == {"materializing", "answers_recorded"} \cup Askable

\* terminalize_interaction
Terminated(st) == [agg EXCEPT !.st = st, !.claim = None, !.reconciled = FALSE]

\* A loser goes on when it finds one of the ends it may reconcile.
Terminalize(w, from, st, ends) ==
    IF agg.st \in from THEN agg' = Terminated(st) /\ From(w, "recon")
    ELSE UNCHANGED agg /\ IF agg.st \in ends THEN From(w, "recon") ELSE Stop(w)

\* Fault: an application under way expires.
ExpirableLate == {"answers_recorded", "applying"} \cup Askable

Expirable == {"answers_recorded"} \cup Askable

\* _expire_due
ExpireDue(r) ==
    /\ At(r, "idle") /\ Complete /\ late /\ agg.st \in Askable
    /\ From(r, "expire")
    /\ UNCHANGED <<agg, row, cmd, runVars, world>>

\* expire_interaction
Expire(w) ==
    /\ At(w, "expire")
    /\ Terminalize(w, Expirable, "expired", Withdrawn)
    /\ UNCHANGED <<row, cmd, runVars, world>>

\* cancel_interaction_by_user: the Run's cancellation is claimed first.
CancelByUser(w) ==
    /\ At(w, "idle") /\ run # "ended"
    /\ agg.st \in {"materializing"} \cup Askable
    /\ run' = "canceling"
    /\ IF agg.att = {} THEN Go(w, "unattached")
       ELSE proc' = [proc EXCEPT ![w].pc = "cancel",
                                 ![w].q = CHOOSE q \in agg.att : \A p \in agg.att : q <= p]
    /\ UNCHANGED <<agg, row, cmd, delivered, world>>

\* With no question seen attached, the aggregate alone is canceled.
CancelUnattached(w) ==
    /\ At(w, "unattached")
    /\ agg' = IF agg.st = "materializing" THEN Terminated("canceled") ELSE agg
    /\ Stop(w)
    /\ UNCHANGED <<row, cmd, runVars, world>>

\* The Run is canceled by another way.
CancelRun ==
    /\ run \in {"awaiting", "running"}
    /\ run' = "canceling"
    /\ UNCHANGED <<agg, row, cmd, delivered, world, proc>>

\* get_pending_hitl_requests_for_message_strict
Pending(q) ==
    \/ row[q].st = "pending" /\ ~late
    \/ row[q].st \in Withdrawn /\ ~row[q].reconciled

\* cancel_requests_for_message, by the canceling request or by Run recovery; a
\* scan that finds nothing lets the Run settle.
CancelScan(w) ==
    /\ At(w, "idle") /\ run = "canceling"
    /\ IF \E q \in Questions : Pending(q)
       THEN /\ \E q \in Questions :
                  Pending(q) /\ proc' = [proc EXCEPT ![w].pc = "cancel", ![w].q = q]
            /\ UNCHANGED run
       ELSE run' = "ended" /\ Stop(w)
    /\ UNCHANGED <<agg, row, cmd, delivered, world>>

\* cancel_request: what it reads of the question decides.
CancelRequest(w) ==
    /\ At(w, "cancel")
    /\ LET st == row[Q(w)].st IN
       \/ Complete /\ st \in {"pending", "answer_recorded"} /\ Go(w, "withdraw")
       \/ Complete /\ st = "canceled" /\ From(w, "recon")
       \/ ~Complete /\ Stop(w)
       \/ Complete /\ st \notin {"pending", "answer_recorded", "canceled"} /\ Stop(w)
    /\ UNCHANGED <<agg, row, cmd, runVars, world>>

\* _terminalize_interaction_requests
Withdraw(w) ==
    /\ At(w, "withdraw")
    /\ Terminalize(w, Cancelable, "canceled", {"canceled"})
    /\ UNCHANGED <<row, cmd, runVars, world>>

\* _reconcile_terminal_interactions and _reconcile_terminal_requests
ReconcileTerminal(r) ==
    /\ At(r, "idle") /\ Complete /\ agg.st \in Withdrawn
    /\ ~agg.reconciled \/ \E q \in Questions : row[q].st \in Withdrawn /\ ~row[q].reconciled
    /\ From(r, "recon")
    /\ UNCHANGED <<agg, row, cmd, runVars, world>>

\* Fault: an answered question keeps its answer.
ReconMemberPending(w) ==
    /\ At(w, "recon")
    /\ row' = IF row[Q(w)].st = "pending"
              THEN [row EXCEPT ![Q(w)].st = agg.st, ![Q(w)].reconciled = FALSE] ELSE row
    /\ Loop(w, "recon", "tell")
    /\ UNCHANGED <<agg, cmd, runVars, world>>

\* reconcile_terminal_interaction: every question takes the aggregate's end.
ReconMember(w) ==
    /\ At(w, "recon")
    /\ row' = IF row[Q(w)].st \in {"pending", "answer_recorded"}
              THEN [row EXCEPT ![Q(w)].st = agg.st, ![Q(w)].reconciled = FALSE] ELSE row
    /\ Loop(w, "recon", "tell")
    /\ UNCHANGED <<agg, cmd, runVars, world>>

\* _reconcile_terminal_members: the end of the question is published.
Tell(w) ==
    /\ At(w, "tell")
    /\ row' = [row EXCEPT ![Q(w)].reconciled = @ \/ row[Q(w)].st = agg.st]
    /\ Loop(w, "tell", "close")
    /\ UNCHANGED <<agg, cmd, runVars, world>>

\* The aggregate is marked reconciled, then the owning Run is told.
Close(w) ==
    /\ At(w, "close")
    /\ IF \A q \in Questions : row[q].reconciled
       THEN agg' = [agg EXCEPT !.reconciled = TRUE] /\ Go(w, "endrun")
       ELSE UNCHANGED agg /\ Stop(w)
    /\ UNCHANGED <<row, cmd, runVars, world>>

\* terminalize_canonical_hitl_run: an expired question fails the Run, a canceled
\* one settles its cancellation.  It may raise while Agent calls stay open.
EndRun(w) ==
    /\ At(w, "endrun")
    /\ \/ UNCHANGED faults
          /\ run' = IF (agg.st = "expired") # (run = "canceling") THEN "ended" ELSE run
       \/ Fault /\ UNCHANGED run
    /\ Stop(w)
    /\ UNCHANGED <<agg, row, cmd, delivered, late, slow>>

\* The resumed Run comes to its end.
RunEnds ==
    /\ run = "running"
    /\ run' = "ended"
    /\ UNCHANGED <<agg, row, cmd, delivered, world, proc>>
-----------------------------------------------------------------------------
ApplyStep(w) ==
    \/ Apply(w) \/ Repair(w) \/ RepairedAnswers(w) \/ ClaimApplication(w) \/ Respond(w) \/ Command(w)
    \/ CmdClaim(w) \/ Fence(w) \/ Effect(w) \/ Ack(w) \/ CmdProject(w) \/ ProjClaim(w)
    \/ ProjMark(w) \/ MarkApplied(w) \/ CmdApplied(w) \/ Finish(w) \/ CmdFail(w) \/ AggFail(w)

Step(w) ==
    \/ CreateRow(w) \/ Attach(w) \/ ShowClaim(w) \/ Show(w)
    \/ AnswerRow(w) \/ RecordAnswer(w) \/ ApplyStep(w)
    \/ Expire(w) \/ CancelUnattached(w) \/ CancelRequest(w) \/ Withdraw(w)
    \/ ReconMember(w) \/ Tell(w) \/ Close(w) \/ EndRun(w)

Request(w) == Ask(w) \/ CancelByUser(w) \/ CancelScan(w) \/ \E a \in Answers : Submit(w, a)

Pass(r) ==
    \/ ResumeMaterializing(r) \/ ExpireDue(r) \/ RepairAnswers(r) \/ ResumeApplication(r)
    \/ ReconcileCommand(r) \/ ReconcileTerminal(r) \/ RecoverShow(r)

Next ==
    \/ \E w \in Workers : Step(w) \/ Crash(w) \/ Stall(w)
    \/ \E c \in Clients : Request(c)
    \/ \E r \in Reconcilers : Pass(r)
    \/ Tick \/ CancelRun \/ RunEnds

Spec == Init /\ [][Next]_vars

\* A worker at work goes on, and every pass of the reconciler has its turn in
\* each of its cycles, however often the others find work.
FairSpec ==
    /\ Spec
    /\ \A w \in Workers : WF_vars(Step(w))
    /\ \A r \in Reconcilers :
          /\ SF_vars(ExpireDue(r)) /\ SF_vars(RepairAnswers(r))
          /\ SF_vars(ResumeApplication(r)) /\ SF_vars(ReconcileCommand(r))
          /\ SF_vars(ReconcileTerminal(r)) /\ SF_vars(RecoverShow(r))
-----------------------------------------------------------------------------
(* Properties                                                              *)

\* The store keeps well-formed documents; a claim belongs to a status that has
\* one (hitl_lifecycle_store).
TypeOK ==
    /\ agg \in Aggregates
    /\ agg.claim # None => agg.st = "applying"
    /\ row \in [Questions -> Rows]
    /\ cmd \in Commands
    /\ cmd.claim # None <=> cmd.st = "delivering"
    /\ run \in {"awaiting", "running", "canceling", "ended"}
    /\ delivered \in [Questions -> Answers \cup {None}]
    /\ late \in BOOLEAN /\ slow \subseteq Workers /\ faults \in 0..MaxFaults
    /\ proc \in [Workers -> Memory]

\* The answers of a questionnaire come from one submission: two users who
\* answer at once never have their answers mixed, although each answer is a
\* write of its own (handle_batch_response).
AnswersFromOneSubmission ==
    \A p, q \in Questions :
        row[p].ans # None /\ row[q].ans # None => row[p].ans = row[q].ans

\* Once the Run was resumed with the answers, the interaction is neither
\* canceled nor expired, and the answers in public are those the Run got: the
\* application and every withdrawal race for one aggregate.
DeliveredAnswerStands ==
    (\E q \in Questions : delivered[q] # None) =>
        /\ agg.st \in {"applying", "delivery_uncertain", "applied"}
        /\ \A q \in Questions : row[q].st = "responded" /\ row[q].ans = delivered[q]

\* An applied interaction has a confirmed resume command and a resumed Run,
\* whichever of several appliers closed it.
AppliedIsConfirmed ==
    agg.st = "applied" =>
        /\ cmd.st \in {"acknowledged", "projected"} /\ agg.proj = "applied"
        /\ \A q \in Questions : delivered[q] # None

\* A confirmed resume command is final: no late applier delivers it again.
ConfirmedCommandIsFinal ==
    [][cmd.st \in {"acknowledged", "projected"} =>
         cmd'.st \in {"acknowledged", "projected"}]_vars

\* A complete questionnaire reaches its Run, unless it is withdrawn or the Run
\* may not be resumed any more.
AnswerReachesRun ==
    agg.st = "answers_recorded" ~>
        \/ \A q \in Questions : delivered[q] # None
        \/ agg.st \in Withdrawn \/ RunBlocks

\* An open question is published to its room, whoever died while doing so.
OpenQuestionIsShown ==
    agg.st = "open" ~> (agg.st # "open" \/ \A q \in Questions : row[q].shown)

\* A withdrawn interaction withdraws all its questions and is reconciled.
WithdrawalReachesQuestions ==
    agg.st \in Withdrawn /\ Complete ~>
        agg.reconciled /\ \A q \in Questions : row[q].st = agg.st /\ row[q].reconciled

\* An expired interaction ends the wait of its Run: while that is not possible
\* the reconciler tries again (terminalize_canonical_hitl_run).
ExpiredQuestionEndsRun == agg.st = "expired" ~> run # "awaiting"
=============================================================================
