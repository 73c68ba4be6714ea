---------------------------- MODULE RunLifecycle ----------------------------
(***************************************************************************)
(* What a durable orchestrator Run promises to everyone who only looks at  *)
(* its status: how a Run may move, which statuses are final, and that a    *)
(* cancellation, once durable, is the only way the Run can still end.      *)
(*                                                                         *)
(* The detailed specification RunRecovery, in which several processes race *)
(* on the aggregate and on its recovery lease, implements this one.        *)
(***************************************************************************)

VARIABLE status

\* common/run_status.py and execution/orchestrator/persistence.py.  "queued"
\* is declared there too, but no code of the repository ever writes it;
\* "suspended" stands for waiting_external and awaiting_user.
Suspended == {"suspended"}
Active    == {"running", "finalizing"}
Terminal  == {"completed", "failed", "canceled", "budget_exhausted"}
Status    == Suspended \cup Active \cup Terminal \cup {"canceling"}

\* request_cancellation accepts these and refuses a finalizing Run.
Cancelable == Suspended \cup {"running"}
-----------------------------------------------------------------------------
Init == status = "running"

Suspend ==
    /\ status \in Cancelable
    /\ status' \in Suspended

Resume ==
    /\ status \in Suspended
    /\ status' = "running"

Finalize ==
    /\ status = "running"
    /\ status' = "finalizing"

Complete ==
    /\ status = "finalizing"
    /\ status' = "completed"

Fail ==
    /\ status \in Active \cup Suspended
    /\ status' \in {"failed", "budget_exhausted"}

RequestCancel ==
    /\ status \in Cancelable
    /\ status' = "canceling"

Cancel ==
    /\ status = "canceling"
    /\ status' = "canceled"

Next == Suspend \/ Resume \/ Finalize \/ Complete \/ Fail \/ RequestCancel \/ Cancel

Spec == Init /\ [][Next]_status
=============================================================================
