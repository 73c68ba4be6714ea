-------------------------- MODULE AgentCallStates --------------------------
(***************************************************************************)
(* The lifecycle states of an Agent call in the call ledger and the        *)
(* transitions validate_agent_call_transition lets a writer make.  The     *)
(* table is shared by the modules that move a call.                        *)
(***************************************************************************)

\* TERMINAL_AGENT_CALL_STATES
TerminalCallStates == {"completed", "failed", "canceled", "rejected", "expired"}

\* The states of a call whose message has not been given to a transport.
UndispatchedStates == {"accepted", "ready_to_dispatch"}

LiveCallStates ==
    UndispatchedStates \cup
    {"dispatching", "delivery_uncertain", "working", "continuation_pending",
     "input_required", "auth_required", "resuming", "cancel_pending"}

CallStates == LiveCallStates \cup TerminalCallStates

\* AGENT_CALL_TRANSITIONS
Successors(s) ==
    CASE s = "accepted" ->
            {"ready_to_dispatch", "cancel_pending", "rejected", "expired"}
      [] s = "ready_to_dispatch" ->
            {"dispatching", "cancel_pending", "rejected", "expired"}
      [] s = "dispatching" ->
            {"ready_to_dispatch", "delivery_uncertain", "working",
             "continuation_pending", "cancel_pending"} \cup TerminalCallStates
      [] s = "delivery_uncertain" ->
            {"dispatching", "working", "continuation_pending", "cancel_pending"}
                \cup TerminalCallStates
      [] s = "working" ->
            {"continuation_pending", "cancel_pending"} \cup TerminalCallStates
      [] s = "continuation_pending" ->
            {"input_required", "auth_required", "resuming", "failed", "canceled",
             "expired", "cancel_pending"}
      [] s = "input_required" ->
            {"resuming", "failed", "canceled", "expired", "cancel_pending"}
      [] s = "auth_required" ->
            {"resuming", "failed", "canceled", "rejected", "expired", "cancel_pending"}
      [] s = "resuming" ->
            {"delivery_uncertain", "working", "continuation_pending", "cancel_pending"}
                \cup TerminalCallStates
      [] s = "cancel_pending" -> {"canceled"}
      [] OTHER -> {}
=============================================================================
