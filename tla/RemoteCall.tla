----------------------------- MODULE RemoteCall -----------------------------
(***************************************************************************)
(* What the A2A runtime promises about one Agent call: the Agent gets the  *)
(* message at most once, the call gets at most one verdict, the verdict    *)
(* "completed" only after the Agent got the message, and the Run hears of  *)
(* the call at most once, either the verdict or a failure of its own.      *)
(***************************************************************************)
EXTENDS Naturals

CONSTANTS
    Verdicts,   \* the final states of a call
    Failures    \* what the Run may hear when it does not hear the verdict

VARIABLES
    sent,       \* messages the Agent got
    verdict,
    told        \* what the Run heard

vars == <<sent, verdict, told>>

Nothing == "none"

Init == sent = 0 /\ verdict = Nothing /\ told = Nothing

Send ==
    /\ sent = 0
    /\ sent' = 1
    /\ UNCHANGED <<verdict, told>>

Decide(v) ==
    /\ verdict = Nothing
    /\ v = "completed" => sent = 1
    /\ verdict' = v
    /\ UNCHANGED <<sent, told>>

Tell(v) ==
    /\ told = Nothing
    /\ v = verdict \/ v \in Failures
    /\ told' = v
    /\ UNCHANGED <<sent, verdict>>

Next ==
    \/ Send
    \/ \E v \in Verdicts : Decide(v) \/ Tell(v)
    \/ \E v \in Failures : Tell(v)

Spec == Init /\ [][Next]_vars
=============================================================================
