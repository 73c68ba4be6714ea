----------------------- MODULE AgentInteractionRivals -----------------------
(***************************************************************************)
(* AgentInteraction with a record of whether two coordinators have ever    *)
(* been at work at once: the answering request and the continuation sweep  *)
(* run side by side, and the store that fences them knows both by the one  *)
(* worker_id of their server.                                              *)
(***************************************************************************)
EXTENDS AgentInteraction

VARIABLE met    \* two coordinators have been at work at once

ASSUME RivalsAssumption == Coordinators # {}

Together == \E p, q \in Coordinators : p # q /\ ~At(p, "idle") /\ ~At(q, "idle")

MetInit == Init /\ met = FALSE

MetNext == Next /\ met' = (met \/ Together')

MetSpec == MetInit /\ [][MetNext]_<<vars, met>>

MaxTries == IF MaxInspections < MaxTransportAttempts THEN MaxTransportAttempts ELSE MaxInspections

\* The Agent gets an answer again, and the attempts pass the limits of _deliver,
\* only where two coordinators have been at work at once: whatever crash, lost
\* receipt or lapsed claim befalls one coordinator, whoever comes after it inspects
\* what may have been sent (_recover_call) and counts on.
RepeatsNeedRivals ==
    met \/ /\ \A i \in Rounds : agent.got[i] <= 1
           /\ call.tries <= MaxTries
=============================================================================
