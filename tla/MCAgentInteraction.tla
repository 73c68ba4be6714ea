------------------------ MODULE MCAgentInteraction ------------------------
(* AgentInteraction for TLC: a server whose requests and sweeps follow one  *)
(* another, and a rival sweep that may overlap with them on the answer to   *)
(* the first question.                                                      *)
EXTENDS AgentInteractionRivals

CONSTANT Rival    \* one of the Coordinators

Starts(p) == At(p, "idle") /\ proc'[p] # proc[p]

Others == Recoverers \cup Processors \cup Cancellers

\* The rival begins on an undisturbed call that nobody else works on, and while
\* it works nobody else begins and only a claim may lapse. Once the two have
\* overlapped and the rival is done, nothing more is disturbed.
Bounded ==
    /\ Starts(Rival) => events = 0 /\ agent.last = 1 /\ \A p \in Others : At(p, "idle")
    /\ ~At(Rival, "idle") => /\ events' = events \/ Lapse
                             /\ \A p \in Others : ~Starts(p)
    /\ met /\ At(Rival, "idle") => events' = events

\* The rival need not come round again, but ends what it has begun.
BoundedSpec ==
    /\ MetInit /\ [][MetNext /\ Bounded]_<<vars, met>>
    /\ \A q \in Coordinators \ {Rival} : FairCoordinator(q)
    /\ WF_vars(~At(Rival, "idle") /\ (Coordinate(Rival) \/ Parking(Rival)))
    /\ FairRest
=============================================================================
