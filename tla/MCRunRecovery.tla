--------------------------- MODULE MCRunRecovery ---------------------------
(* RunRecovery for TLC: the processes are model values of the .cfg files.  *)
EXTENDS RunRecovery

\* Two scenarios in one run: a cancel request comes to a Run whose session has
\* not begun and never will, and two processes may die; a session works on a
\* Run that nobody cancels, and one may. An adapter or an invariant fails in
\* either way beside the cancel request; beside the session only an invariant
\* does (those failures are counted), and only in recovery.
\* A work that lost its lease, or a checkpoint, ends as it does in the code.
Raises(p, e) ==
    /\ proc'[p].exc = e /\ proc[p].exc # e
    /\ p \in Workers => LoadedClaim.owner = p
    /\ p \in Drivers /\ e = "conflict" => p \in current

Begun == \E d \in Drivers : proc'[d].pc # "start"

Apart ==
    /\ (\E c \in Cancellers : proc'[c] # proc[c]) => ~Begun
    /\ (\E d \in Drivers : proc'[d] # proc[d]) =>
          run.requestedAt = NoTime /\ \A c \in Cancellers : proc[c].pc = "idle"
    /\ Begun => crashes' <= 1 /\ \A p \in Procs : ~Raises(p, "adapter")
    /\ \A d \in Drivers, e \in {"adapter", "conflict"} : ~Raises(d, e)

ApartSpec == Init /\ [][Next /\ Apart]_vars /\ Fairness
=============================================================================
