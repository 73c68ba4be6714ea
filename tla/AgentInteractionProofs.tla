----------------------- MODULE AgentInteractionProofs -----------------------
(***************************************************************************)
(* Proofs about AgentInteraction, for any requests, sweeps, recoverers and *)
(* processors, which may work at once, and any number of questions and     *)
(* disturbances.                                                           *)
(*                                                                         *)
(* An answer needs a published question, publication needs a surface       *)
(* entry, and the fence needs an entry that is shown.  Neither is taken    *)
(* back, so what passes the fence, and the command it becomes, names a     *)
(* question the Run has suspended on, however stale its carrier is.        *)
(***************************************************************************)
EXTENDS AgentInteraction, TLAPS

\* The states of a call that waits for its user, and from which an answer may
\* resume it.
Asking == {"continuation_pending", "input_required", "auth_required"}

\* Where a coordinator has an answer before and after the fence, and where a
\* process has a question in hand.
Answering == {"storing", "marking", "fencing"}
Cleared   == {"scheduling", "claiming", "authorizing", "commanding", "delivering", "sending"}
Parkings  == {"parking", "attaching", "activating", "superseding", "procAttaching",
              "procActivating"}

CallOK(c, s) ==
    /\ c \in Calls
    /\ c.st \in Asking => c.cmd = 0 /\ c.tries = 0
    /\ c.cst \in {None, "pending"} => c.tries < MaxTransportAttempts
    /\ c.st = "input_required" => c.pend # 0
    /\ c.cmd # 0 => s[c.cmd] = "shown"

\* An answered question is published, a published one has its surface entry.
QuestionsOK(h, s) ==
    /\ h \in [Rounds -> Interactions]
    /\ s \in [Rounds -> {None, "pending", "shown"}]
    /\ \A i \in Rounds : h[i].published => s[i] # None
    /\ \A i \in Rounds : h[i].answered => h[i].published

AgentOK(a, s) ==
    /\ a \in [asks : 0 .. MaxRounds, last : Rounds, got : [Rounds -> Nat], done : BOOLEAN]
    /\ \A i \in Rounds : a.got[i] > 0 => s[i] = "shown"

InboxOK(a, e) == a \in [Rounds -> RowStates] /\ e \in [Verdicts -> RowStates]

RunOK(rn, en) ==
    /\ rn \in {"running", "suspended", "canceling", "ended"}
    /\ en \in [st : {"waiting", "question", "terminal"}, known : Rounds]

\* What the place of a process says of the question and the verdict in hand.
PlaceOK(h, s, pc, on, out) ==
    /\ pc \in Answering => on # 0 /\ h[on].published
    /\ pc \in Cleared => on # 0 /\ s[on] = "shown"
    /\ pc \in Parkings => on # 0
    /\ pc = "verdict" => out # None
    /\ pc \in {"applying", "telling"} => on # 0 \/ out # None

\* What a current copy says besides.
CopyOK(c, pc) ==
    /\ pc \in {"attaching", "procAttaching"} => c.st = "continuation_pending"
    /\ pc = "commanding" => c.st \in Asking
    /\ pc \in {"delivering", "inspecting"} => c.st \notin Asking

IInv ==
    /\ CallOK(call, surf)
    /\ QuestionsOK(hitl, surf)
    /\ AgentOK(agent, surf)
    /\ InboxOK(asked, ended)
    /\ RunOK(run, entry)
    /\ events \in 0 .. MaxEvents
    /\ proc \in [Procs -> Memory]
    /\ fresh \subseteq Procs
    /\ \A p \in Procs : PlaceOK(hitl, surf, proc[p].pc, proc[p].on, proc[p].out)
    /\ \A p \in fresh : CopyOK(call, proc[p].pc)
-----------------------------------------------------------------------------
(* A step of one process                                                   *)

LEMMA Bounds ==
    /\ MaxRounds \in Nat /\ MaxRounds > 0 /\ MaxEvents \in Nat
    /\ MaxTransportAttempts \in Nat /\ MaxTransportAttempts > 0
    /\ MaxInspections \in Nat /\ MaxRefreshes \in Nat /\ MaxRefreshes > 0
    /\ \A i \in 0 .. MaxRounds : i # 0 => i \in Rounds
    /\ \A i \in Rounds : i \in 0 .. MaxRounds /\ i # 0
    /\ 1 \in Rounds
BY InteractionBoundsAssumption DEF Rounds

\* Process p comes to the place pc.
Moves(p, pc, on, out) ==
    /\ proc' \in [Procs -> Memory]
    /\ proc'[p].pc = pc /\ proc'[p].on = on /\ proc'[p].out = out
    /\ \A q \in Procs : q # p => proc'[q] = proc[q]

\* What a step of p may do to the ledger.
LedgerStep(p) ==
    \/ call' = call /\ fresh' \subseteq fresh \cup {p}
    \/ CallOK(call', surf) /\ fresh' \subseteq {p}

\* Neither a publication nor an answer is taken back.
Onward(h, j) == \A i \in Rounds : h[i].published => j[i].published

LEMMA PlaceKept ==
    ASSUME NEW h, NEW j, NEW s, NEW pc, NEW on \in 0 .. MaxRounds, NEW out,
           PlaceOK(h, s, pc, on, out), Onward(h, j)
    PROVE  PlaceOK(j, s, pc, on, out)
<1>1. on # 0 => on \in Rounds
  BY Bounds
<1> QED BY <1>1 DEF PlaceOK, Onward

LEMMA ProcessStep ==
    ASSUME IInv, NEW p \in Procs, NEW pc, NEW on, NEW out, Moves(p, pc, on, out),
           LedgerStep(p), p \in fresh' => CopyOK(call', pc),
           UNCHANGED surf, QuestionsOK(hitl', surf), Onward(hitl, hitl'),
           AgentOK(agent', surf), InboxOK(asked', ended'), RunOK(run', entry'),
           Event \/ UNCHANGED events, PlaceOK(hitl', surf, pc, on, out)
    PROVE  IInv'
<1>1. \A q \in Procs : PlaceOK(hitl', surf', proc'[q].pc, proc'[q].on, proc'[q].out)
  <2> SUFFICES ASSUME NEW q \in Procs, q # p
               PROVE  PlaceOK(hitl', surf', proc'[q].pc, proc'[q].on, proc'[q].out)
    BY DEF Moves
  <2>1. proc[q].on \in 0 .. MaxRounds /\ PlaceOK(hitl, surf, proc[q].pc, proc[q].on, proc[q].out)
    BY DEF IInv, Memory
  <2>2. PlaceOK(hitl', surf, proc[q].pc, proc[q].on, proc[q].out)
    BY <2>1, PlaceKept
  <2> QED BY <2>2 DEF Moves
<1>2. \A q \in fresh' : CopyOK(call', proc'[q].pc)
  <2> SUFFICES ASSUME NEW q \in fresh' PROVE CopyOK(call', proc'[q].pc)
    OBVIOUS
  <2>1. CASE q = p
    BY <2>1 DEF Moves
  <2>2. CASE q # p
    <3>1. q \in fresh /\ call' = call /\ q \in Procs
      BY <2>2 DEF LedgerStep, IInv
    <3> QED BY <2>2, <3>1 DEF Moves, IInv
  <2> QED BY <2>1, <2>2
<1>3. fresh' \subseteq Procs
  BY DEF LedgerStep, IInv
<1>4. events' \in 0 .. MaxEvents
  BY Bounds DEF Event, IInv
<1>5. CallOK(call', surf')
  BY DEF LedgerStep, IInv
<1> QED BY <1>1, <1>2, <1>3, <1>4, <1>5 DEF IInv, Moves

\* A step that changes the ledger alone.
LEMMA QuietStep ==
    ASSUME IInv, NEW p \in Procs, NEW pc, NEW on, NEW out, Moves(p, pc, on, out),
           LedgerStep(p), p \in fresh' => CopyOK(call', pc),
           UNCHANGED <<hitl, asked, ended, run, entry, surf, agent>>, Event \/ UNCHANGED events,
           PlaceOK(hitl, surf, pc, on, out)
    PROVE  IInv'
<1>1. /\ QuestionsOK(hitl', surf) /\ Onward(hitl, hitl')
      /\ AgentOK(agent', surf) /\ InboxOK(asked', ended') /\ RunOK(run', entry')
  BY DEF IInv, Onward
<1> QED BY <1>1, ProcessStep

\* What a process knows of its place.
LEMMA InPlace ==
    ASSUME IInv, NEW p \in Procs
    PROVE  /\ proc[p] \in Memory /\ proc[p].on \in 0 .. MaxRounds
           /\ proc[p].out \in Verdicts \cup {None}
           /\ proc[p].on # 0 => proc[p].on \in Rounds
           /\ PlaceOK(hitl, surf, proc[p].pc, proc[p].on, proc[p].out)
           /\ p \in fresh => CopyOK(call, proc[p].pc)
           /\ proc \in [Procs -> Memory] /\ fresh \subseteq Procs
           /\ CallOK(call, surf) /\ call \in Calls /\ QuestionsOK(hitl, surf)
BY Bounds DEF IInv, Memory, CallOK

LEMMA GoMoves ==
    ASSUME IInv, NEW p \in Procs, NEW pc \in Pcs, Go(p, pc)
    PROVE  Moves(p, pc, proc[p].on, proc[p].out)
<1> DEFINE m == [proc[p] EXCEPT !.pc = pc]
<1>1. proc \in [Procs -> Memory] /\ proc[p] \in Memory
  BY DEF IInv
<1>2. m \in Memory /\ m.pc = pc /\ m.on = proc[p].on /\ m.out = proc[p].out
  BY <1>1 DEF Memory
<1>3. proc' = [proc EXCEPT ![p] = m]
  BY <1>1 DEF Go
<1> HIDE DEF m
<1> QED BY <1>1, <1>2, <1>3 DEF Moves

LEMMA WithMoves ==
    ASSUME IInv, NEW p \in Procs, NEW pc \in Pcs, NEW i \in 0 .. MaxRounds, NEW c \in Calls,
           With(p, pc, i, c)
    PROVE  Moves(p, pc, i, None)
<1> DEFINE m == [Idle EXCEPT !.pc = pc, !.on = i, !.soon = Soon(c)]
<1>1. proc \in [Procs -> Memory]
  BY DEF IInv
<1>2. Soon(c) \in BOOLEAN /\ 0 \in 0 .. MaxRounds
  BY Bounds DEF Soon
<1>3. m \in Memory /\ m.pc = pc /\ m.on = i /\ m.out = None
  BY <1>2 DEF Memory, Idle
<1>4. proc' = [proc EXCEPT ![p] = m]
  BY DEF With
<1> HIDE DEF m
<1> QED BY <1>1, <1>3, <1>4 DEF Moves

LEMMA TookMoves ==
    ASSUME IInv, NEW p \in Procs, NEW pc \in Pcs, NEW i \in 0 .. MaxRounds,
           NEW v \in Verdicts \cup {None}, Took(p, pc, i, v)
    PROVE  Moves(p, pc, i, v) /\ LedgerStep(p) /\ call' = call
<1> DEFINE m == [Idle EXCEPT !.pc = pc, !.on = i, !.out = v]
<1>1. proc \in [Procs -> Memory]
  BY DEF IInv
<1>2. m \in Memory /\ m.pc = pc /\ m.on = i /\ m.out = v
  <2>1. 0 \in 0 .. MaxRounds
    BY Bounds
  <2> QED BY <2>1 DEF Memory, Idle
<1>3. proc' = [proc EXCEPT ![p] = m]
  BY DEF Took
<1>4. call' = call /\ fresh' = fresh \cup {p}
  BY DEF Took, Read
<1> HIDE DEF m
<1> QED BY <1>1, <1>2, <1>3, <1>4 DEF Moves, LedgerStep

LEMMA StopMoves ==
    ASSUME IInv, NEW p \in Procs, Stop(p)
    PROVE  Moves(p, "idle", 0, None) /\ PlaceOK(hitl', surf', "idle", 0, None)
           /\ CopyOK(call', "idle")
<1>1. Idle \in Memory /\ Idle.pc = "idle" /\ Idle.on = 0 /\ Idle.out = None
  BY Bounds DEF Idle, Memory, Pcs
<1>2. proc' = [proc EXCEPT ![p] = Idle] /\ proc \in [Procs -> Memory]
  BY DEF Stop, IInv
<1>3. PlaceOK(hitl', surf', "idle", 0, None) /\ CopyOK(call', "idle")
  BY DEF PlaceOK, CopyOK, Answering, Cleared, Parkings
<1> QED BY <1>1, <1>2, <1>3 DEF Moves

\* The evidence is recorded, and p is about to act on it.
LEMMA RecordMoves ==
    ASSUME IInv, NEW p \in Procs
    PROVE  /\ \A i \in 0 .. MaxRounds : i # 0 /\ RecordQuestion(p, i) =>
                 Moves(p, "parking", i, proc[p].out) /\ InboxOK(asked', ended')
           /\ \A v \in Verdicts : RecordVerdict(p, v) =>
                 Moves(p, "verdict", proc[p].on, v) /\ InboxOK(asked', ended')
<1>1. /\ proc \in [Procs -> Memory] /\ proc[p] \in Memory
      /\ asked \in [Rounds -> RowStates] /\ ended \in [Verdicts -> RowStates]
  BY DEF IInv, InboxOK
<1>2. ASSUME NEW i \in 0 .. MaxRounds, i # 0, RecordQuestion(p, i)
      PROVE  Moves(p, "parking", i, proc[p].out) /\ InboxOK(asked', ended')
  <2> DEFINE m == [proc[p] EXCEPT !.pc = "parking", !.on = i]
  <2>1. m \in Memory /\ m.pc = "parking" /\ m.on = i /\ m.out = proc[p].out
    BY <1>1 DEF Memory, Pcs
  <2>2. proc' = [proc EXCEPT ![p] = m]
    BY <1>1, <1>2 DEF RecordQuestion
  <2> HIDE DEF m
  <2>3. InboxOK(asked', ended')
    BY <1>1, <1>2 DEF RecordQuestion, Recorded, InboxOK, RowStates
  <2> QED BY <1>1, <2>1, <2>2, <2>3 DEF Moves
<1>3. ASSUME NEW v \in Verdicts, RecordVerdict(p, v)
      PROVE  Moves(p, "verdict", proc[p].on, v) /\ InboxOK(asked', ended')
  <2> DEFINE m == [proc[p] EXCEPT !.pc = "verdict", !.out = v]
  <2>1. m \in Memory /\ m.pc = "verdict" /\ m.on = proc[p].on /\ m.out = v
    BY <1>1 DEF Memory, Pcs
  <2>2. proc' = [proc EXCEPT ![p] = m]
    BY <1>1, <1>3 DEF RecordVerdict
  <2> HIDE DEF m
  <2>3. InboxOK(asked', ended')
    BY <1>1, <1>3 DEF RecordVerdict, Recorded, InboxOK, RowStates
  <2> QED BY <1>1, <2>1, <2>2, <2>3 DEF Moves
<1> QED BY <1>2, <1>3
-----------------------------------------------------------------------------
(* Writes of the ledger                                                    *)

\* A write that does not touch the state of the call or of its continuation.
LEMMA Touches ==
    ASSUME NEW c, NEW d \in Calls, NEW s, CallOK(c, s),
           d.st = c.st, d.cst = c.cst, d.tries = c.tries, d.pend = c.pend, d.cmd = c.cmd
    PROVE  CallOK(d, s)
BY DEF CallOK

LEMMA Claims ==
    ASSUME NEW c, NEW s, CallOK(c, s)
    PROVE  /\ \A who \in {"recovery", "continuation"} : CallOK(Claimed(c, who), s)
           /\ \A due \in BOOLEAN : CallOK(Released(c, due), s)
           /\ \A due \in BOOLEAN : CallOK([c EXCEPT !.due = due], s)
           /\ CallOK([c EXCEPT !.lease = FALSE], s)
           /\ \A i \in 0 .. MaxRounds : CallOK([c EXCEPT !.applied = i], s)
BY DEF CallOK, Calls, Claimed, Released, None

\* A call that is over, or is to be canceled, keeps the rest.
LEMMA Ends ==
    ASSUME NEW c, NEW s, CallOK(c, s)
    PROVE  /\ \A v \in Verdicts \cup {"canceled"} : CallOK(Ended(c, v), s)
           /\ CallOK([c EXCEPT !.st = "cancel_pending"], s)
<1>1. /\ \A v \in Verdicts \cup {"canceled", "cancel_pending"} :
            v \in CallStates /\ v \notin Asking /\ v # "input_required"
  BY DEF Verdicts, CallStates, TerminalCallStates, LiveCallStates, UndispatchedStates, Asking
<1>2. ASSUME NEW v \in Verdicts \cup {"canceled"} PROVE CallOK(Ended(c, v), s)
  <2>1. Released(c, TRUE) \in Calls /\ CallOK(Released(c, TRUE), s)
    BY Claims DEF CallOK
  <2> QED BY <1>1, <2>1 DEF CallOK, Calls, Ended
<1>3. CallOK([c EXCEPT !.st = "cancel_pending"], s)
  BY <1>1 DEF CallOK, Calls
<1> QED BY <1>2, <1>3

\* A question parks the call and forgets the round before.
LEMMA Asks ==
    ASSUME NEW c, NEW s, CallOK(c, s), NEW i \in Rounds
    PROVE  /\ CallOK(Asked(c, i), s) /\ Asked(c, i).st = "continuation_pending"
           /\ CallOK(Released(Asked(c, i), TRUE), s)
           /\ Released(Asked(c, i), TRUE).st = "continuation_pending"
           /\ c.st = "continuation_pending" => CallOK(Attached(c, i), s)
<1>1. /\ "continuation_pending" \in CallStates /\ "input_required" \in CallStates
      /\ c \in Calls
  BY DEF CallStates, LiveCallStates, CallOK
<1>2. /\ Asked(c, i) \in Calls /\ Asked(c, i).st = "continuation_pending"
      /\ Asked(c, i).tries = 0 /\ Asked(c, i).cmd = 0
  <2>1. /\ 0 \in Nat /\ 0 \in 0 .. MaxRefreshes
        /\ 0 \in 0 .. MaxRounds /\ None \in Continuations
    BY Bounds DEF Continuations
  <2>2. [c EXCEPT !.st = "continuation_pending", !.due = TRUE, !.pend = 0, !.applied = 0] \in Calls
    BY <1>1, <2>1 DEF Calls
  <2>3. c.seen \cup {i} \in SUBSET Rounds
    BY <1>1 DEF Calls
  <2>4. \A d \in Calls, r \in SUBSET Rounds :
           [d EXCEPT !.cmd = 0, !.cst = None, !.tries = 0, !.refresh = 0, !.seen = r] \in Calls
    BY <2>1 DEF Calls
  <2>5. Asked(c, i) = [[c EXCEPT !.st = "continuation_pending", !.due = TRUE, !.pend = 0,
                                 !.applied = 0] EXCEPT !.cmd = 0, !.cst = None, !.tries = 0,
                                 !.refresh = 0, !.seen = c.seen \cup {i}]
    BY <1>1 DEF Asked, Calls
  <2>6. Asked(c, i) \in Calls
    BY <2>2, <2>3, <2>4, <2>5
  <2> QED BY <1>1, <2>6 DEF Asked, Calls
<1>3. CallOK(Asked(c, i), s)
  BY <1>2, Bounds DEF CallOK
<1>4. CallOK(Released(Asked(c, i), TRUE), s)
  BY <1>3, Claims
<1>5. Released(Asked(c, i), TRUE).st = "continuation_pending"
  BY <1>2 DEF Released, Calls
<1>6. ASSUME c.st = "continuation_pending" PROVE CallOK(Attached(c, i), s)
  <2>1. /\ Attached(c, i) \in Calls /\ Attached(c, i).pend = i /\ Attached(c, i).tries = c.tries
        /\ Attached(c, i).cst = c.cst /\ Attached(c, i).cmd = c.cmd
    BY <1>1, Bounds DEF Attached, Calls
  <2> QED BY <1>6, <2>1, Bounds DEF CallOK, Asking
<1> QED BY <1>2, <1>3, <1>4, <1>5, <1>6
-----------------------------------------------------------------------------
(* Steps that many actions share                                           *)

\* A step that changes no more than the call and the process.
Aside == UNCHANGED <<hitl, asked, ended, run, entry, surf, agent>> /\ (Event \/ UNCHANGED events)

LEMMA StopStep ==
    ASSUME IInv, NEW p \in Procs, Stop(p), LedgerStep(p), Aside
    PROVE  IInv'
<1>1. Moves(p, "idle", 0, None) /\ CopyOK(call', "idle") /\ PlaceOK(hitl, surf, "idle", 0, None)
  BY StopMoves DEF Aside
<1> QED BY <1>1, QuietStep DEF Aside

LEMMA LedgerSteps ==
    ASSUME NEW p
    PROVE  /\ Done(p) => LedgerStep(p) /\ call' = call /\ p \notin fresh'
           /\ Read(p) => LedgerStep(p) /\ call' = call /\ p \in fresh'
           /\ UNCHANGED ledger => LedgerStep(p) /\ call' = call /\ fresh' = fresh
           /\ Reload(p) => LedgerStep(p) /\ call' = call
           /\ \A c : Write(p, c) /\ CallOK(c, surf) => LedgerStep(p) /\ call' = c
           /\ \A c : Last(c) /\ CallOK(c, surf) => LedgerStep(p) /\ call' = c /\ p \notin fresh'
BY DEF Done, Read, ledger, Reload, Write, Last, LedgerStep

LEMMA GiveUpStep ==
    ASSUME IInv, NEW p \in Procs, GiveUp(p), Aside
    PROVE  IInv'
BY StopStep, LedgerSteps DEF GiveUp

LEMMA RaisesStep ==
    ASSUME IInv, NEW p \in Procs, NEW st, Raises(p, st), Aside
    PROVE  IInv'
BY StopStep, LedgerSteps DEF Raises

\* p goes on with what it has in hand.
LEMMA GoStep ==
    ASSUME IInv, NEW p \in Procs, NEW pc \in Pcs, Go(p, pc), LedgerStep(p), Aside,
           p \in fresh' => CopyOK(call', pc),
           PlaceOK(hitl, surf, pc, proc[p].on, proc[p].out)
    PROVE  IInv'
<1>1. Moves(p, pc, proc[p].on, proc[p].out)
  BY GoMoves
<1> QED BY <1>1, QuietStep DEF Aside

\* p goes on with another question.
LEMMA WithStep ==
    ASSUME IInv, NEW p \in Procs, NEW pc \in Pcs, NEW i \in 0 .. MaxRounds, NEW c \in Calls,
           With(p, pc, i, c), LedgerStep(p), Aside,
           p \in fresh' => CopyOK(call', pc),
           PlaceOK(hitl, surf, pc, i, None)
    PROVE  IInv'
<1>1. Moves(p, pc, i, None)
  BY WithMoves
<1> QED BY <1>1, QuietStep DEF Aside

\* A place that says nothing.
Plainly(pc) == pc \notin Answering \cup Cleared \cup Parkings
                         \cup {"verdict", "applying", "telling", "inspecting"}

LEMMA PlainPlace ==
    ASSUME NEW h, NEW s, NEW pc, Plainly(pc), NEW on, NEW out, NEW c
    PROVE  PlaceOK(h, s, pc, on, out) /\ CopyOK(c, pc)
BY DEF Plainly, PlaceOK, CopyOK, Answering, Cleared, Parkings

LEMMA FailStep ==
    ASSUME IInv, NEW p \in Procs, NEW v \in Verdicts \cup {"canceled"}, NEW pc \in Pcs, Plainly(pc),
           Last(Ended(call, v)), Go(p, pc), Aside
    PROVE  IInv'
<1>1. CallOK(Ended(call, v), surf)
  BY Ends DEF IInv
<1>2. LedgerStep(p)
  BY <1>1, LedgerSteps
<1> QED BY <1>2, GoStep, PlainPlace

\* The parts of a question other than its publication and its answer.
Kept(h, j) ==
    /\ j \in [Rounds -> Interactions]
    /\ \A i \in Rounds : j[i].published = h[i].published /\ j[i].answered = h[i].answered

LEMMA KeptQuestions ==
    ASSUME NEW h, NEW j, NEW s, QuestionsOK(h, s), Kept(h, j)
    PROVE  QuestionsOK(j, s) /\ Onward(h, j)
BY DEF QuestionsOK, Kept, Onward

LEMMA Changes ==
    ASSUME QuestionsOK(hitl, surf)
    PROVE  /\ Kept(hitl, hitl)
           /\ \A S : Kept(hitl, Closed(S))
           /\ \A i \in Rounds : Kept(hitl, [hitl EXCEPT ![i].made = TRUE])
           /\ \A i \in Rounds, b \in BOOLEAN : Kept(hitl, [hitl EXCEPT ![i].eligible = b])
           /\ \A i \in Rounds :
                Kept(hitl, [[hitl EXCEPT ![i].made = TRUE]
                               EXCEPT ![i].closed = TRUE, ![i].eligible = FALSE])
<1>1. hitl \in [Rounds -> Interactions]
  BY DEF QuestionsOK
<1>2. \A i \in Rounds : hitl[i] \in Interactions
  BY <1>1
<1>3. \A d \in Interactions, b \in BOOLEAN :
        /\ [d EXCEPT !.made = TRUE] \in Interactions
        /\ [d EXCEPT !.eligible = b] \in Interactions
        /\ [d EXCEPT !.closed = TRUE, !.eligible = FALSE] \in Interactions
  BY DEF Interactions
<1>4. Kept(hitl, hitl)
  BY <1>1 DEF Kept
<1>5. \A S : Kept(hitl, Closed(S))
  BY <1>1, <1>2, <1>3 DEF Kept, Closed, Interactions
<1>6. ASSUME NEW i \in Rounds, NEW d \in Interactions,
             d.published = hitl[i].published, d.answered = hitl[i].answered
      PROVE  Kept(hitl, [hitl EXCEPT ![i] = d])
  BY <1>1, <1>6 DEF Kept
<1>7. ASSUME NEW i \in Rounds, NEW b \in BOOLEAN
      PROVE  /\ Kept(hitl, [hitl EXCEPT ![i].made = TRUE])
             /\ Kept(hitl, [hitl EXCEPT ![i].eligible = b])
             /\ Kept(hitl, [[hitl EXCEPT ![i].made = TRUE]
                              EXCEPT ![i].closed = TRUE, ![i].eligible = FALSE])
  <2> DEFINE d == [hitl[i] EXCEPT !.made = TRUE]
             e == [hitl[i] EXCEPT !.eligible = b]
             f == [d EXCEPT !.closed = TRUE, !.eligible = FALSE]
  <2>1. /\ d \in Interactions /\ d.published = hitl[i].published /\ d.answered = hitl[i].answered
        /\ e \in Interactions /\ e.published = hitl[i].published /\ e.answered = hitl[i].answered
    BY <1>2 DEF Interactions
  <2>2. f \in Interactions /\ f.published = d.published /\ f.answered = d.answered
    BY <2>1 DEF Interactions
  <2>3. /\ [hitl EXCEPT ![i].made = TRUE] = [hitl EXCEPT ![i] = d]
        /\ [hitl EXCEPT ![i].eligible = b] = [hitl EXCEPT ![i] = e]
    OBVIOUS
  <2>4. [[hitl EXCEPT ![i].made = TRUE] EXCEPT ![i].closed = TRUE, ![i].eligible = FALSE]
           = [hitl EXCEPT ![i] = f]
    BY <1>1
  <2> HIDE DEF d, e, f
  <2>5. /\ Kept(hitl, [hitl EXCEPT ![i] = d]) /\ Kept(hitl, [hitl EXCEPT ![i] = e])
        /\ Kept(hitl, [hitl EXCEPT ![i] = f])
    BY <1>6, <2>1, <2>2
  <2> QED BY <2>3, <2>4, <2>5
<1> QED BY <1>4, <1>5, <1>7
LEMMA AsideSteps ==
    /\ UNCHANGED <<hitl, inbox, runVars, agent, events>> => Aside
    /\ UNCHANGED <<hitl, inbox, runVars, agent>> /\ Event => Aside
BY DEF Aside, inbox, runVars

LEMMA PlainPcs ==
    /\ \A pc \in {"idle", "finalizing", "recovering", "picked", "contract", "retrying", "uncertain",
                  "accepting", "polling", "postponing", "canceling", "closing"} :
          pc \in Pcs /\ Plainly(pc)
    /\ Answering \cup Cleared \cup Parkings \cup {"verdict", "applying", "telling", "inspecting"}
          \subseteq Pcs
BY DEF Pcs, Plainly, Answering, Cleared, Parkings

\* p goes on, to a place that says nothing.
LEMMA PlainStep ==
    ASSUME IInv, NEW p \in Procs, NEW pc \in Pcs, Plainly(pc), Go(p, pc), LedgerStep(p), Aside
    PROVE  IInv'
BY GoStep, PlainPlace

LEMMA YieldStep ==
    ASSUME IInv, NEW p \in Procs, Yield(p), Aside
    PROVE  IInv'
BY GiveUpStep, PlainStep, PlainPcs, LedgerSteps DEF Yield

LEMMA PlainWithStep ==
    ASSUME IInv, NEW p \in Procs, NEW pc \in Pcs, Plainly(pc), NEW i \in 0 .. MaxRounds,
           NEW c \in Calls, With(p, pc, i, c), LedgerStep(p), Aside
    PROVE  IInv'
BY WithStep, PlainPlace
-----------------------------------------------------------------------------
(* The answer, up to its command                                           *)

LEMMA SubmitStep ==
    ASSUME IInv, NEW q \in Procs, Submit(q)
    PROVE  IInv'
<1>1. PICK i \in Rounds :
        /\ hitl[i].published
        /\ \E pc \in {"storing", "finalizing", "recovering", "fencing", "marking"} :
              With(q, pc, i, call)
  BY DEF Submit
<1>2. PICK pc \in {"storing", "finalizing", "recovering", "fencing", "marking"} :
        With(q, pc, i, call)
  BY <1>1
<1>3. LedgerStep(q) /\ call' = call /\ Aside /\ i \in 0 .. MaxRounds /\ i # 0 /\ call \in Calls
  BY Bounds, LedgerSteps, AsideSteps, InPlace DEF Submit
<1>4. pc \in Pcs
  BY PlainPcs DEF Answering
<1>5. CASE pc \in Answering
  <2>1. CopyOK(call', pc) /\ PlaceOK(hitl, surf, pc, i, None)
    BY <1>1, <1>3, <1>5 DEF CopyOK, PlaceOK, Answering, Cleared, Parkings
  <2> QED BY <1>2, <1>3, <1>4, <2>1, WithStep
<1>6. CASE pc \notin Answering
  BY <1>2, <1>3, <1>4, <1>6, PlainPcs, PlainWithStep DEF Answering
<1> QED BY <1>5, <1>6

LEMMA StoreStep ==
    ASSUME IInv, NEW q \in Procs, Store(q)
    PROVE  IInv'
<1> DEFINE i == proc[q].on
<1>1. i \in Rounds /\ hitl[i].published /\ QuestionsOK(hitl, surf)
  BY InPlace DEF Store, At, PlaceOK, Answering
<1>2. CASE Readable(On(q))
  <2>1. /\ hitl' = [hitl EXCEPT ![i].answered = TRUE] /\ Go(q, "marking")
        /\ UNCHANGED <<ledger, asked, ended, run, entry, surf, agent, events>>
    BY <1>2 DEF Store, On, inbox, runVars
  <2> DEFINE d == [hitl[i] EXCEPT !.answered = TRUE]
  <2>2. /\ hitl \in [Rounds -> Interactions] /\ hitl[i] \in Interactions
        /\ hitl' = [hitl EXCEPT ![i] = d]
    BY <1>1, <2>1 DEF QuestionsOK
  <2>3. d \in Interactions /\ d.published
    BY <1>1, <2>2 DEF Interactions
  <2> HIDE DEF d
  <2>4. QuestionsOK(hitl', surf) /\ Onward(hitl, hitl') /\ hitl'[i].published
    BY <1>1, <2>2, <2>3 DEF QuestionsOK, Onward
  <2>5. Moves(q, "marking", i, proc[q].out)
    BY <2>1, GoMoves, PlainPcs DEF Answering
  <2>6. LedgerStep(q) /\ CopyOK(call', "marking") /\ PlaceOK(hitl', surf, "marking", i, proc[q].out)
    BY <1>1, <2>1, <2>4, LedgerSteps, Bounds DEF CopyOK, PlaceOK, Answering, Cleared, Parkings
  <2>7. AgentOK(agent', surf) /\ InboxOK(asked', ended') /\ RunOK(run', entry')
    BY <2>1 DEF IInv
  <2> QED BY <2>1, <2>4, <2>5, <2>6, <2>7, ProcessStep
<1>3. CASE ~Readable(On(q))
  <2>1. Aside /\ Stop(q) /\ LedgerStep(q)
    BY <1>3, AsideSteps, LedgerSteps DEF Store
  <2> QED BY <2>1, StopStep
<1> QED BY <1>2, <1>3

LEMMA MarkStep ==
    ASSUME IInv, NEW q \in Procs, Mark(q)
    PROVE  IInv'
<1> DEFINE i == proc[q].on
           marked == [call EXCEPT !.applied = i]
<1>1. i \in Rounds /\ i \in 0 .. MaxRounds /\ i # 0 /\ hitl[i].published /\ call \in Calls
  BY InPlace DEF Mark, At, PlaceOK, Answering
<1>2. CallOK(marked, surf) /\ marked \in Calls /\ Aside
  <2>1. CallOK(marked, surf)
    BY <1>1, Claims DEF IInv
  <2> QED BY <2>1, AsideSteps DEF CallOK, Mark
<1>3. "fencing" \in Pcs /\ \A c : CopyOK(c, "fencing") /\ PlaceOK(hitl, surf, "fencing", i, None)
  BY <1>1, PlainPcs DEF CopyOK, PlaceOK, Answering, Cleared, Parkings
<1> HIDE DEF marked
<1>4. \/ Write(q, marked) /\ With(q, "fencing", i, marked)
      \/ Read(q) /\ \E pc \in {"recovering", "fencing"} : With(q, pc, i, call)
      \/ GiveUp(q)
  BY DEF Mark, On, marked
<1>5. CASE Write(q, marked) /\ With(q, "fencing", i, marked)
  <2>1. LedgerStep(q)
    BY <1>2, <1>5, LedgerSteps
  <2> QED BY <1>1, <1>2, <1>3, <1>5, <2>1, WithStep
<1>6. CASE Read(q) /\ \E pc \in {"recovering", "fencing"} : With(q, pc, i, call)
  <2>1. LedgerStep(q)
    BY <1>6, LedgerSteps
  <2>2. CASE With(q, "fencing", i, call)
    BY <1>1, <1>2, <1>3, <2>1, <2>2, WithStep
  <2>3. CASE With(q, "recovering", i, call)
    BY <1>1, <1>2, <2>1, <2>3, PlainPcs, PlainWithStep
  <2> QED BY <1>6, <2>2, <2>3
<1> QED BY <1>2, <1>4, <1>5, <1>6, GiveUpStep

LEMMA FenceStep ==
    ASSUME IInv, NEW q \in Procs, Fence(q)
    PROVE  IInv'
<1> DEFINE i == proc[q].on
<1>1. i \in Rounds /\ i # 0 /\ hitl[i].published /\ QuestionsOK(hitl, surf) /\ Aside
  BY InPlace, AsideSteps DEF Fence, At, PlaceOK, Answering
<1>2. CASE RunBlocks \/ surf[On(q)] = "pending" \/ ~Readable(On(q))
  <2>1. Stop(q) /\ LedgerStep(q)
    BY <1>2, LedgerSteps DEF Fence
  <2> QED BY <1>1, <2>1, StopStep
<1>3. CASE ~(RunBlocks \/ surf[On(q)] = "pending" \/ ~Readable(On(q)))
  <2>1. surf[i] = "shown"
    BY <1>1, <1>3 DEF QuestionsOK, On
  <2>2. Go(q, "scheduling") /\ LedgerStep(q)
    BY <1>3, LedgerSteps DEF Fence
  <2>3. CopyOK(call', "scheduling") /\ PlaceOK(hitl, surf, "scheduling", i, proc[q].out)
    BY <1>1, <2>1 DEF CopyOK, PlaceOK, Answering, Cleared, Parkings
  <2> QED BY <1>1, <2>2, <2>3, GoStep, PlainPcs DEF Cleared
<1> QED BY <1>2, <1>3

\* What has passed the fence goes on.
LEMMA ClearedStep ==
    ASSUME IInv, NEW q \in Procs, NEW pc \in Cleared \ {"commanding", "delivering"},
           proc[q].pc \in Cleared, Go(q, pc), LedgerStep(q), Aside
    PROVE  IInv'
<1>1. PlaceOK(hitl, surf, proc[q].pc, proc[q].on, proc[q].out)
  BY InPlace
<1>2. CopyOK(call', pc) /\ PlaceOK(hitl, surf, pc, proc[q].on, proc[q].out) /\ pc \in Pcs
  BY <1>1, PlainPcs DEF CopyOK, PlaceOK, Answering, Cleared, Parkings
<1> QED BY <1>2, GoStep

LEMMA ScheduleStep ==
    ASSUME IInv, NEW q \in Procs, Schedule(q)
    PROVE  IInv'
<1>1. CallOK([call EXCEPT !.due = TRUE], surf)
  BY Claims DEF IInv
<1>2. LedgerStep(q)
  BY <1>1, LedgerSteps DEF Schedule
<1> QED BY <1>2, ClearedStep, AsideSteps DEF Schedule, At, Cleared

LEMMA ClaimStep ==
    ASSUME IInv, NEW q \in Procs, Claim(q)
    PROVE  IInv'
<1>1. CallOK(Claimed(call, "continuation"), surf) /\ Aside
  BY Claims, AsideSteps DEF IInv, Claim
<1>2. CASE q \in fresh /\ Claimable(call)
  <2>1. LedgerStep(q) /\ Go(q, "authorizing")
    BY <1>1, <1>2, LedgerSteps DEF Claim
  <2> QED BY <1>1, <2>1, ClearedStep DEF Claim, At, Cleared
<1>3. CASE ~(q \in fresh /\ Claimable(call))
  BY <1>1, <1>3, StopStep, LedgerSteps DEF Claim
<1> QED BY <1>2, <1>3

LEMMA AuthorizeStep ==
    ASSUME IInv, NEW q \in Procs, Authorize(q)
    PROVE  IInv'
<1> DEFINE c == Claimed(call, "continuation")
<1>1. /\ PlaceOK(hitl, surf, "commanding", proc[q].on, proc[q].out) /\ "commanding" \in Pcs
      /\ call \in Calls /\ CallOK(c, surf) /\ Aside
  BY InPlace, Claims, AsideSteps, PlainPcs DEF Authorize, At, PlaceOK, Answering, Cleared, Parkings
<1>2. CASE q \in fresh /\ "resuming" \in Successors(call.st) /\ Write(q, c) /\ Go(q, "commanding")
  <2>1. c.st \in Asking
    BY <1>1, <1>2 DEF Claimed, Calls, Asking, Successors, TerminalCallStates
  <2>2. LedgerStep(q) /\ CopyOK(call', "commanding")
    BY <1>1, <1>2, <2>1, LedgerSteps DEF CopyOK
  <2> QED BY <1>1, <1>2, <2>2, GoStep
<1> HIDE DEF c
<1>3. \/ q \in fresh /\ "resuming" \in Successors(call.st) /\ Write(q, c) /\ Go(q, "commanding")
      \/ Yield(q) \/ Raises(q, "resuming")
  BY DEF Authorize, c
<1> QED BY <1>1, <1>2, <1>3, YieldStep, RaisesStep

LEMMA ResumeStep ==
    ASSUME IInv, NEW q \in Procs, Resume(q)
    PROVE  IInv'
<1> DEFINE i == proc[q].on
           c == [call EXCEPT !.st = "resuming", !.cmd = i, !.cst = "pending", !.refresh = 0]
<1>1. /\ i \in 0 .. MaxRounds /\ i # 0 /\ surf[i] = "shown"
      /\ call \in Calls /\ CallOK(call, surf) /\ Aside
      /\ q \in fresh => call.st \in Asking
  BY InPlace, AsideSteps DEF Resume, At, PlaceOK, CopyOK, Cleared
<1>2. PlaceOK(hitl, surf, "delivering", i, proc[q].out) /\ "delivering" \in Pcs
  BY <1>1, PlainPcs DEF PlaceOK, Answering, Cleared, Parkings
<1>3. CASE q \in fresh /\ Write(q, c) /\ Go(q, "delivering")
  <2>1. /\ c \in Calls /\ c.st = "resuming" /\ c.cmd = i /\ c.cst = "pending" /\ c.tries = 0
    <3>1. /\ "resuming" \in CallStates /\ "pending" \in Continuations /\ 0 \in 0 .. MaxRefreshes
      BY Bounds DEF CallStates, LiveCallStates, Continuations
    <3>2. call.tries = 0
      BY <1>1, <1>3 DEF CallOK
    <3> QED BY <1>1, <3>1, <3>2 DEF Calls
  <2> HIDE DEF c
  <2>2. CallOK(c, surf) /\ CopyOK(c, "delivering")
    BY <1>1, <2>1, Bounds DEF CallOK, CopyOK, Asking
  <2>3. LedgerStep(q) /\ call' = c
    BY <1>3, <2>2, LedgerSteps
  <2> QED BY <1>1, <1>2, <1>3, <2>2, <2>3, GoStep
<1>4. CASE call.cmd = i /\ Read(q) /\ Go(q, "delivering")
  <2>1. LedgerStep(q) /\ call' = call
    BY <1>4, LedgerSteps
  <2>2. CopyOK(call, "delivering")
    BY <1>1, <1>4 DEF CallOK, CopyOK
  <2> QED BY <1>1, <1>2, <1>4, <2>1, <2>2, GoStep
<1>5. CASE Read(q) /\ Go(q, "finalizing")
  BY <1>1, <1>5, PlainStep, PlainPcs, LedgerSteps
<1> HIDE DEF c
<1>6. \/ q \in fresh /\ Write(q, c) /\ Go(q, "delivering")
      \/ call.cmd = i /\ Read(q) /\ Go(q, "delivering")
      \/ Read(q) /\ Go(q, "finalizing")
      \/ GiveUp(q)
  BY DEF Resume, On, c
<1> QED BY <1>1, <1>3, <1>4, <1>5, <1>6, GiveUpStep

LEMMA DenyStep ==
    ASSUME IInv, NEW q \in Procs, Deny(q)
    PROVE  IInv'
BY FailStep, AsideSteps, PlainPcs DEF Deny, Verdicts

LEMMA DeferStep ==
    ASSUME IInv, NEW q \in Procs, Defer(q)
    PROVE  IInv'
<1>1. Aside /\ CallOK(call, surf) /\ call \in Calls
  BY AsideSteps, InPlace DEF Defer
<1>2. CASE call.refresh + 1 >= MaxRefreshes
  BY <1>1, <1>2, FailStep, PlainPcs DEF Defer, Verdicts
<1>3. CASE ~(call.refresh + 1 >= MaxRefreshes)
  <2> DEFINE c == Released(call, FALSE)
             d == [c EXCEPT !.refresh = @ + 1]
  <2>1. c \in Calls /\ CallOK(c, surf) /\ c.refresh = call.refresh
    <3>1. CallOK(c, surf)
      BY <1>1, Claims
    <3> QED BY <1>1, <3>1 DEF CallOK, Released, Calls
  <2>2. c.refresh + 1 \in 0 .. MaxRefreshes
    <3>1. call.refresh \in 0 .. MaxRefreshes
      BY <1>1 DEF Calls
    <3>2. call.refresh + 1 \in 0 .. MaxRefreshes
      BY <1>3, <3>1, Bounds
    <3> QED BY <2>1, <3>2
  <2> HIDE DEF c
  <2>3. /\ d \in Calls /\ d.st = c.st /\ d.cst = c.cst /\ d.tries = c.tries /\ d.pend = c.pend
        /\ d.cmd = c.cmd
    BY <2>1, <2>2 DEF Calls
  <2> HIDE DEF d
  <2>4. CallOK(d, surf)
    BY <2>1, <2>3, Touches
  <2>5. Last(d) /\ Stop(q)
    BY <1>3 DEF Defer, c, d
  <2> QED BY <1>1, <2>4, <2>5, StopStep, LedgerSteps
<1> QED BY <1>2, <1>3
-----------------------------------------------------------------------------
(* The continuation phase and _deliver                                     *)

LEMMA PickStep ==
    ASSUME IInv, NEW q \in Procs, Pick(q)
    PROVE  IInv'
<1>1. LedgerStep(q) /\ Aside /\ (Go(q, "picked") \/ Go(q, "recovering"))
  BY LedgerSteps, AsideSteps DEF Pick
<1> QED BY <1>1, PlainStep, PlainPcs

LEMMA ReconcileStep ==
    ASSUME IInv, NEW q \in Procs, Reconcile(q)
    PROVE  IInv'
<1> DEFINE i == call.pend
<1>1. Aside /\ call \in Calls /\ CallOK(call, surf) /\ QuestionsOK(hitl, surf) /\ i \in 0 .. MaxRounds
  BY AsideSteps, InPlace DEF Reconcile, Calls
<1>2. \/ Read(q) /\ (With(q, "finalizing", i, call) \/ With(q, "recovering", i, call))
      \/ /\ call.st = "input_required" /\ hitl[i].answered
         /\ Read(q) /\ (With(q, "fencing", i, call) \/ With(q, "marking", i, call))
      \/ Done(q) /\ Stop(q)
  BY DEF Reconcile
<1>3. CASE Read(q) /\ (With(q, "finalizing", i, call) \/ With(q, "recovering", i, call))
  BY <1>1, <1>3, LedgerSteps, PlainWithStep, PlainPcs
<1>4. CASE /\ call.st = "input_required" /\ hitl[i].answered
           /\ Read(q) /\ (With(q, "fencing", i, call) \/ With(q, "marking", i, call))
  <2>1. i # 0 /\ hitl[i].published
    BY <1>1, <1>4, Bounds DEF CallOK, QuestionsOK
  <2>2. \A pc \in {"fencing", "marking"} :
          PlaceOK(hitl, surf, pc, i, None) /\ CopyOK(call', pc) /\ pc \in Pcs
    BY <2>1, PlainPcs DEF PlaceOK, CopyOK, Answering, Cleared, Parkings
  <2>3. LedgerStep(q)
    BY <1>4, LedgerSteps
  <2> QED BY <1>1, <1>4, <2>2, <2>3, WithStep
<1>5. CASE Done(q) /\ Stop(q)
  BY <1>1, <1>5, LedgerSteps, StopStep
<1> QED BY <1>2, <1>3, <1>4, <1>5

LEMMA RecoverStep ==
    ASSUME IInv, NEW q \in Procs, Recover(q)
    PROVE  IInv'
<1> DEFINE c == Claimed(call, "continuation")
<1>1. Aside /\ call \in Calls /\ CallOK(call, surf) /\ CallOK(c, surf)
  BY AsideSteps, InPlace, Claims DEF Recover
<1>2. CASE ~RunBlocks /\ Terminal(call)
  BY <1>1, <1>2, LedgerSteps, PlainStep, PlainPcs DEF Recover
<1>3. CASE /\ Recoverable(call) /\ Write(q, c)
           /\ \E pc \in {"inspecting", "delivering"} : With(q, pc, call.cmd, call)
  <2>1. PICK pc \in {"inspecting", "delivering"} : With(q, pc, call.cmd, call)
    BY <1>3
  <2>2. call.cmd \in 0 .. MaxRounds /\ call.cmd # 0 /\ surf[call.cmd] = "shown"
    BY <1>1, <1>3 DEF Recoverable, CallOK, Calls
  <2>3. LedgerStep(q) /\ call' = c
    BY <1>1, <1>3, LedgerSteps
  <2>4. c.st = call.st /\ call.st \notin Asking
    BY <1>1, <1>3 DEF Claimed, Calls, Recoverable, Asking
  <2>5. CopyOK(call', pc)
    BY <2>1, <2>3, <2>4 DEF CopyOK
  <2>6. PlaceOK(hitl, surf, pc, call.cmd, None) /\ pc \in Pcs
    BY <2>2, PlainPcs DEF PlaceOK, Answering, Cleared, Parkings
  <2> QED BY <1>1, <2>1, <2>2, <2>3, <2>5, <2>6, WithStep
<1>4. CASE Done(q) /\ Stop(q)
  BY <1>1, <1>4, LedgerSteps, StopStep
<1> QED BY <1>2, <1>3, <1>4 DEF Recover

LEMMA DeliverBlockedStep ==
    ASSUME IInv, NEW q \in Procs, DeliverBlocked(q)
    PROVE  IInv'
<1>1. Aside /\ CallOK(Released(call, TRUE), surf)
  BY AsideSteps, Claims, InPlace DEF DeliverBlocked
<1> QED BY <1>1, LedgerSteps, StopStep DEF DeliverBlocked

\* q goes on to send the answer, with the mark of its copy.
LEMMA SendingMoves ==
    ASSUME IInv, NEW q \in Procs,
           proc' = [proc EXCEPT ![q].pc = "sending", ![q].mark = call.applied]
    PROVE  Moves(q, "sending", proc[q].on, proc[q].out)
<1> DEFINE m == [proc[q] EXCEPT !.pc = "sending", !.mark = call.applied]
<1>1. m \in Memory /\ m.pc = "sending" /\ m.on = proc[q].on /\ m.out = proc[q].out
  BY InPlace, PlainPcs DEF Memory, Calls, Cleared
<1>2. proc' = [proc EXCEPT ![q] = m]
  BY InPlace
<1> HIDE DEF m
<1> QED BY <1>1, <1>2, InPlace DEF Moves

LEMMA AttemptStep ==
    ASSUME IInv, NEW q \in Procs, Attempt(q)
    PROVE  IInv'
<1> DEFINE i == proc[q].on
           c == [call EXCEPT !.cst = "dispatching", !.tries = @ + 1]
<1>1. /\ Aside /\ call \in Calls /\ CallOK(call, surf)
      /\ PlaceOK(hitl, surf, "sending", i, proc[q].out)
  BY AsideSteps, InPlace DEF Attempt, At, PlaceOK, Answering, Cleared, Parkings
<1>2. CASE /\ q \in fresh /\ Write(q, c)
           /\ proc' = [proc EXCEPT ![q].pc = "sending", ![q].mark = call.applied]
  <2>1. call.st \notin Asking
    BY <1>2, InPlace DEF Attempt, At, CopyOK
  <2>2. /\ call.tries + 1 \in Nat
        /\ "dispatching" \in Continuations /\ "dispatching" \notin {None, "pending"}
    BY <1>1 DEF Calls, Continuations, None
  <2>3. /\ c \in Calls /\ c.st = call.st /\ c.cst = "dispatching" /\ c.pend = call.pend
        /\ c.cmd = call.cmd
    BY <1>1, <2>2 DEF Calls
  <2> HIDE DEF c
  <2>4. Moves(q, "sending", i, proc[q].out)
    BY <1>2, SendingMoves
  <2>5. CallOK(c, surf)
    BY <1>1, <2>1, <2>2, <2>3 DEF CallOK
  <2>6. LedgerStep(q) /\ CopyOK(call', "sending")
    BY <1>2, <2>5, LedgerSteps DEF CopyOK
  <2> QED BY <1>1, <2>4, <2>6, QuietStep DEF Aside
<1> HIDE DEF c
<1>3. \/ /\ q \in fresh /\ Write(q, c)
         /\ proc' = [proc EXCEPT ![q].pc = "sending", ![q].mark = call.applied]
      \/ Done(q) /\ Stop(q)
      \/ Yield(q)
  BY DEF Attempt, Owns, c
<1> QED BY <1>1, <1>2, <1>3, YieldStep, StopStep, LedgerSteps

LEMMA AgentGoesOn ==
    ASSUME NEW b, NEW s, AgentOK(b, s)
    PROVE  \A a \in AgentMoves(b) : AgentOK(a, s)
<1>1. /\ b \in [asks : 0 .. MaxRounds, last : Rounds, got : [Rounds -> Nat], done : BOOLEAN]
      /\ MaxRounds \in Nat
  BY Bounds DEF AgentOK
<1>2. /\ AgentOK([b EXCEPT !.done = TRUE, !.asks = 0], s)
      /\ AgentOK([b EXCEPT !.asks = 0], s)
  <2>1. 0 \in 0 .. MaxRounds
    BY <1>1
  <2>2. AgentOK([b EXCEPT !.asks = 0], s)
    BY <1>1, <2>1 DEF AgentOK
  <2>3. AgentOK([b EXCEPT !.done = TRUE, !.asks = 0], s)
    BY <1>1, <2>1 DEF AgentOK
  <2> QED BY <2>2, <2>3
<1>3. ASSUME b.last < MaxRounds
      PROVE  AgentOK([b EXCEPT !.asks = b.last + 1, !.last = @ + 1], s)
  <2>1. b.last + 1 \in Rounds /\ b.last + 1 \in 0 .. MaxRounds
    BY <1>1, <1>3 DEF Rounds
  <2> QED BY <1>1, <2>1 DEF AgentOK
<1> QED BY <1>2, <1>3 DEF AgentMoves

LEMMA AgentHears ==
    ASSUME AgentOK(agent, surf), NEW i \in Rounds, surf[i] = "shown"
    PROVE  AgentOK(Hearing(i), surf)
<1> DEFINE g == [agent.got EXCEPT ![i] = @ + 1]
<1>1. g \in [Rounds -> Nat] /\ \A j \in Rounds : j # i => g[j] = agent.got[j]
  BY DEF AgentOK
<1>2. Hearing(i) = [agent EXCEPT !.got = g]
  BY DEF Hearing, AgentOK
<1> HIDE DEF g
<1> QED BY <1>1, <1>2 DEF AgentOK

\* What the Agent says is put on record, and q turns to it.
LEMMA Receives ==
    ASSUME IInv, NEW q \in Procs, NEW a, a.asks \in 0 .. MaxRounds, NEW k,
           Receipt(q, a, k) \/ RecordVerdict(q, "failed")
    PROVE  /\ InboxOK(asked', ended')
           /\ \E pc, on, out : /\ Moves(q, pc, on, out)
                               /\ \A h, s, c : PlaceOK(h, s, pc, on, out) /\ CopyOK(c, pc)
<1>1. \A on, out, h, s, c : on # 0 => PlaceOK(h, s, "parking", on, out) /\ CopyOK(c, "parking")
  BY DEF PlaceOK, CopyOK, Answering, Cleared, Parkings
<1>2. \A on, out, h, s, c : out # None => PlaceOK(h, s, "verdict", on, out) /\ CopyOK(c, "verdict")
  BY DEF PlaceOK, CopyOK, Answering, Cleared, Parkings
<1>3. CASE \E v \in Verdicts : RecordVerdict(q, v)
  <2>1. PICK v \in Verdicts : RecordVerdict(q, v)
    BY <1>3
  <2>2. v # None
    BY DEF Verdicts, None
  <2> QED BY <1>2, <2>1, <2>2, RecordMoves
<1>4. CASE a.asks # 0 /\ RecordQuestion(q, a.asks)
  BY <1>1, <1>4, RecordMoves
<1>5. CASE UNCHANGED inbox /\ Go(q, "accepting")
  <2>1. InboxOK(asked', ended')
    BY <1>5 DEF IInv, inbox
  <2>2. Moves(q, "accepting", proc[q].on, proc[q].out)
    BY <1>5, GoMoves, PlainPcs
  <2>3. \A h, s, c : PlaceOK(h, s, "accepting", proc[q].on, proc[q].out) /\ CopyOK(c, "accepting")
    BY PlainPlace, PlainPcs
  <2> QED BY <2>1, <2>2, <2>3
<1> QED BY <1>3, <1>4, <1>5 DEF Receipt, Verdicts

LEMMA SendStep ==
    ASSUME IInv, NEW q \in Procs, Send(q)
    PROVE  IInv'
<1> DEFINE i == proc[q].on
<1>1. i \in Rounds /\ surf[i] = "shown"
  BY InPlace DEF Send, At, PlaceOK, Cleared
<1>2. AgentOK(Hearing(i), surf)
  BY <1>1, AgentHears DEF IInv
<1>3. PICK a \in AgentMoves(Hearing(i)) : agent' = a /\ (Receipt(q, a, proc[q].mark) \/ RecordVerdict(q, "failed"))
  BY DEF Send, On
<1>4. AgentOK(a, surf) /\ a.asks \in 0 .. MaxRounds
  <2>1. AgentOK(a, surf)
    BY <1>2, AgentGoesOn
  <2> QED BY <2>1 DEF AgentOK
<1>5. PICK pc, on, out : /\ Moves(q, pc, on, out)
                         /\ \A h, s, c : PlaceOK(h, s, pc, on, out) /\ CopyOK(c, pc)
  BY <1>3, <1>4, Receives
<1>6. InboxOK(asked', ended')
  BY <1>3, <1>4, Receives
<1>7. /\ LedgerStep(q) /\ QuestionsOK(hitl', surf) /\ Onward(hitl, hitl') /\ RunOK(run', entry')
      /\ UNCHANGED <<surf, events>>
  BY LedgerSteps DEF Send, runVars, IInv, Onward
<1> QED BY <1>3, <1>4, <1>5, <1>6, <1>7, ProcessStep

LEMMA SendLostStep ==
    ASSUME IInv, NEW q \in Procs, SendLost(q)
    PROVE  IInv'
<1> DEFINE i == proc[q].on
<1>1. i \in Rounds /\ surf[i] = "shown"
  BY InPlace DEF SendLost, At, PlaceOK, Cleared
<1>2. AgentOK(Hearing(i), surf) /\ AgentOK(agent, surf)
  BY <1>1, AgentHears DEF IInv
<1>3. AgentOK(agent', surf)
  BY <1>2, AgentGoesOn DEF SendLost, On
<1>4. Moves(q, "uncertain", i, proc[q].out)
  BY GoMoves, PlainPcs DEF SendLost
<1>5. PlaceOK(hitl', surf, "uncertain", i, proc[q].out) /\ CopyOK(call', "uncertain")
  BY PlainPlace, PlainPcs
<1>6. /\ LedgerStep(q) /\ QuestionsOK(hitl', surf) /\ Onward(hitl, hitl') /\ RunOK(run', entry')
      /\ InboxOK(asked', ended') /\ UNCHANGED surf /\ (Event \/ UNCHANGED events)
  BY LedgerSteps DEF SendLost, runVars, inbox, IInv, Onward
<1> QED BY <1>3, <1>4, <1>5, <1>6, ProcessStep

LEMMA SendFailsStep ==
    ASSUME IInv, NEW q \in Procs, SendFails(q)
    PROVE  IInv'
<1>1. LedgerStep(q) /\ Aside /\ \E pc \in {"retrying", "contract"} : Go(q, pc)
  BY LedgerSteps, AsideSteps DEF SendFails
<1> QED BY <1>1, PlainStep, PlainPcs

LEMMA InspectStep ==
    ASSUME IInv, NEW q \in Procs, Inspect(q)
    PROVE  IInv'
<1> DEFINE c == [call EXCEPT !.cst = "delivery_uncertain", !.tries = @ + 1]
<1>1. /\ call \in Calls /\ CallOK(call, surf) /\ UNCHANGED <<hitl, run, entry, surf, agent>>
      /\ QuestionsOK(hitl', surf) /\ Onward(hitl, hitl') /\ RunOK(run', entry')
      /\ AgentOK(agent', surf)
  BY InPlace DEF Inspect, runVars, IInv, Onward
<1>2. agent.asks \in 0 .. MaxRounds
  BY <1>1 DEF AgentOK
<1>3. CASE RecordVerdict(q, "expired") /\ UNCHANGED <<ledger, events>>
  <2>1. Moves(q, "verdict", proc[q].on, "expired") /\ InboxOK(asked', ended')
    BY <1>3, RecordMoves DEF Verdicts
  <2>2. PlaceOK(hitl', surf, "verdict", proc[q].on, "expired") /\ CopyOK(call', "verdict")
    BY DEF PlaceOK, CopyOK, Answering, Cleared, Parkings, None
  <2>3. LedgerStep(q)
    BY <1>3, LedgerSteps
  <2> QED BY <1>1, <1>3, <2>1, <2>2, <2>3, ProcessStep
<1>4. CASE q \in fresh /\ ~Exhausted(call) /\ Write(q, c)
  <2>1. call.st \notin Asking
    BY <1>4, InPlace DEF Inspect, At, CopyOK
  <2>2. call.tries + 1 \in Nat
    BY <1>1 DEF Calls
  <2>3. "delivery_uncertain" \in Continuations /\ "delivery_uncertain" \notin {None, "pending"}
    BY DEF Continuations, None
  <2>4. /\ c \in Calls /\ c.st = call.st /\ c.cst = "delivery_uncertain" /\ c.pend = call.pend
        /\ c.cmd = call.cmd
    BY <1>1, <2>2, <2>3 DEF Calls
  <2> HIDE DEF c
  <2>5. CallOK(c, surf)
    BY <1>1, <2>1, <2>3, <2>4 DEF CallOK
  <2>6. LedgerStep(q)
    BY <1>4, <2>5, LedgerSteps
  <2>7. CASE Receipt(q, agent, call.applied) /\ UNCHANGED events
    <3>1. PICK pc, on, out : /\ Moves(q, pc, on, out)
                             /\ \A h, s, d : PlaceOK(h, s, pc, on, out) /\ CopyOK(d, pc)
      BY <1>2, <2>7, Receives
    <3>2. InboxOK(asked', ended')
      BY <1>2, <2>7, Receives
    <3> QED BY <1>1, <2>6, <2>7, <3>1, <3>2, ProcessStep
  <2>8. CASE UNCHANGED inbox /\ (Event \/ UNCHANGED events)
             /\ \E pc \in {"uncertain", "contract"} : Go(q, pc)
    <3>1. Aside
      BY <1>1, <2>8 DEF Aside, inbox
    <3> QED BY <2>6, <2>8, <3>1, PlainStep, PlainPcs
  <2> QED BY <1>4, <2>7, <2>8 DEF Inspect, inbox, ledger, Yield, GiveUp
<1>5. CASE Yield(q) /\ UNCHANGED <<inbox, events>>
  <2>1. Aside
    BY <1>1, <1>5 DEF Aside, inbox
  <2> QED BY <1>5, <2>1, YieldStep
<1> QED BY <1>3, <1>4, <1>5 DEF Inspect
-----------------------------------------------------------------------------
(* What the coordinator makes of the receipt                               *)

LEMMA MarkUncertainStep ==
    ASSUME IInv, NEW q \in Procs, MarkUncertain(q)
    PROVE  IInv'
<1> DEFINE c == Released(call, FALSE)
           st == IF c.st = "resuming" THEN "delivery_uncertain" ELSE c.st
           d == [c EXCEPT !.cst = "delivery_uncertain", !.st = st]
<1>1. Aside /\ CallOK(c, surf) /\ c \in Calls
  <2>1. CallOK(c, surf)
    BY InPlace, Claims
  <2> QED BY <2>1, AsideSteps DEF CallOK, MarkUncertain
<1>2. [c EXCEPT !.cst = "delivery_uncertain",
                !.st = IF @ = "resuming" THEN "delivery_uncertain" ELSE @] = d
  BY <1>1 DEF Calls
<1> HIDE DEF c
<1>3. st \in CallStates /\ (st = c.st \/ st \notin Asking)
      /\ "delivery_uncertain" \in Continuations /\ "delivery_uncertain" \notin {None, "pending"}
  BY <1>1 DEF Calls, CallStates, LiveCallStates, Asking, Continuations, None
<1> HIDE DEF st
<1>4. /\ d \in Calls /\ d.st = st /\ d.cst = "delivery_uncertain" /\ d.tries = c.tries
      /\ d.pend = c.pend /\ d.cmd = c.cmd
  BY <1>1, <1>3 DEF Calls
<1>5. st = "input_required" => c.st = "input_required"
  BY DEF st
<1> HIDE DEF d
<1>6. CallOK(d, surf)
  BY <1>1, <1>3, <1>4, <1>5 DEF CallOK
<1>7. (Last(d) /\ Stop(q)) \/ Yield(q)
  BY <1>2 DEF MarkUncertain, c
<1> QED BY <1>1, <1>6, <1>7, StopStep, LedgerSteps, YieldStep

LEMMA FailsStep ==
    ASSUME IInv, NEW q \in Procs, Aside, Fail(q) \/ Raises(q, "failed") \/ Yield(q)
    PROVE  IInv'
BY FailStep, PlainPcs, RaisesStep, YieldStep DEF Fail, Verdicts

LEMMA RetrySafeStep ==
    ASSUME IInv, NEW q \in Procs, RetrySafe(q)
    PROVE  IInv'
<1> DEFINE c == Released(call, FALSE)
           d == [c EXCEPT !.cst = "pending"]
<1>1. Aside
  BY AsideSteps DEF RetrySafe
<1>2. CASE call.tries < MaxTransportAttempts /\ Last(d) /\ Stop(q)
  <2>1. CallOK(c, surf) /\ c \in Calls /\ c.tries = call.tries
    <3>1. CallOK(c, surf)
      BY InPlace, Claims
    <3> QED BY <3>1, InPlace DEF CallOK, Released, Calls
  <2>2. c.tries < MaxTransportAttempts
    BY <1>2, <2>1
  <2> HIDE DEF c
  <2>3. /\ d \in Calls /\ d.st = c.st /\ d.cst = "pending" /\ d.tries = c.tries
        /\ d.pend = c.pend /\ d.cmd = c.cmd
    BY <2>1 DEF Calls, Continuations
  <2> HIDE DEF d
  <2>4. CallOK(d, surf)
    BY <2>1, <2>2, <2>3 DEF CallOK
  <2> QED BY <1>1, <1>2, <2>4, StopStep, LedgerSteps
<1> HIDE DEF c, d
<1>3. \/ call.tries < MaxTransportAttempts /\ Last(d) /\ Stop(q)
      \/ Fail(q) \/ Raises(q, "failed") \/ Yield(q)
  BY DEF RetrySafe, c, d
<1> QED BY <1>1, <1>2, <1>3, FailsStep

LEMMA ContractStep ==
    ASSUME IInv, NEW q \in Procs, Contract(q)
    PROVE  IInv'
BY FailsStep, AsideSteps DEF Contract

LEMMA AcceptStep ==
    ASSUME IInv, NEW q \in Procs, Accept(q)
    PROVE  IInv'
<1> DEFINE c == Released(call, FALSE)
           d == [c EXCEPT !.st = "working", !.cst = "accepted", !.tries = 0]
<1>1. Aside /\ CallOK(c, surf) /\ c \in Calls
  <2>1. CallOK(c, surf)
    BY InPlace, Claims
  <2> QED BY <2>1, AsideSteps DEF CallOK, Accept
<1> HIDE DEF c
<1>2. /\ "working" \in CallStates /\ "working" \notin Asking /\ "accepted" \in Continuations
      /\ "accepted" \notin {None, "pending"}
      /\ 0 \in Nat
  BY DEF CallStates, LiveCallStates, Asking, Continuations, None
<1>3. /\ d \in Calls /\ d.st = "working" /\ d.cst = "accepted" /\ d.tries = 0
      /\ d.pend = c.pend /\ d.cmd = c.cmd
  BY <1>1, <1>2 DEF Calls
<1> HIDE DEF d
<1>4. CallOK(d, surf)
  BY <1>1, <1>2, <1>3 DEF CallOK
<1>5. (Last(d) /\ Stop(q)) \/ Yield(q)
  BY DEF Accept, c, d
<1> QED BY <1>1, <1>4, <1>5, StopStep, LedgerSteps, YieldStep

LEMMA ConcludeStep ==
    ASSUME IInv, NEW x \in Procs, Conclude(x)
    PROVE  IInv'
<1> DEFINE v == proc[x].out
<1>1. v \in Verdicts /\ Aside /\ CallOK(Ended(call, v), surf)
  <2>1. v \in Verdicts
    BY InPlace DEF Conclude, At, PlaceOK
  <2> QED BY <2>1, InPlace, AsideSteps, Ends DEF Conclude
<1>2. CASE Last(Ended(call, v)) /\ Stop(x)
  BY <1>1, <1>2, StopStep, LedgerSteps
<1>3. CASE Last(Ended(call, v)) /\ Go(x, "finalizing")
  BY <1>1, <1>3, FailStep, PlainPcs
<1>4. CASE Go(x, "uncertain") /\ UNCHANGED ledger
  BY <1>1, <1>4, PlainStep, PlainPcs, LedgerSteps
<1> QED BY <1>1, <1>2, <1>3, <1>4, YieldStep DEF Conclude

\* A step that may also change the questions and the inbox, after which the
\* process stops.
LEMMA StopsStep ==
    ASSUME IInv, NEW p \in Procs, Stop(p), LedgerStep(p), UNCHANGED <<surf, agent>>,
           Kept(hitl, hitl'), InboxOK(asked', ended'), RunOK(run', entry'),
           Event \/ UNCHANGED events
    PROVE  IInv'
<1>1. Moves(p, "idle", 0, None) /\ PlaceOK(hitl', surf, "idle", 0, None) /\ CopyOK(call', "idle")
  BY StopMoves
<1>2. QuestionsOK(hitl', surf) /\ Onward(hitl, hitl')
  BY KeptQuestions, InPlace
<1>3. AgentOK(agent', surf)
  BY DEF IInv
<1> QED BY <1>1, <1>2, <1>3, ProcessStep

\* The same of a step after which the process goes on.
LEMMA GoesStep ==
    ASSUME IInv, NEW p \in Procs, NEW pc \in Pcs, Go(p, pc), LedgerStep(p), UNCHANGED <<surf, agent>>,
           Kept(hitl, hitl'), InboxOK(asked', ended'), RunOK(run', entry'),
           Event \/ UNCHANGED events, p \in fresh' => CopyOK(call', pc),
           PlaceOK(hitl', surf, pc, proc[p].on, proc[p].out)
    PROVE  IInv'
<1>1. Moves(p, pc, proc[p].on, proc[p].out)
  BY GoMoves
<1>2. QuestionsOK(hitl', surf) /\ Onward(hitl, hitl')
  BY KeptQuestions, InPlace
<1>3. AgentOK(agent', surf)
  BY DEF IInv
<1> QED BY <1>1, <1>2, <1>3, ProcessStep

\* What most of these steps leave alone.
LEMMA Rest ==
    ASSUME IInv
    PROVE  /\ UNCHANGED inbox => InboxOK(asked', ended')
           /\ \A i \in Rounds : asked' = Finished(asked, i) /\ UNCHANGED ended => InboxOK(asked', ended')
           /\ \A v \in Verdicts : ended' = Finished(ended, v) /\ UNCHANGED asked => InboxOK(asked', ended')
           /\ UNCHANGED <<run, entry>> => RunOK(run', entry')
           /\ UNCHANGED hitl => Kept(hitl, hitl')
           /\ ClosePending => Kept(hitl, hitl')
           /\ \A i : Dismiss(i) => Kept(hitl, hitl')
<1>1. QuestionsOK(hitl, surf) /\ InboxOK(asked, ended)
  BY DEF IInv
<1>2. /\ \A i \in Rounds : Finished(asked, i) \in [Rounds -> RowStates]
      /\ \A v \in Verdicts : Finished(ended, v) \in [Verdicts -> RowStates]
  BY <1>1 DEF InboxOK, Finished, RowStates
<1> QED BY <1>1, <1>2, Changes DEF IInv, inbox, InboxOK, ClosePending, Dismiss

LEMMA FinalizeStep ==
    ASSUME IInv, NEW q \in Procs, Finalize(q)
    PROVE  IInv'
BY StopsStep, Rest, LedgerSteps DEF Finalize, runVars
-----------------------------------------------------------------------------
(* Parking and call recovery                                               *)

\* Another has parked the call on the question of x.
LEMMA ForestalledStep ==
    ASSUME IInv, NEW x \in Procs, proc[x].on # 0, Forestalled(x),
           UNCHANGED <<surf, agent, events>>, Kept(hitl, hitl'),
           InboxOK(asked', ended'), RunOK(run', entry')
    PROVE  IInv'
<1>1. /\ PlaceOK(hitl', surf, "superseding", proc[x].on, proc[x].out)
      /\ CopyOK(call', "superseding") /\ "superseding" \in Pcs
  BY PlainPcs DEF PlaceOK, CopyOK, Answering, Cleared, Parkings
<1>2. LedgerStep(x) /\ Go(x, "superseding")
  BY LedgerSteps DEF Forestalled
<1> QED BY <1>1, <1>2, GoesStep

LEMMA ParkStep ==
    ASSUME IInv, NEW x \in Procs, Park(x)
    PROVE  IInv'
<1> DEFINE i == proc[x].on
           c == Released(Asked(call, i), TRUE)
<1>1. i \in Rounds /\ i # 0 /\ Aside
  BY InPlace, AsideSteps DEF Park, At, PlaceOK, Parkings
<1>2. CallOK(c, surf) /\ c.st = "continuation_pending"
  BY <1>1, Asks, InPlace
<1> HIDE DEF c
<1>3. CASE Write(x, c) /\ Go(x, "attaching")
  <2>1. LedgerStep(x) /\ CopyOK(call', "attaching")
    BY <1>2, <1>3, LedgerSteps DEF CopyOK
  <2>2. PlaceOK(hitl, surf, "attaching", i, proc[x].out) /\ "attaching" \in Pcs
    BY <1>1, PlainPcs DEF PlaceOK, Answering, Cleared, Parkings
  <2> QED BY <1>1, <1>3, <2>1, <2>2, GoStep
<1>4. CASE Stop(x) /\ Done(x)
  BY <1>1, <1>4, StopStep, LedgerSteps
<1>5. CASE Forestalled(x)
  <2>1. /\ Kept(hitl, hitl') /\ InboxOK(asked', ended') /\ RunOK(run', entry')
        /\ UNCHANGED <<surf, agent, events>>
    BY Rest DEF Park, runVars
  <2> QED BY <1>1, <1>5, <2>1, ForestalledStep
<1> QED BY <1>1, <1>3, <1>4, <1>5, YieldStep DEF Park, On, c

\* The call waits for question i, and x goes on to activate it.
LEMMA AttachStep ==
    ASSUME IInv, NEW x \in Procs, NEW pc \in {"activating", "procActivating"},
           proc[x].on # 0, x \in fresh, call.st = "continuation_pending",
           Write(x, Attached(call, proc[x].on)), Go(x, pc),
           hitl' = [hitl EXCEPT ![proc[x].on].made = TRUE],
           UNCHANGED <<asked, ended, run, entry, surf, agent, events>>
    PROVE  IInv'
<1> DEFINE i == proc[x].on
<1>1. i \in Rounds /\ i # 0 /\ CallOK(call, surf)
  BY InPlace
<1>2. CallOK(Attached(call, i), surf)
  BY <1>1, Asks
<1>3. LedgerStep(x)
  BY <1>2, LedgerSteps
<1>4. Kept(hitl, hitl') /\ InboxOK(asked', ended') /\ RunOK(run', entry')
  BY <1>1, Changes, InPlace, Rest DEF inbox
<1>5. PlaceOK(hitl', surf, pc, i, proc[x].out) /\ CopyOK(call', pc) /\ pc \in Pcs
  BY <1>1, PlainPcs DEF PlaceOK, CopyOK, Answering, Cleared, Parkings
<1> QED BY <1>3, <1>4, <1>5, GoesStep

LEMMA ParkAttachStep ==
    ASSUME IInv, NEW x \in Procs, ParkAttach(x)
    PROVE  IInv'
<1> DEFINE i == proc[x].on
<1>1. i \in Rounds /\ i # 0 /\ (x \in fresh => call.st = "continuation_pending")
  BY InPlace DEF ParkAttach, At, PlaceOK, CopyOK, Parkings
<1>2. /\ hitl' = [hitl EXCEPT ![i].made = TRUE]
      /\ UNCHANGED <<asked, ended, run, entry, surf, agent, events>>
  BY DEF ParkAttach, On, inbox, runVars
<1>3. CASE x \in fresh /\ Write(x, Attached(call, i)) /\ Go(x, "activating")
  BY <1>1, <1>2, <1>3, AttachStep
<1>4. Kept(hitl, hitl') /\ InboxOK(asked', ended') /\ RunOK(run', entry')
  BY <1>1, <1>2, Changes, InPlace, Rest DEF inbox
<1>5. CASE GiveUp(x)
  <2>1. Stop(x) /\ LedgerStep(x)
    BY <1>5, LedgerSteps DEF GiveUp
  <2> QED BY <1>2, <1>4, <2>1, StopsStep
<1>6. CASE Read(x) /\ Go(x, "finalizing")
  <2>1. LedgerStep(x) /\ "finalizing" \in Pcs
    BY <1>6, LedgerSteps, PlainPcs
  <2>2. PlaceOK(hitl', surf, "finalizing", i, proc[x].out) /\ CopyOK(call', "finalizing")
    BY PlainPlace, PlainPcs
  <2> QED BY <1>2, <1>4, <1>6, <2>1, <2>2, GoesStep
<1>7. CASE Forestalled(x)
  BY <1>1, <1>2, <1>4, <1>7, ForestalledStep
<1> QED BY <1>3, <1>5, <1>6, <1>7 DEF ParkAttach, Yield, On

LEMMA ParkActivateStep ==
    ASSUME IInv, NEW x \in Procs, ParkActivate(x)
    PROVE  IInv'
<1> DEFINE i == proc[x].on
           b == hitl[i].eligible \/ ~hitl[i].closed
<1>1. i \in Rounds /\ i # 0 /\ QuestionsOK(hitl, surf)
  BY InPlace DEF ParkActivate, At, PlaceOK, Parkings
<1>2. hitl' = [hitl EXCEPT ![i].eligible = b] /\ b \in BOOLEAN
  BY <1>1 DEF ParkActivate, On, QuestionsOK
<1> HIDE DEF b
<1>3. /\ Kept(hitl, hitl') /\ InboxOK(asked', ended') /\ RunOK(run', entry')
      /\ UNCHANGED <<surf, agent, events>> /\ LedgerStep(x)
  <2>1. Kept(hitl, hitl')
    BY <1>1, <1>2, Changes
  <2>2. Done(x) /\ UNCHANGED <<inbox, run, entry, surf, agent, events>>
    BY DEF ParkActivate, runVars
  <2> QED BY <2>1, <2>2, Rest, LedgerSteps
<1>4. CASE Stop(x)
  BY <1>3, <1>4, StopsStep
<1>5. CASE Go(x, "superseding")
  <2>1. /\ PlaceOK(hitl', surf, "superseding", i, proc[x].out) /\ CopyOK(call', "superseding")
        /\ "superseding" \in Pcs
    BY <1>1, PlainPcs DEF PlaceOK, CopyOK, Answering, Cleared, Parkings
  <2> QED BY <1>3, <1>5, <2>1, GoesStep
<1> QED BY <1>4, <1>5 DEF ParkActivate

LEMMA SupersedeStep ==
    ASSUME IInv, NEW q \in Procs, Supersede(q)
    PROVE  IInv'
<1>1. /\ Kept(hitl, hitl') /\ InboxOK(asked', ended') /\ RunOK(run', entry')
      /\ UNCHANGED <<surf, agent, events>> /\ LedgerStep(q) /\ Stop(q)
  BY Changes, InPlace, Rest, LedgerSteps DEF Supersede, runVars
<1> QED BY <1>1, StopsStep

LEMMA PollClaimStep ==
    ASSUME IInv, NEW r \in Procs, PollClaim(r)
    PROVE  IInv'
<1>1. CallOK(Claimed(call, "recovery"), surf) /\ Aside
  BY Claims, InPlace, AsideSteps DEF PollClaim
<1>2. LedgerStep(r) /\ \E pc \in {"polling", "postponing"} : Go(r, pc)
  BY <1>1, LedgerSteps DEF PollClaim
<1> QED BY <1>1, <1>2, PlainStep, PlainPcs

LEMMA PostponeStep ==
    ASSUME IInv, NEW r \in Procs, Postpone(r)
    PROVE  IInv'
<1>1. CallOK(Released(call, FALSE), surf) /\ Aside
  BY Claims, InPlace, AsideSteps DEF Postpone
<1> QED BY <1>1, LedgerSteps, StopStep DEF Postpone

LEMMA PollStep ==
    ASSUME IInv, NEW r \in Procs, Poll(r)
    PROVE  IInv'
<1>1. /\ LedgerStep(r) /\ Kept(hitl, hitl') /\ UNCHANGED <<hitl, run, entry, surf, agent>>
      /\ QuestionsOK(hitl', surf) /\ Onward(hitl, hitl') /\ RunOK(run', entry')
      /\ AgentOK(agent', surf) /\ (Event \/ UNCHANGED events) /\ agent.asks \in 0 .. MaxRounds
  BY LedgerSteps, Rest DEF Poll, runVars, IInv, Onward, AgentOK
<1>2. CASE UNCHANGED inbox /\ Go(r, "postponing")
  <2>1. Aside
    BY <1>1, <1>2 DEF Aside, inbox
  <2> QED BY <1>1, <1>2, <2>1, PlainStep, PlainPcs
<1>3. CASE \E v \in {"expired", "completed"} : RecordVerdict(r, v)
  <2>1. PICK v \in {"expired", "completed"} : RecordVerdict(r, v)
    BY <1>3
  <2>2. Moves(r, "verdict", proc[r].on, v) /\ InboxOK(asked', ended')
    BY <2>1, RecordMoves DEF Verdicts
  <2>3. PlaceOK(hitl', surf, "verdict", proc[r].on, v) /\ CopyOK(call', "verdict")
    BY DEF PlaceOK, CopyOK, Answering, Cleared, Parkings, None
  <2> QED BY <1>1, <2>2, <2>3, ProcessStep
<1>4. CASE agent.asks # 0 /\ RecordQuestion(r, agent.asks)
  <2>1. Moves(r, "parking", agent.asks, proc[r].out) /\ InboxOK(asked', ended')
    BY <1>1, <1>4, RecordMoves
  <2>2. PlaceOK(hitl', surf, "parking", agent.asks, proc[r].out) /\ CopyOK(call', "parking")
    BY <1>4 DEF PlaceOK, CopyOK, Answering, Cleared, Parkings
  <2> QED BY <1>1, <2>1, <2>2, ProcessStep
<1> QED BY <1>2, <1>3, <1>4 DEF Poll
-----------------------------------------------------------------------------
(* Observation processors                                                  *)

\* A row is settled without a process that goes on.
LEMMA RowStep ==
    ASSUME IInv, UNCHANGED <<call, fresh, proc, run, entry, surf, agent, events>>,
           Kept(hitl, hitl'), InboxOK(asked', ended')
    PROVE  IInv'
<1>1. QuestionsOK(hitl', surf') /\ Onward(hitl, hitl')
  BY KeptQuestions DEF IInv
<1>2. \A q \in Procs : PlaceOK(hitl', surf', proc'[q].pc, proc'[q].on, proc'[q].out)
  BY <1>1, PlaceKept, InPlace
<1>3. \A q \in fresh' : CopyOK(call', proc'[q].pc)
  BY DEF IInv
<1> QED BY <1>1, <1>2, <1>3 DEF IInv

\* A processor takes a row up.
LEMMA TookStep ==
    ASSUME IInv, NEW p \in Procs, NEW pc \in {"applying", "telling", "procActivating"},
           NEW i \in 0 .. MaxRounds, NEW v \in Verdicts \cup {None}, Took(p, pc, i, v),
           i # 0 \/ (v # None /\ pc # "procActivating"),
           Kept(hitl, hitl'), UNCHANGED <<asked, ended, run, entry, surf, agent, events>>
    PROVE  IInv'
<1>1. Moves(p, pc, i, v) /\ LedgerStep(p)
  BY TookMoves, PlainPcs DEF Parkings
<1>2. PlaceOK(hitl', surf, pc, i, v) /\ CopyOK(call', pc)
  BY DEF PlaceOK, CopyOK, Answering, Cleared, Parkings
<1>3. QuestionsOK(hitl', surf) /\ Onward(hitl, hitl')
  BY KeptQuestions, InPlace
<1>4. AgentOK(agent', surf) /\ InboxOK(asked', ended') /\ RunOK(run', entry')
  BY DEF IInv
<1> QED BY <1>1, <1>2, <1>3, <1>4, ProcessStep

LEMMA ObserveQuestionStep ==
    ASSUME IInv, NEW p \in Procs, ObserveQuestion(p)
    PROVE  IInv'
<1>1. UNCHANGED <<ended, run, entry, surf, agent, events>>
  BY DEF ObserveQuestion, runVars
<1>2. PICK i \in Rounds :
        \/ ClosePending /\ asked' = Finished(asked, i) /\ UNCHANGED <<ledger, proc>>
        \/ Dismiss(i) /\ UNCHANGED <<ledger, proc>>
        \/ asked' = Finished(asked, i) /\ UNCHANGED <<ledger, hitl, proc>>
        \/ /\ Took(p, "procActivating", i, None) \/ Took(p, "applying", i, None)
           /\ UNCHANGED <<hitl, asked>>
  BY DEF ObserveQuestion
<1>3. CASE /\ Took(p, "procActivating", i, None) \/ Took(p, "applying", i, None)
           /\ UNCHANGED <<hitl, asked>>
  <2>1. i \in 0 .. MaxRounds /\ i # 0 /\ Kept(hitl, hitl')
    BY <1>3, Bounds, Rest
  <2> QED BY <1>1, <1>3, <2>1, TookStep
<1>4. CASE /\ ClosePending \/ Dismiss(i) \/ UNCHANGED hitl
           /\ asked' = Finished(asked, i) /\ UNCHANGED <<ledger, proc>>
  <2>1. Kept(hitl, hitl') /\ InboxOK(asked', ended')
    BY <1>1, <1>4, Rest
  <2> QED BY <1>1, <1>4, <2>1, RowStep DEF ledger
<1> QED BY <1>2, <1>3, <1>4 DEF Dismiss

LEMMA ObserveVerdictStep ==
    ASSUME IInv, NEW p \in Procs, ObserveVerdict(p)
    PROVE  IInv'
<1>1. UNCHANGED <<asked, run, entry, surf, agent, events>>
  BY DEF ObserveVerdict, runVars
<1>2. PICK v \in Verdicts :
        \/ ClosePending /\ ended' = Finished(ended, v) /\ UNCHANGED <<ledger, proc>>
        \/ /\ Took(p, "telling", 0, v) \/ Took(p, "applying", 0, v)
           /\ ClosePending \/ UNCHANGED hitl
           /\ UNCHANGED ended
  BY DEF ObserveVerdict
<1>3. CASE /\ Took(p, "telling", 0, v) \/ Took(p, "applying", 0, v)
           /\ ClosePending \/ UNCHANGED hitl
           /\ UNCHANGED ended
  <2>1. v # None /\ 0 \in 0 .. MaxRounds /\ Kept(hitl, hitl')
    BY <1>3, Bounds, Rest DEF Verdicts, None
  <2> QED BY <1>1, <1>3, <2>1, TookStep
<1>4. CASE ClosePending /\ ended' = Finished(ended, v) /\ UNCHANGED <<ledger, proc>>
  <2>1. Kept(hitl, hitl') /\ InboxOK(asked', ended')
    BY <1>1, <1>4, Rest
  <2> QED BY <1>1, <1>4, <2>1, RowStep DEF ledger
<1> QED BY <1>2, <1>3, <1>4

LEMMA ProcApplyStep ==
    ASSUME IInv, NEW p \in Procs, ProcApply(p)
    PROVE  IInv'
<1> DEFINE i == proc[p].on
           v == proc[p].out
<1>1. /\ i \in 0 .. MaxRounds /\ (i # 0 => i \in Rounds) /\ (i # 0 \/ v \in Verdicts)
      /\ CallOK(call, surf) /\ UNCHANGED <<ended, run, entry, surf, agent, events>>
      /\ RunOK(run', entry')
  BY InPlace, Rest DEF ProcApply, At, PlaceOK, runVars
<1>2. CASE /\ i # 0 /\ Write(p, Asked(call, i)) /\ Go(p, "procAttaching")
           /\ UNCHANGED <<hitl, asked>>
  <2>1. CallOK(Asked(call, i), surf) /\ Asked(call, i).st = "continuation_pending"
    BY <1>1, <1>2, Asks
  <2>2. LedgerStep(p) /\ CopyOK(call', "procAttaching")
    BY <1>2, <2>1, LedgerSteps DEF CopyOK
  <2>3. PlaceOK(hitl', surf, "procAttaching", i, v) /\ "procAttaching" \in Pcs
    BY <1>2, PlainPcs DEF PlaceOK, Answering, Cleared, Parkings
  <2>4. Kept(hitl, hitl') /\ InboxOK(asked', ended')
    BY <1>1, <1>2, Rest DEF inbox
  <2> QED BY <1>1, <1>2, <2>2, <2>3, <2>4, GoesStep
<1>3. CASE /\ i = 0 /\ ClosePending /\ UNCHANGED asked /\ Go(p, "telling")
           /\ Last(Ended(call, v)) \/ Done(p)
  <2>1. v \in Verdicts /\ v # None
    BY <1>1, <1>3 DEF Verdicts, None
  <2>2. LedgerStep(p)
    BY <1>1, <1>3, <2>1, LedgerSteps, Ends
  <2>3. /\ PlaceOK(hitl', surf, "telling", i, v) /\ CopyOK(call', "telling") /\ "telling" \in Pcs
    BY <2>1, PlainPcs DEF PlaceOK, CopyOK, Answering, Cleared, Parkings
  <2>4. Kept(hitl, hitl') /\ InboxOK(asked', ended')
    BY <1>1, <1>3, Rest DEF inbox
  <2> QED BY <1>1, <1>3, <2>2, <2>3, <2>4, GoesStep
<1>4. CASE GiveUp(p) /\ UNCHANGED <<hitl, asked>>
  <2>1. Aside
    BY <1>1, <1>4 DEF Aside
  <2> QED BY <1>4, <2>1, GiveUpStep
<1>5. CASE i # 0 /\ GiveUp(p) /\ Dismiss(i)
  <2>1. Stop(p) /\ LedgerStep(p)
    BY <1>5, LedgerSteps DEF GiveUp
  <2>2. Kept(hitl, hitl') /\ InboxOK(asked', ended')
    BY <1>1, <1>5, Rest DEF Dismiss
  <2> QED BY <1>1, <2>1, <2>2, StopsStep
<1> QED BY <1>2, <1>3, <1>4, <1>5 DEF ProcApply, On

LEMMA ProcAttachStep ==
    ASSUME IInv, NEW p \in Procs, ProcAttach(p)
    PROVE  IInv'
<1> DEFINE i == proc[p].on
           made == [hitl EXCEPT ![i].made = TRUE]
<1>1. i \in Rounds /\ i # 0 /\ (p \in fresh => call.st = "continuation_pending")
      /\ UNCHANGED <<ended, run, entry, surf, agent, events>> /\ RunOK(run', entry')
  BY InPlace, Rest DEF ProcAttach, At, PlaceOK, CopyOK, Parkings, runVars
<1>2. CASE /\ p \in fresh /\ Write(p, Attached(call, i)) /\ Go(p, "procActivating")
           /\ hitl' = made /\ UNCHANGED asked
  BY <1>1, <1>2, AttachStep
<1>3. CASE /\ GiveUp(p)
           /\ \/ hitl' = made /\ UNCHANGED asked
              \/ /\ hitl' = [made EXCEPT ![i].closed = TRUE, ![i].eligible = FALSE]
                 /\ asked' = Finished(asked, i)
  <2>1. Stop(p) /\ LedgerStep(p)
    BY <1>3, LedgerSteps DEF GiveUp
  <2>2. Kept(hitl, hitl')
    BY <1>1, <1>3, Changes, InPlace
  <2>3. InboxOK(asked', ended')
    BY <1>1, <1>3, Rest DEF inbox
  <2> QED BY <1>1, <2>1, <2>2, <2>3, StopsStep
<1> QED BY <1>2, <1>3 DEF ProcAttach, On

LEMMA ProcActivateStep ==
    ASSUME IInv, NEW p \in Procs, ProcActivate(p)
    PROVE  IInv'
<1> DEFINE i == proc[p].on
           b == hitl[i].eligible \/ ~hitl[i].closed
<1>1. i \in Rounds /\ i # 0 /\ QuestionsOK(hitl, surf)
      /\ UNCHANGED <<ended, run, entry, surf, agent, events>> /\ RunOK(run', entry')
  BY InPlace, Rest DEF ProcActivate, At, PlaceOK, Parkings, runVars
<1>2. LedgerStep(p) /\ b \in BOOLEAN
  BY LedgerSteps DEF ProcActivate
<1> HIDE DEF b
<1>3. CASE Dismiss(i) /\ Stop(p)
  <2>1. Kept(hitl, hitl') /\ InboxOK(asked', ended')
    BY <1>1, <1>3, Rest DEF Dismiss
  <2> QED BY <1>1, <1>2, <1>3, <2>1, StopsStep
<1>4. CASE hitl' = [hitl EXCEPT ![i].eligible = b] /\ UNCHANGED asked /\ (Go(p, "telling") \/ Stop(p))
  <2>1. Kept(hitl, hitl')
    BY <1>1, <1>2, <1>4, Changes
  <2>2. InboxOK(asked', ended')
    BY <1>1, <1>4, Rest DEF inbox
  <2>3. /\ PlaceOK(hitl', surf, "telling", i, proc[p].out) /\ CopyOK(call', "telling")
        /\ "telling" \in Pcs
    BY <1>1, PlainPcs DEF PlaceOK, CopyOK, Answering, Cleared, Parkings
  <2> QED BY <1>1, <1>2, <1>4, <2>1, <2>2, <2>3, StopsStep, GoesStep
<1>5. \/ Dismiss(i) /\ Stop(p)
      \/ hitl' = [hitl EXCEPT ![i].eligible = b] /\ UNCHANGED asked /\ (Go(p, "telling") \/ Stop(p))
  BY <1>1 DEF ProcActivate, On, QuestionsOK, b
<1> QED BY <1>3, <1>4, <1>5

LEMMA TellStep ==
    ASSUME IInv, NEW p \in Procs, Tell(p)
    PROVE  IInv'
<1> DEFINE i == proc[p].on
           v == proc[p].out
<1>1. /\ (i # 0 => i \in Rounds) /\ (i # 0 \/ v \in Verdicts)
      /\ UNCHANGED <<surf, agent, events>> /\ Stop(p)
  BY InPlace DEF Tell, At, PlaceOK
<1>2. LedgerStep(p)
  BY LedgerSteps DEF Tell
<1>3. InboxOK(asked', ended')
  BY <1>1, Rest DEF Tell, On
<1>4. Kept(hitl, hitl')
  BY Rest DEF Tell
<1>5. RunOK(run', entry')
  <2>1. RunOK(run, entry)
    BY DEF IInv
  <2> QED BY <1>1, <2>1 DEF Tell, On, RunOK
<1> QED BY <1>1, <1>2, <1>3, <1>4, <1>5, StopsStep
-----------------------------------------------------------------------------
(* The kernel, the canceller, the Agent and time                           *)

\* The Run shows its questions one after the other and forgets none.
LEMMA RunStep ==
    ASSUME IInv, UNCHANGED <<call, fresh, proc, asked, ended, agent>>, RunOK(run', entry'),
           Event \/ UNCHANGED events, QuestionsOK(hitl', surf'), Onward(hitl, hitl'),
           \A i \in Rounds : surf[i] = "shown" => surf'[i] = "shown"
    PROVE  IInv'
<1>1. CallOK(call', surf')
  <2>1. CallOK(call, surf) /\ (call.cmd # 0 => call.cmd \in Rounds)
    BY Bounds DEF IInv, CallOK, Calls
  <2> QED BY <2>1 DEF CallOK
<1>2. AgentOK(agent', surf')
  BY DEF IInv, AgentOK
<1>3. ASSUME NEW q \in Procs
      PROVE  PlaceOK(hitl', surf', proc'[q].pc, proc'[q].on, proc'[q].out)
  <2>1. PlaceOK(hitl', surf, proc[q].pc, proc[q].on, proc[q].out)
    BY PlaceKept, InPlace
  <2>2. proc[q].on # 0 => proc[q].on \in Rounds
    BY InPlace
  <2> QED BY <2>1, <2>2 DEF PlaceOK
<1>4. events' \in 0 .. MaxEvents
  BY Bounds DEF Event, IInv
<1> QED BY <1>1, <1>2, <1>3, <1>4 DEF IInv

LEMMA KernelStep ==
    ASSUME IInv, KernelSteps
    PROVE  IInv'
<1>1. entry.known \in Rounds /\ QuestionsOK(hitl, surf) /\ RunOK(run, entry)
  BY DEF IInv, RunOK
<1>2. CASE Surface
  <2>1. QuestionsOK(hitl', surf') /\ Onward(hitl, hitl')
    BY <1>1, <1>2 DEF Surface, Known, QuestionsOK, Onward, None
  <2> QED BY <1>1, <1>2, <2>1, RunStep DEF Surface, Known, ledger, inbox, None
<1>3. CASE Publish
  <2>1. CASE Parked(call, Known) /\ Readable(Known)
    <3> DEFINE d == [hitl[Known] EXCEPT !.published = TRUE]
    <3>1. hitl[Known] \in Interactions /\ hitl' = [hitl EXCEPT ![Known] = d] /\ UNCHANGED surf
      BY <1>1, <1>3, <2>1 DEF Publish, QuestionsOK, Known
    <3>2. d \in Interactions /\ d.published /\ surf[Known] = "pending"
      BY <1>3, <3>1 DEF Interactions, Publish
    <3> HIDE DEF d
    <3>3. QuestionsOK(hitl', surf') /\ Onward(hitl, hitl')
      BY <1>1, <3>1, <3>2 DEF QuestionsOK, Onward, Known, None
    <3> QED BY <1>1, <1>3, <3>1, <3>3, RunStep DEF Publish, ledger, inbox
  <2>2. CASE ~(Parked(call, Known) /\ Readable(Known))
    <3>1. QuestionsOK(hitl', surf') /\ Onward(hitl, hitl')
      BY <1>1, <1>3, <2>2 DEF Publish, Known, QuestionsOK, Onward
    <3>2. \A i \in Rounds : surf[i] = "shown" => surf'[i] = "shown"
      BY <1>1, <1>3, <2>2 DEF Publish, Known, QuestionsOK
    <3>3. UNCHANGED <<call, fresh, proc, asked, ended, run, entry, agent, events>>
      BY <1>3 DEF Publish, ledger, inbox
    <3> QED BY <1>1, <3>1, <3>2, <3>3, RunStep
  <2> QED BY <2>1, <2>2
<1>4. CASE Shown
  <2>1. QuestionsOK(hitl', surf') /\ Onward(hitl, hitl')
    BY <1>1, <1>4 DEF Shown, Known, QuestionsOK, Onward, None
  <2>2. RunOK(run', entry')
    BY <1>1, <1>4 DEF Shown, RunOK
  <2> QED BY <1>1, <1>4, <2>1, <2>2, RunStep DEF Shown, Known, ledger, inbox
<1>5. CASE RunEnds
  <2>1. RunOK(run', entry') /\ QuestionsOK(hitl', surf') /\ Onward(hitl, hitl')
    BY <1>1, <1>5 DEF RunEnds, RunOK, Onward
  <2> QED BY <1>5, <2>1, RunStep DEF RunEnds, ledger, inbox
<1> QED BY <1>2, <1>3, <1>4, <1>5 DEF KernelSteps

LEMMA CancelRunStep ==
    ASSUME IInv, CancelRun
    PROVE  IInv'
<1>1. RunOK(run', entry') /\ QuestionsOK(hitl', surf') /\ Onward(hitl, hitl')
  BY DEF CancelRun, IInv, RunOK, Onward
<1> QED BY <1>1, RunStep DEF CancelRun, ledger, inbox

LEMMA CancelStep ==
    ASSUME IInv, NEW x \in Procs, Cancelling(x)
    PROVE  IInv'
<1>1. CallOK([call EXCEPT !.st = "cancel_pending"], surf) /\ CallOK(Ended(call, "canceled"), surf)
  BY Ends, InPlace
<1>2. CASE CancelBegin(x)
  <2>1. Aside /\ LedgerStep(x) /\ \E pc \in {"canceling", "closing"} : Go(x, pc)
    BY <1>1, <1>2, LedgerSteps, AsideSteps DEF CancelBegin
  <2> QED BY <2>1, PlainStep, PlainPcs
<1>3. CASE CancelCall(x)
  <2>1. Aside /\ LedgerStep(x) /\ Go(x, "closing")
    BY <1>1, <1>3, LedgerSteps, AsideSteps DEF CancelCall
  <2> QED BY <2>1, PlainStep, PlainPcs
<1>4. CASE CancelEnd(x)
  <2>1. RunOK(run', entry')
    BY <1>4 DEF CancelEnd, IInv, RunOK
  <2>2. /\ Kept(hitl, hitl') /\ InboxOK(asked', ended') /\ LedgerStep(x)
        /\ UNCHANGED <<surf, agent, events>> /\ Stop(x)
    BY <1>4, Rest, LedgerSteps DEF CancelEnd
  <2> QED BY <2>1, <2>2, StopsStep
<1> QED BY <1>2, <1>3, <1>4 DEF Cancelling

LEMMA AgentWorksStep ==
    ASSUME IInv, AgentWorks
    PROVE  IInv'
<1>1. AgentOK(agent', surf)
  BY AgentGoesOn DEF AgentWorks, IInv
<1> QED BY <1>1 DEF AgentWorks, ledger, inbox, runVars, IInv

LEMMA LapseStep ==
    ASSUME IInv, Lapse
    PROVE  IInv'
<1>1. CallOK(call', surf) /\ call'.st = call.st /\ call'.cst = call.cst
  <2>1. CallOK(call, surf) /\ call \in Calls
    BY DEF IInv, CallOK
  <2> QED BY <2>1, Claims DEF Lapse, Calls
<1>2. \A q \in fresh : CopyOK(call', proc[q].pc)
  BY <1>1 DEF IInv, CopyOK
<1>3. events' \in 0 .. MaxEvents
  BY Bounds DEF Lapse, Event, IInv
<1> QED BY <1>1, <1>2, <1>3 DEF Lapse, inbox, runVars, IInv

LEMMA DueStep ==
    ASSUME IInv, Due
    PROVE  IInv'
<1>1. CallOK(call', surf) /\ call'.st = call.st /\ call'.cst = call.cst
  <2>1. CallOK(call, surf) /\ call \in Calls
    BY DEF IInv, CallOK
  <2> QED BY <2>1, Claims DEF Due, Calls
<1>2. /\ proc' \in [Procs -> Memory]
      /\ \A q \in Procs : proc'[q].pc = proc[q].pc /\ proc'[q].on = proc[q].on
                          /\ proc'[q].out = proc[q].out
  <2>1. \A q \in Procs : proc[q] \in Memory
    BY DEF IInv
  <2>2. \A m \in Memory : /\ [m EXCEPT !.soon = FALSE] \in Memory
                          /\ [m EXCEPT !.soon = FALSE].pc = m.pc
                          /\ [m EXCEPT !.soon = FALSE].on = m.on
                          /\ [m EXCEPT !.soon = FALSE].out = m.out
    BY DEF Memory
  <2>3. proc' = [q \in Procs |-> [proc[q] EXCEPT !.soon = FALSE]]
    BY DEF Due
  <2> QED BY <2>1, <2>2, <2>3
<1>3. \A q \in fresh : CopyOK(call', proc'[q].pc)
  BY <1>1, <1>2 DEF IInv, CopyOK
<1>4. \A q \in Procs : PlaceOK(hitl, surf, proc'[q].pc, proc'[q].on, proc'[q].out)
  BY <1>2 DEF IInv
<1> QED BY <1>1, <1>2, <1>3, <1>4 DEF Due, inbox, runVars, IInv

LEMMA CrashStep ==
    ASSUME IInv, NEW x \in Procs, Crash(x)
    PROVE  IInv'
BY StopStep, LedgerSteps, AsideSteps DEF Crash
-----------------------------------------------------------------------------
(* The theorems                                                            *)

LEMMA Starts ==
    ASSUME Init
    PROVE  IInv
<1>1. call \in Calls
  <2>1. /\ 0 \in Nat /\ 0 \in 0 .. MaxRefreshes
        /\ 0 \in 0 .. MaxRounds /\ 1 \in 0 .. MaxRounds /\ None \in Continuations
        /\ "input_required" \in CallStates /\ {1} \in SUBSET Rounds
    BY Bounds DEF Continuations, CallStates, LiveCallStates
  <2> QED BY <2>1 DEF Init, Calls
<1>2. CallOK(call, surf)
  BY <1>1, Bounds DEF CallOK, Init
<1>3. QuestionsOK(hitl, surf)
  <2>1. hitl \in [Rounds -> Interactions] /\ \A i \in Rounds : ~hitl[i].published /\ ~hitl[i].answered
    BY DEF Init, NoInteraction, Interactions
  <2> QED BY <2>1 DEF QuestionsOK, Init
<1>4. AgentOK(agent, surf)
  BY Bounds DEF AgentOK, Init
<1>5. InboxOK(asked, ended) /\ RunOK(run, entry) /\ events \in 0 .. MaxEvents
  BY Bounds DEF InboxOK, RunOK, RowStates, Init
<1>6. proc \in [Procs -> Memory] /\ \A q \in Procs : proc[q].pc = "idle"
  BY Bounds DEF Init, Idle, Memory, Pcs
<1>7. \A q \in Procs : PlaceOK(hitl, surf, proc[q].pc, proc[q].on, proc[q].out)
  BY <1>6 DEF PlaceOK, Answering, Cleared, Parkings
<1> QED BY <1>2, <1>3, <1>4, <1>5, <1>6, <1>7 DEF IInv, Init

LEMMA Steps ==
    ASSUME IInv, [Next]_vars
    PROVE  IInv'
<1>1. Coordinators \subseteq Procs /\ Recoverers \subseteq Procs /\ Processors \subseteq Procs
      /\ Cancellers \subseteq Procs
  BY DEF Procs, Coordinators
<1>2. ASSUME NEW q \in Coordinators, Submit(q) \/ Coordinate(q) \/ Disturb(q) PROVE IInv'
  BY <1>1, <1>2, SubmitStep, StoreStep, MarkStep, FenceStep, ScheduleStep, ClaimStep,
     AuthorizeStep, ResumeStep, PickStep, ReconcileStep, RecoverStep, DeliverBlockedStep, AttemptStep,
     SendStep, InspectStep, MarkUncertainStep, RetrySafeStep, ContractStep, AcceptStep,
     FinalizeStep, SupersedeStep, DenyStep, DeferStep, SendLostStep, SendFailsStep
     DEF Coordinate, Disturb
<1>3. ASSUME NEW x \in Coordinators \cup Recoverers, Parking(x) PROVE IInv'
  BY <1>1, <1>3, ParkStep, ParkAttachStep, ParkActivateStep, ConcludeStep DEF Parking
<1>4. ASSUME NEW r \in Recoverers, Recovery(r) PROVE IInv'
  BY <1>1, <1>4, PollClaimStep, PostponeStep, PollStep DEF Recovery
<1>5. ASSUME NEW p \in Processors, Processing(p) PROVE IInv'
  BY <1>1, <1>5, ObserveQuestionStep, ObserveVerdictStep, ProcApplyStep, ProcAttachStep,
     ProcActivateStep, TellStep DEF Processing
<1>6. ASSUME NEW x \in Cancellers, Cancelling(x) PROVE IInv'
  BY <1>1, <1>6, CancelStep
<1>7. ASSUME NEW x \in Procs \ Cancellers, Crash(x) PROVE IInv'
  BY <1>7, CrashStep
<1>8. ASSUME UNCHANGED vars PROVE IInv'
  BY <1>8 DEF vars, IInv
<1> QED BY <1>2, <1>3, <1>4, <1>5, <1>6, <1>7, <1>8, KernelStep, CancelRunStep, AgentWorksStep,
           LapseStep, DueStep DEF Next

LEMMA Invariance == Spec => []IInv
<1>1. Init => IInv
  BY Starts
<1>2. IInv /\ [Next]_vars => IInv'
  BY Steps
<1> QED BY <1>1, <1>2, PTL DEF Spec

\* Every store, inbox row and process of the interaction holds what its code
\* may put there.  A call that waits for its user carries no command of an earlier
\* round (apply_observation), and a command that is yet to be sent has a transport
\* attempt left (_retry_safe_continuation), with any coordinators at work at once.
THEOREM TypeCorrect == Spec => []TypeOK
<1>1. IInv => TypeOK
  BY DEF IInv, TypeOK, CallOK, Asking, QuestionsOK, AgentOK, InboxOK, RunOK
<1> QED BY <1>1, Invariance, PTL

\* The Agent gets an answer only after the Run has suspended on its question
\* (_ensure_resumed_projection), however many coordinators work at once and
\* whatever crash, lost receipt or stale copy befalls them.
THEOREM AnswerFollows == Spec => []AnswerFollowsQuestion
<1>1. IInv => AnswerFollowsQuestion
  BY DEF IInv, AgentOK, AnswerFollowsQuestion
<1> QED BY <1>1, Invariance, PTL
=============================================================================
