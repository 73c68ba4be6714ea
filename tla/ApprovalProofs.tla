--------------------------- MODULE ApprovalProofs ---------------------------
(***************************************************************************)
(* Proofs about Approval, for any number of requests, reconcilers,         *)
(* questions and answers and any number of disturbances.                   *)
(*                                                                         *)
(* None of them rests on a lease.  The statuses of the aggregate, of a     *)
(* question and of the command only go forward, and a worker's place in    *)
(* its loop says how far the questions have come: a submission has its     *)
(* answer on every question it has passed, and an applier beyond its       *)
(* questions has answered all of them on an aggregate nobody withdraws.    *)
(***************************************************************************)
EXTENDS Approval, WellFoundedInduction, TLAPS

\* The aggregate from its claim on, and the confirmed command.
Taken     == {"applying", "delivery_uncertain", "applied"}
Confirmed == {"acknowledged", "projected"}

\* Where an applier has answered every question in public, and where it has
\* found the command confirmed.
Past == {"command", "cmdclaim", "fence", "effect", "ack", "cmdproject", "projclaim",
         "projmark", "mark", "cmdapplied", "finish"}
Projecting == {"projclaim", "projmark"}

AllResponded(rw) == \A q \in Questions : rw[q].st = "responded"
Got(d) == \A q \in Questions : d[q] # None

\* The aggregate a over the questions rw: all are attached once it is open, all
\* have a reference once it is complete, and a reference names an answer.
AggOK(a, rw) ==
    /\ a \in Aggregates
    /\ a.claim # None => a.st = "applying"
    /\ a.st \notin {"none", "materializing"} \cup Withdrawn => a.att = Questions
    /\ a.st \in {"answers_recorded"} \cup Taken => a.refs = Questions
    /\ \A q \in a.refs : rw[q].ans # None
    /\ \A q \in Questions : rw[q].st \in Withdrawn => a.st \in Withdrawn

\* The questions are answered in their order, with one answer.
RowOK(rw) ==
    /\ rw \in [Questions -> Rows]
    /\ \A q \in Questions : rw[q].st \in {"none", "pending"} => rw[q].ans = None
    /\ \A q \in Questions : rw[q].st \in {"answer_recorded", "responded"} => rw[q].ans # None
    /\ \A p, q \in Questions : p < q /\ rw[q].ans # None => rw[p].ans = rw[q].ans

\* The Run that got answers got those in public, on an aggregate that is taken.
RunOK(rn, d, a, rw) ==
    /\ rn \in {"awaiting", "running", "canceling", "ended"}
    /\ d \in [Questions -> Answers \cup {None}]
    /\ rn = "running" => Got(d)
    /\ (\E q \in Questions : d[q] # None) =>
          a.st \in Taken /\ \A q \in Questions : rw[q].st = "responded" /\ rw[q].ans = d[q]

\* A confirmed command has reached the Run; answers are projected, and the
\* aggregate closed, after that.
CmdOK(c, d, a) ==
    /\ c \in Commands
    /\ c.claim # None <=> c.st = "delivering"
    /\ c.st \in Confirmed => Got(d)
    /\ a.proj = "applied" => c.st \in Confirmed
    /\ a.st = "applied" => a.proj = "applied"

\* What the place of a worker with memory m says of the documents.
ProcOK(a, rw, c, d, m) ==
    /\ m.pc = "answer" => /\ m.ans \in Answers
                          /\ \A p \in Questions : p < m.q => rw[p].ans = m.ans
    /\ m.pc = "record" => /\ m.ans \in Answers
                          /\ \A p \in Questions : p <= m.q => rw[p].ans = m.ans
    /\ m.pc \in {"cmdfail", "aggfail"} => m.to # "none"
    /\ m.pc = "respond" => /\ a.st \in Taken
                           /\ \A p \in Questions : p < m.q => rw[p].st = "responded"
    /\ m.pc \in Past => a.st \in Taken /\ AllResponded(rw)
    /\ m.pc = "ack" => Got(d)
    /\ m.pc \in Projecting => c.st \in Confirmed
    /\ m.pc = "recon" => a.st \in Withdrawn

StoreOK == AggOK(agg, row) /\ RowOK(row) /\ RunOK(run, delivered, agg, row) /\ CmdOK(cmd, delivered, agg)
WorldOK == late \in BOOLEAN /\ slow \subseteq Workers /\ faults \in 0..MaxFaults
ProcsOK == proc \in [Workers -> Memory] /\ \A w \in Workers : ProcOK(agg, row, cmd, delivered, proc[w])

IInv == StoreOK /\ WorldOK /\ ProcsOK
-----------------------------------------------------------------------------
(* Moving                                                                  *)

LEMMA Basics ==
    /\ N \in Nat /\ N > 0 /\ 1 \in Questions /\ MaxFaults \in Nat /\ Questions \subseteq Int
    /\ None \notin Workers /\ None \notin Answers
BY ApprovalAssumption DEF Questions, Workers

\* A question of a set that comes before all others of it.
LEMMA LeastQuestion ==
    ASSUME NEW T \in SUBSET Questions, T # {}
    PROVE  \E x \in T : \A y \in T : x <= y
<1> DEFINE R == OpToRel(<, Nat)
<1>0. T \subseteq Nat
  BY Basics DEF Questions
<1>1. IsWellFoundedOn(R, Nat)
  BY NatLessThanWellFounded
<1>2. \A x, y \in Nat : <<y, x>> \notin R => x <= y
  BY DEF OpToRel
<1> HIDE DEF R
<1>3. \E x \in T : \A y \in T : ~ (<<y, x>> \in R)
  BY <1>0, <1>1, WFMin
<1> QED BY <1>0, <1>2, <1>3

\* w goes on with memory m.
Moves(w, m) == m \in Memory /\ proc' = [proc EXCEPT ![w] = m]

\* The memory m keeps the answer of w and what it is to report.
Keeps(w, m) == m.ans = proc[w].ans /\ m.to = proc[w].to

LEMMA Going ==
    ASSUME proc \in [Workers -> Memory], NEW w \in Workers
    PROVE  /\ \A pc \in Pcs : Go(w, pc) =>
                 \E m : Moves(w, m) /\ m.pc = pc /\ m.q = Q(w) /\ Keeps(w, m)
           /\ \A pc \in Pcs : From(w, pc) =>
                 \E m : Moves(w, m) /\ m.pc = pc /\ m.q = 1 /\ Keeps(w, m)
           /\ Stop(w) => \E m : Moves(w, m) /\ m.pc = "idle"
           /\ \A pc \in Pcs, to \in {"applying", "delivery_uncertain"} : Raise(w, pc, to) =>
                 \E m : Moves(w, m) /\ m.pc = pc /\ m.to = to
<1>0. proc[w] \in Memory
  OBVIOUS
<1>1. ASSUME NEW pc \in Pcs, Go(w, pc)
      PROVE  \E m : Moves(w, m) /\ m.pc = pc /\ m.q = Q(w) /\ Keeps(w, m)
  <2> DEFINE m == [proc[w] EXCEPT !.pc = pc]
  <2>1. m \in Memory /\ m.pc = pc /\ m.q = proc[w].q /\ m.ans = proc[w].ans /\ m.to = proc[w].to
    BY <1>0 DEF Memory
  <2>2. proc' = [proc EXCEPT ![w] = m]
    BY <1>1 DEF Go
  <2> QED BY <2>1, <2>2 DEF Moves, Keeps, Q
<1>2. ASSUME NEW pc \in Pcs, From(w, pc)
      PROVE  \E m : Moves(w, m) /\ m.pc = pc /\ m.q = 1 /\ Keeps(w, m)
  <2> DEFINE m == [proc[w] EXCEPT !.pc = pc, !.q = 1]
  <2>1. m \in Memory /\ m.pc = pc /\ m.q = 1 /\ m.ans = proc[w].ans /\ m.to = proc[w].to
    BY <1>0, Basics DEF Memory
  <2>2. proc' = [proc EXCEPT ![w] = m]
    BY <1>2 DEF From
  <2> QED BY <2>1, <2>2 DEF Moves, Keeps
<1>3. ASSUME Stop(w) PROVE \E m : Moves(w, m) /\ m.pc = "idle"
  <2>1. Idle \in Memory /\ Idle.pc = "idle"
    BY Basics DEF Idle, Memory, Pcs
  <2> QED BY <1>3, <2>1 DEF Stop, Moves
<1>4. ASSUME NEW pc \in Pcs, NEW to \in {"applying", "delivery_uncertain"}, Raise(w, pc, to)
      PROVE  \E m : Moves(w, m) /\ m.pc = pc /\ m.to = to
  <2> DEFINE m == [proc[w] EXCEPT !.pc = pc, !.to = to]
  <2>1. m \in Memory /\ m.pc = pc /\ m.to = to
    BY <1>0 DEF Memory
  <2>2. proc' = [proc EXCEPT ![w] = m]
    BY <1>4 DEF Raise
  <2> QED BY <2>1, <2>2 DEF Moves
<1> QED BY <1>1, <1>2, <1>3, <1>4

\* The next question, or what follows the loop.
LEMMA Looping ==
    ASSUME proc \in [Workers -> Memory], NEW w \in Workers, NEW pc \in Pcs, NEW next \in Pcs,
           Loop(w, pc, next)
    PROVE  \/ /\ Q(w) < N
              /\ \E m : Moves(w, m) /\ m.pc = pc /\ m.q = Q(w) + 1 /\ Keeps(w, m)
           \/ /\ Q(w) = N
              /\ \E m : Moves(w, m) /\ m.pc = next /\ (next # "idle" => m.q = 1 /\ Keeps(w, m))
<1>0. proc[w] \in Memory /\ Q(w) \in Questions
  BY DEF Memory, Q
<1>1. CASE Q(w) < N
  <2> DEFINE m == [proc[w] EXCEPT !.pc = pc, !.q = proc[w].q + 1]
  <2>1. proc[w].q + 1 \in Questions
    BY <1>0, <1>1, Basics DEF Q, Questions
  <2>2. m \in Memory /\ m.pc = pc /\ m.q = proc[w].q + 1 /\ m.ans = proc[w].ans /\ m.to = proc[w].to
    BY <1>0, <2>1 DEF Memory
  <2>3. proc' = [proc EXCEPT ![w] = m]
    BY <1>1 DEF Loop
  <2> QED BY <1>1, <2>2, <2>3 DEF Moves, Keeps, Q
<1>2. CASE ~(Q(w) < N)
  <2>1. Q(w) = N
    BY <1>0, <1>2, Basics DEF Questions
  <2>2. IF next = "idle" THEN Stop(w) ELSE From(w, next)
    BY <1>2 DEF Loop
  <2> QED BY <2>1, <2>2, Going
<1> QED BY <1>1, <1>2

\* A place that says nothing.
Free == Pcs \ (Past \cup {"answer", "record", "cmdfail", "aggfail", "respond", "recon"})

LEMMA FreePlace ==
    ASSUME NEW a, NEW rw, NEW c, NEW d, NEW m, m.pc \in Free
    PROVE  ProcOK(a, rw, c, d, m)
BY DEF ProcOK, Free, Past, Projecting

\* The documents go forward.
Onward ==
    /\ agg.st \in Taken => agg'.st \in Taken
    /\ agg.st \in Withdrawn => agg'.st \in Withdrawn
    /\ \A q \in Questions : row[q].ans # None => row'[q].ans = row[q].ans
    /\ \A q \in Questions : row[q].st = "responded" => row'[q].st = "responded"
    /\ cmd.st \in Confirmed => cmd'.st \in Confirmed
    /\ Got(delivered) => Got(delivered')

\* What a place says stays true.
LEMMA PlaceKept ==
    ASSUME Onward, NEW m, ProcOK(agg, row, cmd, delivered, m)
    PROVE  ProcOK(agg', row', cmd', delivered', m)
<1>1. m.ans \in Answers => m.ans # None
  BY Basics
<1>2. \A q \in Questions : m.ans \in Answers /\ row[q].ans = m.ans => row'[q].ans = m.ans
  BY <1>1 DEF Onward
<1>3. AllResponded(row) => AllResponded(row')
  BY DEF Onward, AllResponded
<1> QED BY <1>2, <1>3 DEF Onward, ProcOK

\* A step of one worker.
LEMMA WorkerStep ==
    ASSUME IInv, NEW w \in Workers, NEW m, Moves(w, m), StoreOK', WorldOK', Onward,
           ProcOK(agg', row', cmd', delivered', m)
    PROVE  IInv'
<1>1. m \in Memory /\ proc' = [proc EXCEPT ![w] = m] /\ proc \in [Workers -> Memory]
  BY DEF Moves, IInv, ProcsOK
<1>2. proc' \in [Workers -> Memory]
  BY <1>1
<1>3. \A v \in Workers : ProcOK(agg', row', cmd', delivered', proc'[v])
  <2> SUFFICES ASSUME NEW v \in Workers PROVE ProcOK(agg', row', cmd', delivered', proc'[v])
    OBVIOUS
  <2>1. CASE v = w
    BY <1>1, <2>1
  <2>2. CASE v # w
    <3>1. proc'[v] = proc[v] /\ ProcOK(agg, row, cmd, delivered, proc[v])
      BY <1>1, <2>2 DEF IInv, ProcsOK
    <3> QED BY <3>1, PlaceKept
  <2> QED BY <2>1, <2>2
<1> QED BY <1>2, <1>3 DEF IInv, ProcsOK

\* A step that leaves the workers alone.
LEMMA OtherStep ==
    ASSUME IInv, UNCHANGED proc, StoreOK', WorldOK', Onward
    PROVE  IInv'
<1>1. \A v \in Workers : ProcOK(agg', row', cmd', delivered', proc'[v])
  BY PlaceKept DEF IInv, ProcsOK
<1> QED BY <1>1 DEF IInv, ProcsOK

\* Nothing is written.
LEMMA Unwritten ==
    ASSUME StoreOK, UNCHANGED <<agg, row, cmd, run, delivered>>
    PROVE  StoreOK' /\ Onward
BY DEF StoreOK, Onward

\* The disturbances and the clock.
LEMMA WorldKept ==
    ASSUME WorldOK
    PROVE  /\ UNCHANGED world => WorldOK'
           /\ UNCHANGED <<late, slow>> /\ (Fault \/ UNCHANGED faults) => WorldOK'
           /\ \A w \in Workers : UNCHANGED <<late, faults>> /\ slow' = slow \ {w} => WorldOK'
BY Basics DEF WorldOK, world, Fault
-----------------------------------------------------------------------------
(* The documents                                                           *)

\* The aggregate is written, and stays consistent with the questions.
LEMMA AggWritten ==
    ASSUME StoreOK, UNCHANGED <<row, cmd, run, delivered>>, AggOK(agg', row),
           agg.st \in Taken => agg'.st \in Taken, agg.st \in Withdrawn => agg'.st \in Withdrawn,
           agg'.proj = "applied" => cmd.st \in Confirmed,
           agg'.st = "applied" => agg'.proj = "applied"
    PROVE  StoreOK' /\ Onward
<1>1. AggOK(agg', row') /\ RowOK(row')
  BY DEF StoreOK
<1>2. RunOK(run', delivered', agg', row')
  BY DEF StoreOK, RunOK
<1>3. CmdOK(cmd', delivered', agg')
  BY DEF StoreOK, CmdOK
<1>4. Onward
  BY DEF Onward
<1> QED BY <1>1, <1>2, <1>3, <1>4 DEF StoreOK

\* The aggregate keeps what the questions and the command depend on.
AggAlike ==
    /\ agg' \in Aggregates /\ agg'.st = agg.st /\ agg'.att = agg.att /\ agg'.refs = agg.refs
    /\ agg'.claim = agg.claim /\ agg'.proj = agg.proj

LEMMA AggUnwritten ==
    ASSUME StoreOK
    PROVE  /\ agg' = agg => AggAlike
           /\ agg' = [agg EXCEPT !.reconciled = TRUE] => AggAlike
<1>1. agg \in Aggregates
  BY DEF StoreOK, AggOK
<1> QED BY <1>1 DEF AggAlike, Aggregates

\* A question is written, and keeps its answer.
LEMMA RowWritten ==
    ASSUME StoreOK, UNCHANGED <<cmd, run, delivered>>, AggAlike, NEW q \in Questions, NEW x \in Rows,
           row' = [row EXCEPT ![q] = x], x.ans = row[q].ans,
           row[q].st = "responded" => x.st = "responded",
           x.st \in Withdrawn => agg.st \in Withdrawn,
           x.st \in {"none", "pending"} => x.ans = None,
           x.st \in {"answer_recorded", "responded"} => x.ans # None
    PROVE  StoreOK' /\ Onward
<1>1. row \in [Questions -> Rows] /\ row' \in [Questions -> Rows] /\ row'[q] = x
      /\ \A p \in Questions : p # q => row'[p] = row[p]
  BY DEF StoreOK, RowOK
<1>2. \A p \in Questions : row'[p].ans = row[p].ans /\ (row[p].st = "responded" => row'[p].st = "responded")
  BY <1>1
<1>3. RowOK(row')
  BY <1>1, <1>2 DEF StoreOK, RowOK
<1>4. AggOK(agg', row')
  <2>1. agg.refs \subseteq Questions
    BY DEF StoreOK, AggOK, Aggregates
  <2>2. \A p \in Questions : row'[p].st \in Withdrawn => agg.st \in Withdrawn
    BY <1>1 DEF StoreOK, AggOK
  <2> QED BY <1>2, <2>1, <2>2 DEF StoreOK, AggOK, AggAlike
<1>5. RunOK(run', delivered', agg', row')
  BY <1>2 DEF StoreOK, RunOK, AggAlike
<1>6. Onward /\ CmdOK(cmd', delivered', agg')
  BY <1>2 DEF StoreOK, Onward, CmdOK, AggAlike
<1> QED BY <1>3, <1>4, <1>5, <1>6 DEF StoreOK

\* The next question takes the answer the ones before it have.
LEMMA RowAnswered ==
    ASSUME StoreOK, UNCHANGED <<agg, cmd, run, delivered>>, NEW q \in Questions, NEW x \in Rows,
           row' = [row EXCEPT ![q] = x], row[q].st = "pending", x.st = "answer_recorded",
           x.ans \in Answers, \A p \in Questions : p < q => row[p].ans = x.ans
    PROVE  StoreOK' /\ Onward
<1>1. row \in [Questions -> Rows] /\ row' \in [Questions -> Rows] /\ row'[q] = x
      /\ \A p \in Questions : p # q => row'[p] = row[p]
  BY DEF StoreOK, RowOK
<1>2. x.ans # None /\ row[q].ans = None
  BY Basics DEF StoreOK, RowOK
<1>3. \A p \in Questions : q < p => row[p].ans = None
  BY <1>2 DEF StoreOK, RowOK
<1>4. \A p \in Questions : p = q \/ p < q \/ q < p
  BY Basics
<1>5. \A p, k \in Questions : p < k /\ row'[k].ans # None => row'[p].ans = row'[k].ans
  <2> SUFFICES ASSUME NEW p \in Questions, NEW k \in Questions, p < k, row'[k].ans # None
               PROVE  row'[p].ans = row'[k].ans
    OBVIOUS
  <2>1. ~(q < k) /\ p # k
    <3>1. q < k => k # q
      BY Basics
    <3> QED BY <1>1, <1>3, <3>1, Basics
  <2>2. CASE k = q
    BY <1>1, <2>1, <2>2
  <2>3. CASE k < q
    <3>1. k # q /\ p # q
      BY <2>3, Basics
    <3> QED BY <1>1, <3>1 DEF StoreOK, RowOK
  <2> QED BY <1>4, <2>1, <2>2, <2>3
<1>6. RowOK(row')
  <2>1. \A p \in Questions : row'[p].st \in {"none", "pending"} => row'[p].ans = None
    BY <1>1 DEF StoreOK, RowOK
  <2>2. \A p \in Questions : row'[p].st \in {"answer_recorded", "responded"} => row'[p].ans # None
    BY <1>1, <1>2 DEF StoreOK, RowOK
  <2> QED BY <1>1, <1>5, <2>1, <2>2 DEF RowOK
<1>7. AggOK(agg', row')
  <2>1. agg.refs \subseteq Questions
    BY DEF StoreOK, AggOK, Aggregates
  <2>2. \A p \in Questions : row'[p].st \in Withdrawn => agg.st \in Withdrawn
    BY <1>1 DEF StoreOK, AggOK, Withdrawn
  <2>3. \A p \in agg.refs : row'[p].ans # None
    BY <1>1, <1>2, <2>1 DEF StoreOK, AggOK
  <2> QED BY <2>2, <2>3 DEF StoreOK, AggOK
<1>8. RunOK(run', delivered', agg', row')
  <2>1. \A p \in Questions : delivered[p] = None
    BY DEF StoreOK, RunOK
  <2> QED BY <2>1 DEF StoreOK, RunOK
<1>9. \A p \in Questions : row[p].ans # None => row'[p].ans = row[p].ans
  BY <1>1, <1>2
<1>10. \A p \in Questions : row[p].st = "responded" => row'[p].st = "responded"
  BY <1>1
<1> QED BY <1>6, <1>7, <1>8, <1>9, <1>10 DEF StoreOK, Onward

\* The command is written; it is confirmed only when the Run has its answers.
LEMMA CmdWritten ==
    ASSUME StoreOK, UNCHANGED <<agg, row, run, delivered>>, cmd' \in Commands,
           cmd'.claim # None <=> cmd'.st = "delivering",
           cmd.st \in Confirmed => cmd'.st \in Confirmed, cmd'.st \in Confirmed => Got(delivered)
    PROVE  StoreOK' /\ Onward
<1>1. CmdOK(cmd', delivered', agg')
  BY DEF StoreOK, CmdOK
<1> QED BY <1>1 DEF StoreOK, Onward

\* The Run moves on without the answers.
LEMMA RunMoves ==
    ASSUME StoreOK, UNCHANGED <<agg, row, cmd, delivered>>, run' \in {run, "canceling", "ended"}
    PROVE  StoreOK' /\ Onward
<1>1. RunOK(run', delivered', agg', row')
  BY DEF StoreOK, RunOK
<1> QED BY <1>1 DEF StoreOK, Onward

\* A worker moves to a place that says nothing.
FreeMove(w) == \E m : Moves(w, m) /\ m.pc \in Free

LEMMA FreePcs ==
    /\ {"idle", "create", "attach", "show", "shown", "apply", "repair", "refs", "repaired", "claim",
        "expire", "cancel", "unattached", "withdraw", "tell", "close", "endrun"} \subseteq Free
    /\ Free \subseteq Pcs
BY DEF Free, Pcs, Past, ApplyPcs, CmdPcs

LEMMA FreeMoves ==
    ASSUME proc \in [Workers -> Memory], NEW w \in Workers
    PROVE  /\ Stop(w) => FreeMove(w)
           /\ \A pc \in Free : Go(w, pc) \/ From(w, pc) => FreeMove(w)
           /\ \A pc, next \in Free : Loop(w, pc, next) => FreeMove(w)
<1>1. Stop(w) => FreeMove(w)
  BY Going, FreePcs DEF FreeMove
<1>2. \A pc \in Free : Go(w, pc) \/ From(w, pc) => FreeMove(w)
  BY Going, FreePcs DEF FreeMove
<1>3. \A pc, next \in Free : Loop(w, pc, next) => FreeMove(w)
  BY Looping, FreePcs DEF FreeMove
<1> QED BY <1>1, <1>2, <1>3

LEMMA FreeStep ==
    ASSUME IInv, NEW w \in Workers, FreeMove(w), StoreOK', WorldOK', Onward
    PROVE  IInv'
BY WorkerStep, FreePlace DEF FreeMove

\* Only the place of the worker changes.
LEMMA FreeStepUnwritten ==
    ASSUME IInv, NEW w \in Workers, FreeMove(w), UNCHANGED <<agg, row, cmd, run, delivered>>, WorldOK'
    PROVE  IInv'
BY FreeStep, Unwritten DEF IInv
-----------------------------------------------------------------------------
(* Steps outside the application                                           *)

\* Crashes, lapses, the clock and the Run.
LEMMA StepWorld ==
    ASSUME IInv, Tick \/ CancelRun \/ RunEnds \/ \E w \in Workers : Crash(w) \/ Stall(w)
    PROVE  IInv'
<1>0. StoreOK /\ WorldOK /\ proc \in [Workers -> Memory]
  BY DEF IInv, ProcsOK
<1>1. CASE Tick
  <2>1. WorldOK'
    BY <1>0, <1>1 DEF Tick, WorldOK
  <2> QED BY <1>0, <1>1, <2>1, Unwritten, OtherStep DEF Tick, runVars
<1>2. CASE CancelRun \/ RunEnds
  <2>1. StoreOK' /\ Onward
    BY <1>0, <1>2, RunMoves DEF CancelRun, RunEnds
  <2>2. WorldOK'
    BY <1>0, <1>2, WorldKept DEF CancelRun, RunEnds
  <2> QED BY <1>2, <2>1, <2>2, OtherStep DEF CancelRun, RunEnds
<1>3. ASSUME NEW w \in Workers, Crash(w) PROVE IInv'
  <2>1. WorldOK'
    BY <1>0, <1>3, Basics DEF Crash, WorldOK, Fault
  <2>2. FreeMove(w)
    BY <1>0, <1>3, FreeMoves DEF Crash
  <2> QED BY <1>3, <2>1, <2>2, FreeStepUnwritten DEF Crash, runVars
<1>4. ASSUME NEW w \in Workers, Stall(w) PROVE IInv'
  <2>1. WorldOK'
    BY <1>0, <1>4, Basics DEF Stall, WorldOK, Fault
  <2> QED BY <1>0, <1>4, <2>1, Unwritten, OtherStep DEF Stall, runVars
<1> QED BY <1>1, <1>2, <1>3, <1>4

\* Passes and checks that write nothing.
LEMMA StepLook ==
    ASSUME IInv, NEW w \in Workers,
           \/ ResumeMaterializing(w) \/ RecoverShow(w) \/ ShowClaim(w) \/ RepairAnswers(w)
           \/ RepairedAnswers(w) \/ Apply(w) \/ ExpireDue(w)
    PROVE  IInv'
<1>0. StoreOK /\ WorldOK /\ proc \in [Workers -> Memory]
  BY DEF IInv, ProcsOK
<1>1. /\ UNCHANGED <<agg, row, cmd, run, delivered>> /\ UNCHANGED world
  BY DEF ResumeMaterializing, RecoverShow, ShowClaim, RepairAnswers, RepairedAnswers, Apply,
         ExpireDue, runVars
<1>2. FreeMove(w)
  <2>1. CASE ResumeMaterializing(w) \/ RecoverShow(w) \/ RepairAnswers(w) \/ RepairedAnswers(w)
             \/ Apply(w) \/ ExpireDue(w)
    BY <1>0, <2>1, FreeMoves, FreePcs
       DEF ResumeMaterializing, RecoverShow, RepairAnswers, RepairedAnswers, Apply, ExpireDue
  <2>2. CASE ShowClaim(w)
    BY <1>0, <2>2, FreeMoves, FreePcs DEF ShowClaim
  <2> QED BY <2>1, <2>2
<1> QED BY <1>0, <1>1, <1>2, FreeStepUnwritten, WorldKept

\* The aggregate is created, and opens when its last question is attached.
LEMMA StepAsk ==
    ASSUME IInv, NEW w \in Workers, Ask(w) \/ Attach(w)
    PROVE  IInv'
<1>0. StoreOK /\ WorldOK /\ proc \in [Workers -> Memory] /\ proc[w] \in Memory
      /\ agg \in Aggregates /\ Q(w) \in Questions
  BY DEF IInv, ProcsOK, StoreOK, AggOK, Memory, Q
<1>1. WorldOK' /\ UNCHANGED <<row, cmd, run, delivered>>
  BY <1>0, WorldKept DEF Ask, Attach, runVars
<1>2. FreeMove(w)
  BY <1>0, FreeMoves, FreePcs DEF Ask, Attach
<1>3. CASE agg' = agg
  BY <1>1, <1>2, <1>3, FreeStepUnwritten
<1>4. CASE agg.st = "none" /\ agg' = [agg EXCEPT !.st = "materializing"]
  <2>1. agg' \in Aggregates /\ agg'.st = "materializing" /\ agg'.claim = agg.claim
        /\ agg'.refs = agg.refs /\ agg'.proj = agg.proj
    BY <1>0, <1>4 DEF Aggregates, AggStatus
  <2>2. AggOK(agg', row)
    BY <1>0, <1>4, <2>1 DEF StoreOK, AggOK, Taken, Withdrawn
  <2>3. StoreOK' /\ Onward
    BY <1>0, <1>1, <1>4, <2>1, <2>2, AggWritten DEF StoreOK, CmdOK, Taken, Withdrawn
  <2> QED BY <1>1, <1>2, <2>3, FreeStep
<1>5. CASE /\ agg.st \notin Withdrawn \cup {"applied"}
           /\ agg' = [agg EXCEPT
                        !.att = @ \cup {Q(w)},
                        !.st = IF @ = "materializing" /\ agg.att \cup {Q(w)} = Questions
                               THEN "open" ELSE @]
  <2> DEFINE st == IF agg.st = "materializing" /\ agg.att \cup {Q(w)} = Questions
                   THEN "open" ELSE agg.st
             att == agg.att \cup {Q(w)}
  <2>1. att \in SUBSET Questions /\ st \in AggStatus /\ agg.st \in AggStatus
    BY <1>0 DEF Aggregates, AggStatus
  <2>2. agg' = [agg EXCEPT !.att = att, !.st = st]
    BY <1>5
  <2>3. st = agg.st \/ (agg.st = "materializing" /\ st = "open" /\ att = Questions)
    OBVIOUS
  <2>4. agg.att \subseteq att
    OBVIOUS
  <2> HIDE DEF att, st
  <2>5. agg' \in Aggregates /\ agg'.st = st /\ agg'.att = att /\ agg'.claim = agg.claim
        /\ agg'.refs = agg.refs /\ agg'.proj = agg.proj
    BY <1>0, <2>1, <2>2 DEF Aggregates
  <2>6. AggOK(agg', row)
    <3>1. CASE st = agg.st
      BY <1>0, <2>1, <2>4, <2>5, <3>1 DEF StoreOK, AggOK
    <3>2. CASE agg.st = "materializing" /\ st = "open" /\ att = Questions
      BY <1>0, <2>5, <3>2 DEF StoreOK, AggOK, Taken, Withdrawn
    <3> QED BY <2>3, <3>1, <3>2
  <2>7. StoreOK' /\ Onward
    <3>1. agg'.st = "applied" => agg.st = "applied"
      BY <2>3, <2>5
    <3>2. (agg.st \in Taken => agg'.st \in Taken) /\ (agg.st \in Withdrawn => agg'.st \in Withdrawn)
      BY <2>3, <2>5 DEF Taken, Withdrawn
    <3> QED BY <1>0, <1>1, <2>5, <2>6, <3>1, <3>2, AggWritten DEF StoreOK, CmdOK
  <2> QED BY <1>1, <1>2, <2>7, FreeStep
<1> QED BY <1>3, <1>4, <1>5 DEF Ask, Attach

\* Steps that write one question and keep its answer, outside the application.
LEMMA StepRow ==
    ASSUME IInv, NEW w \in Workers, CreateRow(w) \/ Show(w) \/ ReconMember(w) \/ Tell(w)
    PROVE  IInv'
<1> DEFINE q == Q(w)
<1>0. /\ StoreOK /\ WorldOK /\ proc \in [Workers -> Memory] /\ proc[w] \in Memory
      /\ q \in Questions /\ row \in [Questions -> Rows] /\ row[q] \in Rows
      /\ ProcOK(agg, row, cmd, delivered, proc[w]) /\ agg.st \in AggStatus
  BY DEF IInv, ProcsOK, StoreOK, RowOK, Memory, Q, AggOK, Aggregates
<1>1. WorldOK' /\ UNCHANGED <<agg, cmd, run, delivered>>
  BY <1>0, WorldKept DEF CreateRow, Show, ReconMember, Tell, runVars
<1>2. ASSUME NEW x \in Rows, row' = [row EXCEPT ![q] = x], x.ans = row[q].ans,
             \/ x.st = row[q].st
             \/ row[q].st = "none" /\ x.st = "pending"
             \/ row[q].st \in {"pending", "answer_recorded"} /\ x.st = agg.st /\ agg.st \in Withdrawn
      PROVE  StoreOK' /\ Onward
  <2>1. /\ row[q].st = "responded" => x.st = "responded"
        /\ x.st \in Withdrawn => agg.st \in Withdrawn
        /\ x.st \in {"none", "pending"} => x.ans = None
        /\ x.st \in {"answer_recorded", "responded"} => x.ans # None
    BY <1>0, <1>2 DEF StoreOK, RowOK, AggOK, Withdrawn
  <2> QED BY <1>0, <1>1, <1>2, <2>1, RowWritten, AggUnwritten
<1>3. CASE CreateRow(w)
  <2> DEFINE x == [row[q] EXCEPT !.st = IF row[q].st = "none" THEN "pending" ELSE row[q].st]
  <2>1. x \in Rows /\ x.ans = row[q].ans /\ (x.st = row[q].st \/ (row[q].st = "none" /\ x.st = "pending"))
    BY <1>0 DEF Rows, RowStatus
  <2>2. row' = [row EXCEPT ![q] = x]
    BY <1>0, <1>3 DEF CreateRow
  <2> HIDE DEF x, q
  <2>3. StoreOK' /\ Onward
    BY <1>2, <2>1, <2>2
  <2>4. FreeMove(w)
    BY <1>0, <1>3, FreeMoves, FreePcs DEF CreateRow
  <2> QED BY <1>1, <2>3, <2>4, FreeStep
<1>4. CASE Show(w)
  <2> DEFINE x == [row[q] EXCEPT !.shown = TRUE]
  <2>1. x \in Rows /\ x.ans = row[q].ans /\ x.st = row[q].st
    BY <1>0 DEF Rows
  <2>2. row' = [row EXCEPT ![q] = x]
    BY <1>0, <1>4 DEF Show
  <2> HIDE DEF x, q
  <2>3. StoreOK' /\ Onward
    BY <1>2, <2>1, <2>2
  <2>4. FreeMove(w)
    BY <1>0, <1>4, FreeMoves, FreePcs DEF Show
  <2> QED BY <1>1, <2>3, <2>4, FreeStep
<1>5. CASE Tell(w)
  <2> DEFINE told == row[q].reconciled \/ row[q].st = agg.st
             x == [row[q] EXCEPT !.reconciled = told]
  <2>1. told \in BOOLEAN
    OBVIOUS
  <2>2. row' = [row EXCEPT ![q] = x]
    BY <1>0, <1>5 DEF Tell
  <2> HIDE DEF told
  <2>3. x \in Rows /\ x.ans = row[q].ans /\ x.st = row[q].st
    BY <1>0, <2>1 DEF Rows
  <2> HIDE DEF x, q
  <2>4. StoreOK' /\ Onward
    BY <1>2, <2>2, <2>3
  <2>5. FreeMove(w)
    BY <1>0, <1>5, FreeMoves, FreePcs DEF Tell
  <2> QED BY <1>1, <2>4, <2>5, FreeStep
<1>6. CASE ReconMember(w)
  <2>1. agg.st \in Withdrawn
    BY <1>0, <1>6 DEF ReconMember, At, ProcOK
  <2>2. StoreOK' /\ Onward
    <3>1. CASE row' = row
      BY <1>0, <1>1, <3>1, Unwritten
    <3>2. CASE /\ row[q].st \in {"pending", "answer_recorded"}
               /\ row' = [row EXCEPT ![Q(w)].st = agg.st, ![Q(w)].reconciled = FALSE]
      <4> DEFINE x == [row[q] EXCEPT !.st = agg.st, !.reconciled = FALSE]
      <4>1. x \in Rows /\ x.ans = row[q].ans /\ x.st = agg.st
        BY <1>0, <2>1 DEF Rows, RowStatus
      <4>2. row' = [row EXCEPT ![q] = x]
        BY <1>0, <3>2
      <4> HIDE DEF x, q
      <4> QED BY <1>2, <2>1, <3>2, <4>1, <4>2
    <3> QED BY <1>6, <3>1, <3>2 DEF ReconMember
  <2>3. "recon" \in Pcs /\ "tell" \in Pcs /\ "tell" \in Free
    BY FreePcs DEF Pcs
  <2>4. \E m : Moves(w, m) /\ m.pc \in {"recon", "tell"}
    BY <1>0, <1>6, <2>3, Looping DEF ReconMember
  <2>5. PICK m : Moves(w, m) /\ m.pc \in {"recon", "tell"}
    BY <2>4
  <2>6. ProcOK(agg', row', cmd', delivered', m)
    BY <1>1, <2>1, <2>5 DEF ProcOK, Past, Projecting
  <2> QED BY <1>1, <2>2, <2>5, <2>6, WorkerStep
<1> QED BY <1>3, <1>4, <1>5, <1>6

\* What is known of a worker and of the documents.
LEMMA Known ==
    ASSUME IInv, NEW w \in Workers
    PROVE  /\ StoreOK /\ WorldOK /\ proc \in [Workers -> Memory] /\ proc[w] \in Memory
           /\ ProcOK(agg, row, cmd, delivered, proc[w]) /\ Q(w) \in Questions /\ proc[w].pc \in Pcs
           /\ agg \in Aggregates /\ row \in [Questions -> Rows] /\ row[Q(w)] \in Rows /\ cmd \in Commands
BY DEF IInv, ProcsOK, StoreOK, AggOK, RowOK, CmdOK, Memory, Q

\* A submission begins.
LEMMA StepSubmit ==
    ASSUME IInv, NEW w \in Workers, NEW a \in Answers, Submit(w, a)
    PROVE  IInv'
<1>0. StoreOK /\ WorldOK /\ proc \in [Workers -> Memory]
  BY Known
<1>1. WorldOK' /\ UNCHANGED <<agg, row, cmd, run, delivered>>
  BY <1>0, WorldKept DEF Submit, runVars
<1>2. CASE From(w, "expire")
  BY <1>0, <1>1, <1>2, FreeMoves, FreePcs, FreeStepUnwritten
<1>3. CASE proc' = [proc EXCEPT ![w] = [Idle EXCEPT !.pc = "answer", !.ans = a]]
  <2> DEFINE m == [Idle EXCEPT !.pc = "answer", !.ans = a]
  <2>1. m \in Memory /\ m.pc = "answer" /\ m.ans = a /\ m.q = 1
    BY Basics DEF Idle, Memory, Pcs
  <2>2. Moves(w, m)
    BY <1>3, <2>1 DEF Moves
  <2> HIDE DEF m
  <2>3. \A p \in Questions : ~(p < m.q)
    BY <2>1, Basics DEF Questions
  <2>4. ProcOK(agg', row', cmd', delivered', m)
    BY <2>1, <2>3 DEF ProcOK, Past, Projecting
  <2> QED BY <1>0, <1>1, <2>2, <2>4, Unwritten, WorkerStep
<1> QED BY <1>2, <1>3 DEF Submit

\* One question of a submission: the questions before it have its answer, so it
\* goes into the next free one, and a submission that meets another answer stops.
LEMMA StepAnswer ==
    ASSUME IInv, NEW w \in Workers, AnswerRow(w)
    PROVE  IInv'
<1> DEFINE q == Q(w)
           a == proc[w].ans
<1>0. /\ StoreOK /\ WorldOK /\ proc \in [Workers -> Memory] /\ proc[w] \in Memory
      /\ q \in Questions /\ row \in [Questions -> Rows] /\ row[q] \in Rows
      /\ ProcOK(agg, row, cmd, delivered, proc[w]) /\ proc[w].pc = "answer"
  BY Known DEF AnswerRow, At
<1>1. WorldOK' /\ UNCHANGED <<agg, cmd, run, delivered>>
  BY <1>0, WorldKept DEF AnswerRow, runVars
<1>2. a \in Answers /\ \A p \in Questions : p < q => row[p].ans = a
  BY <1>0 DEF ProcOK, Q
<1>3. ASSUME Go(w, "record"), row'[q].ans = a, \A p \in Questions : p < q => row'[p].ans = a
      PROVE  \E m : Moves(w, m) /\ ProcOK(agg', row', cmd', delivered', m)
  <2>1. PICK m : Moves(w, m) /\ m.pc = "record" /\ m.q = q /\ m.ans = a
    <3>1. "record" \in Pcs
      BY DEF Pcs
    <3> QED BY <1>0, <1>3, <3>1, Going DEF Keeps
  <2> HIDE DEF q, a
  <2>2. \A p \in Questions : p <= m.q => p = q \/ p < q
    BY <1>0, <2>1, Basics
  <2>3. \A p \in Questions : p <= m.q => row'[p].ans = m.ans
    BY <1>3, <2>1, <2>2
  <2>4. ProcOK(agg', row', cmd', delivered', m)
    BY <1>2, <2>1, <2>3 DEF ProcOK, Past, Projecting
  <2> QED BY <2>1, <2>4
<1>4. CASE /\ Claimable(q) /\ Go(w, "record")
           /\ row' = [row EXCEPT ![Q(w)].st = "answer_recorded", ![Q(w)].ans = proc[w].ans]
  <2> DEFINE x == [row[q] EXCEPT !.st = "answer_recorded", !.ans = a]
  <2>1. row' = [row EXCEPT ![q] = x]
    BY <1>0, <1>4
  <2>2. x \in Rows /\ x.st = "answer_recorded" /\ x.ans = a
    BY <1>0, <1>2 DEF Rows, RowStatus
  <2>3. row[q].st = "pending"
    BY <1>4 DEF Claimable
  <2> HIDE DEF x, q, a
  <2>4. StoreOK' /\ Onward
    BY <1>0, <1>1, <1>2, <2>1, <2>2, <2>3, RowAnswered
  <2>5. row'[q].ans = a /\ \A p \in Questions : p < q => row'[p].ans = a
    <3>1. \A p \in Questions : p < q => p # q
      BY <1>0, Basics
    <3> QED BY <1>0, <1>2, <2>1, <2>2, <3>1
  <2>6. PICK m : Moves(w, m) /\ ProcOK(agg', row', cmd', delivered', m)
    BY <1>3, <1>4, <2>5
  <2> QED BY <1>1, <2>4, <2>6, WorkerStep
<1>5. CASE row' = row /\ SameAnswer(w) /\ Go(w, "record")
  <2>1. row'[q].ans = a
    BY <1>5 DEF SameAnswer
  <2>2. PICK m : Moves(w, m) /\ ProcOK(agg', row', cmd', delivered', m)
    BY <1>2, <1>3, <1>5, <2>1
  <2> QED BY <1>0, <1>1, <1>5, <2>2, Unwritten, WorkerStep
<1>6. CASE row' = row /\ Stop(w)
  BY <1>0, <1>1, <1>6, FreeMoves, FreeStepUnwritten
<1> QED BY <1>4, <1>5, <1>6 DEF AnswerRow

\* A reference to an answered question.
LEMMA RecordedOK ==
    ASSUME StoreOK, UNCHANGED <<row, cmd, run, delivered>>, NEW q \in Questions, Recordable(q),
           row[q].ans # None, agg' = Recorded(q)
    PROVE  StoreOK' /\ Onward
<1> DEFINE refs == agg.refs \cup {q}
           st == IF refs = agg.att THEN "answers_recorded" ELSE "partially_answered"
<1>1. agg \in Aggregates /\ agg.st \in Askable
  BY DEF StoreOK, AggOK, Recordable
<1>2. refs \in SUBSET Questions /\ st \in {"answers_recorded", "partially_answered"}
  BY <1>1 DEF Aggregates
<1>3. agg' = [agg EXCEPT !.refs = refs, !.st = st]
  BY DEF Recorded
<1>4. st = "answers_recorded" => refs = agg.att
  OBVIOUS
<1>5. \A p \in refs : row[p].ans # None
  BY DEF StoreOK, AggOK
<1> HIDE DEF refs, st
<1>6. agg' \in Aggregates /\ agg'.st = st /\ agg'.refs = refs /\ agg'.att = agg.att
      /\ agg'.claim = agg.claim /\ agg'.proj = agg.proj
  BY <1>1, <1>2, <1>3 DEF Aggregates, AggStatus
<1>7. agg.att = Questions /\ agg.claim = None /\ \A p \in Questions : row[p].st \notin Withdrawn
  BY <1>1 DEF StoreOK, AggOK, Askable, Withdrawn
<1>8. AggOK(agg', row)
  BY <1>2, <1>4, <1>5, <1>6, <1>7 DEF AggOK, Taken
<1>9. agg.st \notin Taken /\ agg.st \notin Withdrawn /\ agg'.st # "applied"
  BY <1>1, <1>2, <1>6 DEF Askable, Taken, Withdrawn
<1>10. agg'.proj = "applied" => cmd.st \in Confirmed
  BY <1>6 DEF StoreOK, CmdOK
<1> QED BY <1>8, <1>9, <1>10, AggWritten

\* record_interaction_answer, by the submission or by a repair.
LEMMA StepRecord ==
    ASSUME IInv, NEW w \in Workers, RecordAnswer(w) \/ Repair(w)
    PROVE  IInv'
<1> DEFINE q == Q(w)
<1>0. /\ StoreOK /\ WorldOK /\ proc \in [Workers -> Memory] /\ proc[w] \in Memory
      /\ q \in Questions /\ ProcOK(agg, row, cmd, delivered, proc[w])
  BY Known
<1>1. WorldOK' /\ UNCHANGED <<row, cmd, run, delivered>>
  BY <1>0, WorldKept DEF RecordAnswer, Repair, RepairRefs, runVars
<1>2. CASE RecordAnswer(w)
  <2>1. /\ proc[w].ans \in Answers /\ row[q].ans = proc[w].ans
        /\ \A p \in Questions : p <= q => row[p].ans = proc[w].ans
    <3>1. proc[w].pc = "record"
      BY <1>2 DEF RecordAnswer, At
    <3>2. q <= q
      <4> HIDE DEF q
      <4> QED BY <1>0, Basics
    <3> QED BY <1>0, <3>1, <3>2 DEF ProcOK, Q
  <2>2. row[q].ans # None
    BY <2>1, Basics
  <2>3. StoreOK' /\ Onward
    BY <1>0, <1>1, <1>2, <2>2, RecordedOK, Unwritten DEF RecordAnswer
  <2>4. CASE Loop(w, "answer", "apply")
    <3>1. "answer" \in Pcs /\ "apply" \in Pcs /\ "apply" \in Free
      BY FreePcs DEF Pcs
    <3>2. \/ \E m : Moves(w, m) /\ m.pc = "answer" /\ m.q = q + 1 /\ m.ans = proc[w].ans
          \/ \E m : Moves(w, m) /\ m.pc = "apply"
      BY <1>0, <2>4, <3>1, Looping DEF Keeps
    <3>3. ASSUME NEW m, Moves(w, m), m.pc = "answer", m.q = q + 1, m.ans = proc[w].ans PROVE IInv'
      <4> HIDE DEF q
      <4>1. \A p \in Questions : p < m.q => p <= q
        BY <1>0, <3>3, Basics
      <4>2. \A p \in Questions : p < m.q => row'[p].ans = m.ans
        BY <1>1, <2>1, <3>3, <4>1
      <4>3. ProcOK(agg', row', cmd', delivered', m)
        BY <2>1, <3>3, <4>2 DEF ProcOK, Past, Projecting
      <4> QED BY <1>1, <2>3, <3>3, <4>3, WorkerStep
    <3>4. ASSUME NEW m, Moves(w, m), m.pc = "apply" PROVE IInv'
      BY <1>1, <2>3, <3>1, <3>4, FreePlace, WorkerStep
    <3> QED BY <3>2, <3>3, <3>4
  <2>5. CASE From(w, "expire") \/ Stop(w)
    BY <1>0, <1>1, <2>3, <2>5, FreeMoves, FreePcs, FreeStep
  <2> QED BY <1>2, <2>4, <2>5 DEF RecordAnswer
<1>3. CASE Repair(w)
  <2>1. PICK pc \in Free, next \in Free : RepairRefs(w, pc, next)
    BY <1>3, FreePcs DEF Repair
  <2>2. Answered(q) => row[q].ans # None
    BY <1>0 DEF StoreOK, RowOK, Answered
  <2>3. StoreOK' /\ Onward
    BY <1>0, <1>1, <2>1, <2>2, RecordedOK, Unwritten DEF RepairRefs
  <2>4. FreeMove(w)
    BY <1>0, <2>1, FreeMoves DEF RepairRefs
  <2> QED BY <1>1, <2>3, <2>4, FreeStep
<1> QED BY <1>2, <1>3

\* A status the application has not taken is withdrawn.
LEMMA TerminatedOK ==
    ASSUME StoreOK, UNCHANGED <<row, cmd, run, delivered>>, NEW st \in Withdrawn,
           agg.st \in Cancelable, agg' = Terminated(st)
    PROVE  StoreOK' /\ Onward
<1>1. agg \in Aggregates
  BY DEF StoreOK, AggOK
<1>2. agg' \in Aggregates /\ agg'.st = st /\ agg'.claim = None /\ agg'.refs = agg.refs
      /\ agg'.proj = agg.proj
  BY <1>1 DEF Aggregates, AggStatus, Terminated, Withdrawn
<1>3. AggOK(agg', row)
  BY <1>2 DEF StoreOK, AggOK, Taken, Withdrawn
<1>4. agg.st \notin Taken /\ agg'.st # "applied" /\ agg.st \notin Withdrawn
  BY <1>2 DEF Cancelable, Askable, Taken, Withdrawn
<1>5. agg'.proj = "applied" => cmd.st \in Confirmed
  BY <1>2 DEF StoreOK, CmdOK
<1> QED BY <1>3, <1>4, <1>5, AggWritten

\* A worker that reconciles a withdrawn aggregate.
LEMMA ReconPlace ==
    ASSUME IInv, NEW w \in Workers, From(w, "recon"), agg'.st \in Withdrawn, StoreOK', Onward, WorldOK'
    PROVE  IInv'
<1>1. proc \in [Workers -> Memory] /\ "recon" \in Pcs
  BY Known DEF Pcs
<1>2. PICK m : Moves(w, m) /\ m.pc = "recon"
  BY <1>1, Going
<1>3. ProcOK(agg', row', cmd', delivered', m)
  BY <1>2 DEF ProcOK, Past, Projecting
<1> QED BY <1>2, <1>3, WorkerStep

LEMMA StepWithdraw ==
    ASSUME IInv, NEW w \in Workers, Expire(w) \/ Withdraw(w) \/ CancelUnattached(w)
    PROVE  IInv'
<1>0. StoreOK /\ WorldOK /\ proc \in [Workers -> Memory]
  BY Known
<1>1. WorldOK' /\ UNCHANGED <<row, cmd, run, delivered>>
  BY <1>0, WorldKept DEF Expire, Withdraw, CancelUnattached, runVars
<1>2. ASSUME NEW from \in SUBSET Cancelable, NEW st \in Withdrawn, NEW ends \in SUBSET Withdrawn,
             Terminalize(w, from, st, ends)
      PROVE  IInv'
  <2>1. CASE agg.st \in from /\ agg' = Terminated(st) /\ From(w, "recon")
    <3>1. StoreOK' /\ Onward
      BY <1>0, <1>1, <2>1, TerminatedOK
    <3>2. agg'.st = st
      BY <1>0, <2>1 DEF StoreOK, AggOK, Aggregates, Terminated
    <3> QED BY <1>1, <2>1, <3>1, <3>2, ReconPlace
  <2>2. CASE UNCHANGED agg /\ agg.st \in ends /\ From(w, "recon")
    BY <1>0, <1>1, <2>2, Unwritten, ReconPlace
  <2>3. CASE UNCHANGED agg /\ Stop(w)
    BY <1>0, <1>1, <2>3, FreeMoves, FreeStepUnwritten
  <2> QED BY <1>2, <2>1, <2>2, <2>3 DEF Terminalize
<1>3. Expirable \in SUBSET Cancelable /\ Cancelable \in SUBSET Cancelable /\ "expired" \in Withdrawn
      /\ "canceled" \in Withdrawn /\ Withdrawn \in SUBSET Withdrawn /\ {"canceled"} \in SUBSET Withdrawn
  BY DEF Expirable, Cancelable, Withdrawn
<1>4. CASE CancelUnattached(w)
  <2>1. FreeMove(w)
    BY <1>0, <1>4, FreeMoves DEF CancelUnattached
  <2>2. StoreOK' /\ Onward
    <3>1. CASE agg' = agg
      BY <1>0, <1>1, <3>1, Unwritten
    <3>2. CASE agg.st = "materializing" /\ agg' = Terminated("canceled")
      BY <1>0, <1>1, <1>3, <3>2, TerminatedOK DEF Cancelable
    <3> QED BY <1>4, <3>1, <3>2 DEF CancelUnattached
  <2> QED BY <1>1, <2>1, <2>2, FreeStep
<1>5. CASE Expire(w) \/ Withdraw(w)
  BY <1>2, <1>3, <1>5 DEF Expire, Withdraw
<1> QED BY <1>4, <1>5

\* The cancellation of the Run finds the questions.
LEMMA StepCancel ==
    ASSUME IInv, NEW w \in Workers,
           CancelByUser(w) \/ CancelScan(w) \/ CancelRequest(w) \/ ReconcileTerminal(w)
    PROVE  IInv'
<1>0. StoreOK /\ WorldOK /\ proc \in [Workers -> Memory] /\ Q(w) \in Questions /\ agg \in Aggregates
      /\ proc[w] \in Memory
  BY Known
<1>1. WorldOK' /\ UNCHANGED <<agg, row, cmd, delivered>>
  BY <1>0, WorldKept DEF CancelByUser, CancelScan, CancelRequest, ReconcileTerminal, runVars
<1>2. StoreOK' /\ Onward
  BY <1>0, <1>1, RunMoves DEF CancelByUser, CancelScan, CancelRequest, ReconcileTerminal, runVars
<1>3. ASSUME NEW q \in Questions, proc' = [proc EXCEPT ![w].pc = "cancel", ![w].q = q]
      PROVE  FreeMove(w)
  <2> DEFINE m == [proc[w] EXCEPT !.pc = "cancel", !.q = q]
  <2>1. m \in Memory /\ m.pc = "cancel"
    BY <1>0 DEF Memory, Pcs
  <2>2. proc' = [proc EXCEPT ![w] = m]
    BY <1>0, <1>3
  <2> QED BY <2>1, <2>2, FreePcs DEF FreeMove, Moves
<1>4. CASE CancelByUser(w)
  <2>1. CASE Go(w, "unattached")
    BY <1>0, <1>1, <1>2, <2>1, FreeMoves, FreePcs, FreeStep
  <2>2. CASE /\ agg.att # {}
             /\ proc' = [proc EXCEPT ![w].pc = "cancel",
                                     ![w].q = CHOOSE q \in agg.att : \A p \in agg.att : q <= p]
    <3>1. agg.att \subseteq Questions
      BY <1>0 DEF Aggregates
    <3>2. \E q \in agg.att : \A p \in agg.att : q <= p
      BY <2>2, <3>1, LeastQuestion
    <3>3. (CHOOSE q \in agg.att : \A p \in agg.att : q <= p) \in Questions
      BY <3>1, <3>2
    <3> QED BY <1>1, <1>2, <1>3, <2>2, <3>3, FreeStep
  <2> QED BY <1>4, <2>1, <2>2 DEF CancelByUser
<1>5. CASE CancelScan(w)
  <2>1. FreeMove(w)
    BY <1>0, <1>3, <1>5, FreeMoves DEF CancelScan
  <2> QED BY <1>1, <1>2, <2>1, FreeStep
<1>6. CASE CancelRequest(w)
  <2>1. CASE Go(w, "withdraw") \/ Stop(w)
    BY <1>0, <1>1, <1>2, <2>1, FreeMoves, FreePcs, FreeStep
  <2>2. CASE row[Q(w)].st = "canceled" /\ From(w, "recon")
    <3>1. agg'.st \in Withdrawn
      BY <1>0, <1>1, <2>2 DEF StoreOK, AggOK, Withdrawn
    <3> QED BY <1>1, <1>2, <2>2, <3>1, ReconPlace
  <2> QED BY <1>6, <2>1, <2>2 DEF CancelRequest
<1>7. CASE ReconcileTerminal(w)
  BY <1>1, <1>2, <1>7, ReconPlace DEF ReconcileTerminal
<1> QED BY <1>4, <1>5, <1>6, <1>7

\* The aggregate is marked reconciled, and the Run is told.
LEMMA ReconciledOK ==
    ASSUME StoreOK, UNCHANGED <<row, cmd, run, delivered>>, agg' = [agg EXCEPT !.reconciled = TRUE]
    PROVE  StoreOK' /\ Onward
<1>1. AggAlike
  BY AggUnwritten
<1>2. AggOK(agg', row)
  BY <1>1 DEF StoreOK, AggOK, AggAlike
<1> QED BY <1>1, <1>2, AggWritten DEF StoreOK, CmdOK, AggAlike

LEMMA StepClose ==
    ASSUME IInv, NEW w \in Workers, Close(w) \/ EndRun(w)
    PROVE  IInv'
<1>0. StoreOK /\ WorldOK /\ proc \in [Workers -> Memory]
  BY Known
<1>1. FreeMove(w)
  BY <1>0, FreeMoves, FreePcs DEF Close, EndRun
<1>2. WorldOK'
  BY <1>0, WorldKept DEF Close, EndRun
<1>3. CASE Close(w)
  <2>1. StoreOK' /\ Onward
    BY <1>0, <1>3, ReconciledOK, Unwritten DEF Close, runVars
  <2> QED BY <1>1, <1>2, <2>1, FreeStep
<1>4. CASE EndRun(w)
  <2>1. StoreOK' /\ Onward
    BY <1>0, <1>4, RunMoves DEF EndRun
  <2> QED BY <1>1, <1>2, <2>1, FreeStep
<1> QED BY <1>3, <1>4
-----------------------------------------------------------------------------
(* Steps of the application                                                *)

\* An applier beyond its questions.
LEMMA PastStep ==
    ASSUME IInv, NEW w \in Workers, NEW pc \in Past, Go(w, pc) \/ From(w, pc), StoreOK', WorldOK', Onward,
           agg'.st \in Taken, AllResponded(row'), pc = "ack" => Got(delivered'),
           pc \in Projecting => cmd'.st \in Confirmed
    PROVE  IInv'
<1>1. proc \in [Workers -> Memory] /\ pc \in Pcs
  BY Known DEF Past, Pcs, ApplyPcs, CmdPcs
<1>2. PICK m : Moves(w, m) /\ m.pc = pc
  BY <1>1, Going
<1>3. pc \notin {"answer", "record", "cmdfail", "aggfail", "respond", "recon"}
  BY DEF Past
<1>4. ProcOK(agg', row', cmd', delivered', m)
  BY <1>2, <1>3 DEF ProcOK
<1> QED BY <1>2, <1>4, WorkerStep

\* An applier that gives up.
LEMMA RaiseStep ==
    ASSUME IInv, NEW w \in Workers, NEW pc \in {"cmdfail", "aggfail"},
           NEW to \in {"applying", "delivery_uncertain"}, Raise(w, pc, to), StoreOK', WorldOK', Onward
    PROVE  IInv'
<1>1. proc \in [Workers -> Memory] /\ pc \in Pcs
  BY Known DEF Pcs, ApplyPcs, CmdPcs
<1>2. PICK m : Moves(w, m) /\ m.pc = pc /\ m.to = to
  BY <1>1, Going
<1>3. ProcOK(agg', row', cmd', delivered', m)
  BY <1>2 DEF ProcOK, Past, Projecting
<1> QED BY <1>2, <1>3, WorkerStep

\* What an applier beyond its questions knows.
LEMMA PastKnown ==
    ASSUME IInv, NEW w \in Workers, proc[w].pc \in Past
    PROVE  /\ agg.st \in Taken /\ AllResponded(row)
           /\ proc[w].pc = "ack" => Got(delivered)
           /\ proc[w].pc \in Projecting => cmd.st \in Confirmed
BY Known DEF ProcOK

\* Answers that reached the Run are in public.
LEMMA GotResponded ==
    ASSUME StoreOK, Got(delivered)
    PROVE  agg.st \in Taken /\ AllResponded(row)
<1>1. \E q \in Questions : delivered[q] # None
  BY Basics DEF Got
<1> QED BY <1>1 DEF StoreOK, RunOK, AllResponded

\* A closed aggregate.
LEMMA AppliedKnown ==
    ASSUME StoreOK, agg.st = "applied"
    PROVE  agg.proj = "applied" /\ cmd.st \in Confirmed /\ Got(delivered)
BY DEF StoreOK, CmdOK

\* The claim of the application.
LEMMA StepClaim ==
    ASSUME IInv, NEW w \in Workers, ClaimApplication(w)
    PROVE  IInv'
<1>0. /\ StoreOK /\ WorldOK /\ proc \in [Workers -> Memory] /\ proc[w] \in Memory /\ agg \in Aggregates
  BY Known
<1>1. WorldOK' /\ UNCHANGED <<row, cmd, run, delivered>>
  BY <1>0, WorldKept DEF ClaimApplication, runVars
<1>2. ASSUME agg.st = "applied", UNCHANGED agg, NEW pc \in {"projclaim", "finish"}, From(w, pc)
      PROVE  IInv'
  <2>1. cmd.st \in Confirmed /\ agg.st \in Taken /\ AllResponded(row)
    BY <1>0, <1>2, AppliedKnown, GotResponded
  <2>2. pc \in Past /\ pc # "ack"
    BY DEF Past
  <2>3. StoreOK' /\ Onward
    BY <1>0, <1>1, <1>2, Unwritten
  <2> QED BY <1>1, <1>2, <2>1, <2>2, <2>3, PastStep
<1>3. CASE /\ ApplicationClaimable
           /\ agg' = [agg EXCEPT !.st = "applying", !.claim = w]
           /\ proc' = [proc EXCEPT ![w].pc = "respond", ![w].q = 1, ![w].own = TRUE,
                       ![w].read = {q \in Questions : row[q].st = "answer_recorded"}]
  <2>1. agg.st \in {"answers_recorded", "applying"}
    BY <1>3 DEF ApplicationClaimable
  <2>2. /\ agg' \in Aggregates /\ agg'.st = "applying" /\ agg'.claim = w /\ agg'.att = agg.att
        /\ agg'.refs = agg.refs /\ agg'.proj = agg.proj
    BY <1>0, <1>3 DEF Aggregates, AggStatus
  <2>3. /\ agg.att = Questions /\ agg.refs = Questions /\ agg.st \notin Withdrawn
        /\ agg.st # "applied"
    BY <1>0, <2>1 DEF StoreOK, AggOK, Taken, Withdrawn
  <2>4. AggOK(agg', row)
    BY <1>0, <2>2, <2>3 DEF StoreOK, AggOK
  <2>5. agg'.st \in Taken /\ agg'.st # "applied"
    BY <2>2 DEF Taken
  <2>6. agg'.proj = "applied" => cmd.st \in Confirmed
    BY <1>0, <2>2 DEF StoreOK, CmdOK
  <2>7. StoreOK' /\ Onward
    BY <1>0, <1>1, <2>3, <2>4, <2>5, <2>6, AggWritten
  <2> DEFINE old == {q \in Questions : row[q].st = "answer_recorded"}
             m == [proc[w] EXCEPT !.pc = "respond", !.q = 1, !.own = TRUE, !.read = old]
  <2>8. m \in Memory /\ m.pc = "respond" /\ m.q = 1
    <3>1. old \in SUBSET Questions
      OBVIOUS
    <3> HIDE DEF old
    <3> QED BY <1>0, <3>1, Basics DEF Memory, Pcs, ApplyPcs
  <2>9. Moves(w, m)
    BY <1>0, <1>3, <2>8 DEF Moves
  <2> HIDE DEF m
  <2>10. \A p \in Questions : ~(p < m.q)
    BY <2>8, Basics DEF Questions
  <2>11. ProcOK(agg', row', cmd', delivered', m)
    BY <2>5, <2>8, <2>10 DEF ProcOK, Past, Projecting
  <2> QED BY <1>1, <2>7, <2>9, <2>11, WorkerStep
<1>4. CASE UNCHANGED agg /\ Stop(w)
  BY <1>0, <1>1, <1>4, FreeMoves, FreeStepUnwritten
<1> QED BY <1>2, <1>3, <1>4 DEF ClaimApplication

\* A question of a taken aggregate is answered in public.
LEMMA RespondedOK ==
    ASSUME StoreOK, UNCHANGED <<cmd, run, delivered>>, AggAlike, NEW q \in Questions,
           NEW ok \in BOOLEAN, agg.st \in Taken, row' = Responded(q, ok)
    PROVE  StoreOK' /\ Onward /\ row'[q].st = "responded"
<1> DEFINE y == row[q].projected \/ ok
           x == [row[q] EXCEPT !.st = "responded", !.projected = y]
<1>1. row \in [Questions -> Rows] /\ row[q] \in Rows
  BY DEF StoreOK, RowOK
<1>2. row' = [row EXCEPT ![q] = x]
  BY <1>1 DEF Responded
<1>3. y \in BOOLEAN
  OBVIOUS
<1> HIDE DEF y
<1>4. x \in Rows /\ x.st = "responded" /\ x.ans = row[q].ans
  BY <1>1, <1>3 DEF Rows, RowStatus
<1> HIDE DEF x
<1>5. row[q].ans # None
  BY DEF StoreOK, AggOK
<1>6. "responded" \notin Withdrawn
  BY DEF Withdrawn
<1> QED BY <1>1, <1>2, <1>4, <1>5, <1>6, RowWritten

\* A worker that has tried a question goes on to the next, to the command once
\* all are public, or to the error.
LEMMA RespondingMoves ==
    ASSUME proc \in [Workers -> Memory], NEW w \in Workers, NEW ok \in BOOLEAN, Responding(w, ok)
    PROVE  \E m : /\ Moves(w, m)
                  /\ \/ Q(w) < N /\ m.pc = "respond" /\ m.q = Q(w) + 1
                     \/ Q(w) = N /\ m.pc = "command"
                     \/ m.pc = "aggfail" /\ m.to # "none"
<1> DEFINE to == IF ok THEN proc[w].to ELSE "applying"
           pc == IF Q(w) < N THEN "respond" ELSE IF to = "none" THEN "command" ELSE "aggfail"
           q == IF proc[w].q < N THEN proc[w].q + 1 ELSE 1
           left == proc[w].read \ {Q(w)}
           m == [proc[w] EXCEPT !.pc = pc, !.q = q, !.to = to, !.read = left]
<1>0. proc[w] \in Memory /\ proc[w].q \in Questions /\ Q(w) = proc[w].q
  BY DEF Memory, Q
<1>1. proc' = [proc EXCEPT ![w] = m]
  BY DEF Responding
<1>2. to \in {"none", "applying", "delivery_uncertain"} /\ left \in SUBSET Questions
  BY <1>0 DEF Memory
<1>3. q \in Questions /\ (Q(w) < N => q = Q(w) + 1) /\ (~(Q(w) < N) => Q(w) = N)
  BY <1>0, Basics DEF Questions
<1>4. \/ Q(w) < N /\ pc = "respond"
      \/ ~(Q(w) < N) /\ pc = "command"
      \/ pc = "aggfail" /\ to # "none"
  OBVIOUS
<1>5. pc \in Pcs
  BY DEF Pcs, ApplyPcs
<1> HIDE DEF to, pc, q, left
<1>6. m \in Memory /\ m.pc = pc /\ m.q = q /\ m.to = to
  BY <1>0, <1>2, <1>3, <1>5 DEF Memory
<1> HIDE DEF m
<1> QED BY <1>1, <1>3, <1>4, <1>6 DEF Moves

LEMMA StepRespond ==
    ASSUME IInv, NEW w \in Workers, Respond(w)
    PROVE  IInv'
<1> DEFINE q == Q(w)
<1>0. /\ StoreOK /\ WorldOK /\ proc \in [Workers -> Memory] /\ proc[w] \in Memory
      /\ q \in Questions /\ proc[w].pc = "respond" /\ q = proc[w].q
      /\ agg.st \in Taken /\ \A p \in Questions : p < q => row[p].st = "responded"
  <2>1. proc[w].pc = "respond"
    BY DEF Respond, At
  <2> QED BY <2>1, Known DEF ProcOK, Q
<1>1. WorldOK' /\ UNCHANGED <<agg, cmd, run, delivered>>
  BY <1>0, WorldKept DEF Respond, runVars
<1>2. AggAlike
  BY <1>0, <1>1, AggUnwritten
<1>3. StoreOK' /\ Onward /\ row'[q].st = "responded"
  <2>1. CASE \E ok \in BOOLEAN : row' = Responded(q, ok)
    BY <1>0, <1>1, <1>2, <2>1, RespondedOK
  <2>2. CASE UNCHANGED row /\ (Answered(q) => row[q].st = "responded")
    <3>1. Answered(q)
      BY <1>0 DEF StoreOK, AggOK, RowOK, Rows, RowStatus, Answered, Taken, Withdrawn
    <3> QED BY <1>0, <1>1, <2>2, <3>1, Unwritten
  <2> QED BY <2>1, <2>2 DEF Respond
<1>4. PICK ok \in BOOLEAN : Responding(w, ok)
  BY DEF Respond
<1>5. PICK m : /\ Moves(w, m)
               /\ \/ q < N /\ m.pc = "respond" /\ m.q = q + 1
                  \/ q = N /\ m.pc = "command"
                  \/ m.pc = "aggfail" /\ m.to # "none"
  BY <1>0, <1>4, RespondingMoves
<1> HIDE DEF q
<1>6. \A p \in Questions : p < q \/ p = q => row'[p].st = "responded"
  BY <1>0, <1>3 DEF Onward
<1>7. ProcOK(agg', row', cmd', delivered', m)
  <2>1. CASE m.pc = "respond" /\ m.q = q + 1
    <3>1. \A p \in Questions : p < m.q => p < q \/ p = q
      BY <1>0, <2>1, Basics
    <3>2. \A p \in Questions : p < m.q => row'[p].st = "responded"
      BY <1>6, <3>1
    <3> QED BY <1>0, <1>1, <2>1, <3>2 DEF ProcOK, Past, Projecting
  <2>2. CASE q = N /\ m.pc = "command"
    <3>1. \A p \in Questions : p < q \/ p = q
      BY <2>2, Basics DEF Questions
    <3>2. AllResponded(row')
      BY <1>6, <3>1 DEF AllResponded
    <3> QED BY <1>0, <1>1, <2>2, <3>2 DEF ProcOK, Projecting
  <2>3. CASE m.pc = "aggfail" /\ m.to # "none"
    BY <2>3 DEF ProcOK, Past, Projecting
  <2> QED BY <1>5, <2>1, <2>2, <2>3
<1> QED BY <1>1, <1>3, <1>5, <1>7, WorkerStep

\* The command with a new status and claim.
LEMMA CmdUpdates ==
    ASSUME StoreOK, UNCHANGED <<agg, row, run, delivered>>, NEW st \in CmdStatus,
           NEW claim \in Workers \cup {None}, cmd' = [cmd EXCEPT !.st = st, !.claim = claim],
           claim # None <=> st = "delivering", cmd.st \in Confirmed => st \in Confirmed,
           st \in Confirmed => Got(delivered)
    PROVE  StoreOK' /\ Onward /\ cmd'.st = st
<1>1. cmd \in Commands
  BY DEF StoreOK, CmdOK
<1>2. cmd' \in Commands /\ cmd'.st = st /\ cmd'.claim = claim
  BY <1>1 DEF Commands
<1> QED BY <1>2, CmdWritten

\* Only the status.
LEMMA CmdStatusUpdates ==
    ASSUME StoreOK, UNCHANGED <<agg, row, run, delivered>>, NEW st \in CmdStatus,
           cmd' = [cmd EXCEPT !.st = st], cmd.st # "delivering", st # "delivering",
           cmd.st \in Confirmed => st \in Confirmed, st \in Confirmed => Got(delivered)
    PROVE  StoreOK' /\ Onward /\ cmd'.st = st
<1>1. cmd \in Commands /\ cmd.claim = None
  BY DEF StoreOK, CmdOK
<1>2. cmd' \in Commands /\ cmd'.st = st /\ cmd'.claim = None
  BY <1>1 DEF Commands
<1> QED BY <1>2, CmdWritten

\* The resume command is created, found, claimed and renewed.
LEMMA StepCommand ==
    ASSUME IInv, NEW w \in Workers, Command(w) \/ CmdClaim(w) \/ Fence(w)
    PROVE  IInv'
<1>0. /\ StoreOK /\ WorldOK /\ proc[w].pc \in Past
      /\ UNCHANGED <<agg, row, run, delivered>> /\ None \notin Workers
  BY Known, Basics DEF Command, CmdClaim, Fence, At, Past, runVars
<1>1. agg.st \in Taken /\ AllResponded(row)
  BY <1>0, PastKnown
<1>2. WorldOK'
  BY <1>0, WorldKept DEF Command, CmdClaim, Fence
<1>3. ASSUME StoreOK', Onward, NEW pc \in Past, pc # "ack", Go(w, pc),
             pc \in Projecting => cmd'.st \in Confirmed
      PROVE  IInv'
  BY <1>0, <1>1, <1>2, <1>3, PastStep
<1>4. {"cmdclaim", "cmdproject", "projclaim", "fence", "effect"} \subseteq Past
  BY DEF Past
<1>5. CASE Command(w)
  <2>1. CASE cmd.st = "none" /\ cmd' = [cmd EXCEPT !.st = "pending"] /\ Go(w, "cmdclaim")
    <3>1. StoreOK' /\ Onward
      BY <1>0, <2>1, CmdStatusUpdates DEF CmdStatus, Confirmed
    <3> QED BY <1>3, <1>4, <2>1, <3>1 DEF Projecting
  <2>2. CASE UNCHANGED cmd /\ (Go(w, "cmdproject") \/ Go(w, "cmdclaim") \/ (cmd.st = "projected" /\ Go(w, "projclaim")))
    <3>1. StoreOK' /\ Onward
      BY <1>0, <2>2, Unwritten
    <3> QED BY <1>3, <1>4, <2>2, <3>1 DEF Projecting, Confirmed
  <2> QED BY <1>5, <2>1, <2>2 DEF Command
<1>6. CASE CmdClaim(w)
  <2>1. CASE CmdClaimable /\ cmd' = [cmd EXCEPT !.st = "delivering", !.claim = w] /\ Go(w, "fence")
    <3>1. StoreOK' /\ Onward
      BY <1>0, <2>1, CmdUpdates DEF CmdStatus, Confirmed, CmdClaimable
    <3> QED BY <1>3, <1>4, <2>1, <3>1 DEF Projecting
  <2>2. CASE UNCHANGED cmd /\ Raise(w, "aggfail", "applying")
    BY <1>0, <1>2, <2>2, Unwritten, RaiseStep
  <2> QED BY <1>6, <2>1, <2>2 DEF CmdClaim
<1>7. CASE Fence(w)
  <2>1. StoreOK' /\ Onward
    BY <1>0, <1>7, Unwritten DEF Fence
  <2>2. CASE Go(w, "effect")
    BY <1>3, <1>4, <2>1, <2>2 DEF Projecting
  <2>3. CASE Raise(w, "cmdfail", "applying")
    BY <1>2, <2>1, <2>3, RaiseStep
  <2> QED BY <1>7, <2>2, <2>3 DEF Fence
<1> QED BY <1>5, <1>6, <1>7

\* The Run takes the answers in public.
LEMMA ResumedOK ==
    ASSUME StoreOK, UNCHANGED <<agg, row, cmd>>, agg.st \in Taken, AllResponded(row), ~RunBlocks, Resume
    PROVE  StoreOK' /\ Onward /\ Got(delivered')
<1>1. row \in [Questions -> Rows] /\ \A q \in Questions : row[q].ans # None
  BY DEF StoreOK, RowOK, AllResponded
<1>2. \A q \in Questions : row[q].ans \in Answers \cup {None}
  BY <1>1 DEF Rows
<1>3. CASE run = "awaiting"
  <2>1. run' = "running" /\ delivered' = [q \in Questions |-> row[q].ans]
    BY <1>3 DEF Resume
  <2>2. Got(delivered')
    BY <1>1, <2>1 DEF Got
  <2>3. RunOK(run', delivered', agg', row')
    BY <1>2, <2>1, <2>2 DEF RunOK, AllResponded
  <2>4. CmdOK(cmd', delivered', agg')
    BY <2>2 DEF StoreOK, CmdOK
  <2> QED BY <2>2, <2>3, <2>4 DEF StoreOK, Onward
<1>4. CASE run # "awaiting"
  <2>1. run = "running" /\ run' = run /\ delivered' = delivered
    BY <1>4 DEF Resume, RunBlocks, StoreOK, RunOK
  <2>2. Got(delivered)
    BY <2>1 DEF StoreOK, RunOK
  <2> QED BY <2>1, <2>2, Unwritten
<1> QED BY <1>3, <1>4

\* The effect, and what is reported of it.
LEMMA StepEffect ==
    ASSUME IInv, NEW w \in Workers, Effect(w)
    PROVE  IInv'
<1>0. StoreOK /\ WorldOK /\ proc[w].pc \in Past /\ UNCHANGED <<agg, row, cmd>>
  BY Known DEF Effect, At, Past
<1>1. agg.st \in Taken /\ AllResponded(row)
  BY <1>0, PastKnown
<1>2. WorldOK'
  BY <1>0, WorldKept DEF Effect
<1>3. CASE ~RunBlocks /\ Resume /\ Go(w, "ack")
  <2>1. StoreOK' /\ Onward /\ Got(delivered')
    BY <1>0, <1>1, <1>3, ResumedOK
  <2> QED BY <1>0, <1>1, <1>2, <1>3, <2>1, PastStep DEF Past, Projecting
<1>4. ASSUME NEW to \in {"applying", "delivery_uncertain"}, Raise(w, "cmdfail", to),
             UNCHANGED runVars \/ (~RunBlocks /\ Resume)
      PROVE  IInv'
  <2>1. StoreOK' /\ Onward
    BY <1>0, <1>1, <1>4, ResumedOK, Unwritten DEF runVars
  <2> QED BY <1>2, <1>4, <2>1, RaiseStep
<1> QED BY <1>3, <1>4 DEF Effect

LEMMA StepAck ==
    ASSUME IInv, NEW w \in Workers, Ack(w) \/ CmdProject(w)
    PROVE  IInv'
<1>0. StoreOK /\ WorldOK /\ proc[w].pc \in Past /\ UNCHANGED <<agg, row, run, delivered>>
  BY Known DEF Ack, CmdProject, At, Past, runVars
<1>1. agg.st \in Taken /\ AllResponded(row) /\ (proc[w].pc = "ack" => Got(delivered))
  BY <1>0, PastKnown
<1>2. WorldOK'
  BY <1>0, WorldKept DEF Ack, CmdProject
<1>3. CASE UNCHANGED cmd /\ Raise(w, "aggfail", "applying")
  BY <1>0, <1>2, <1>3, Unwritten, RaiseStep
<1>4. CASE /\ At(w, "ack") /\ HoldsCmd(w) /\ Go(w, "cmdproject")
           /\ cmd' = [cmd EXCEPT !.st = "acknowledged", !.claim = None]
  <2>1. Got(delivered)
    BY <1>1, <1>4 DEF At
  <2>2. StoreOK' /\ Onward
    BY <1>0, <1>4, <2>1, CmdUpdates DEF CmdStatus, Confirmed
  <2> QED BY <1>0, <1>1, <1>2, <1>4, <2>2, PastStep DEF Past, Projecting
<1>5. CASE /\ cmd.st = "acknowledged" /\ Go(w, "projclaim")
           /\ cmd' = [cmd EXCEPT !.st = "projected"]
  <2>1. Got(delivered)
    BY <1>0, <1>5 DEF StoreOK, CmdOK, Confirmed
  <2>2. StoreOK' /\ Onward /\ cmd'.st = "projected"
    BY <1>0, <1>5, <2>1, CmdStatusUpdates DEF CmdStatus, Confirmed
  <2>3. cmd'.st \in Confirmed
    BY <2>2 DEF Confirmed
  <2> QED BY <1>0, <1>1, <1>2, <1>5, <2>2, <2>3, PastStep DEF Past
<1> QED BY <1>3, <1>4, <1>5 DEF Ack, CmdProject

\* The projection of the answers on the Run changes.
LEMMA ProjUpdates ==
    ASSUME StoreOK, UNCHANGED <<row, cmd, run, delivered>>,
           NEW st \in {"applying", "applied", "failed"}, NEW claim \in Workers \cup {None},
           agg' = [agg EXCEPT !.proj = st, !.projClaim = claim],
           agg.proj # "applied", st = "applied" => cmd.st \in Confirmed
    PROVE  StoreOK' /\ Onward /\ agg'.st = agg.st
<1>1. agg \in Aggregates /\ agg.st # "applied"
  BY DEF StoreOK, AggOK, CmdOK
<1>2. /\ agg' \in Aggregates /\ agg'.st = agg.st /\ agg'.att = agg.att /\ agg'.refs = agg.refs
      /\ agg'.claim = agg.claim /\ agg'.proj = st
  BY <1>1 DEF Aggregates
<1>3. AggOK(agg', row)
  BY <1>2 DEF StoreOK, AggOK
<1> QED BY <1>1, <1>2, <1>3, AggWritten

LEMMA StepProject ==
    ASSUME IInv, NEW w \in Workers, ProjClaim(w) \/ ProjMark(w)
    PROVE  IInv'
<1>0. StoreOK /\ WorldOK /\ proc[w].pc \in Projecting /\ UNCHANGED <<row, cmd, run, delivered>>
  BY Known DEF ProjClaim, ProjMark, At, Projecting, runVars
<1>1. agg.st \in Taken /\ AllResponded(row) /\ cmd.st \in Confirmed
  <2>1. proc[w].pc \in Past
    BY <1>0 DEF Past, Projecting
  <2> QED BY <1>0, <2>1, PastKnown
<1>2. WorldOK'
  BY <1>0, WorldKept DEF ProjClaim, ProjMark
<1>3. ASSUME StoreOK', Onward, NEW pc \in {"projmark", "mark", "cmdapplied"}, Go(w, pc), agg'.st \in Taken
      PROVE  IInv'
  BY <1>0, <1>1, <1>2, <1>3, PastStep DEF Past
<1>4. ASSUME StoreOK', Onward, agg'.st \in Taken, AfterProjection(w) PROVE IInv'
  BY <1>3, <1>4 DEF AfterProjection
<1>5. CASE UNCHANGED agg
  <2>1. StoreOK' /\ Onward /\ agg'.st \in Taken
    BY <1>0, <1>1, <1>5, Unwritten
  <2>2. CASE ProjClaim(w)
    <3>1. \/ AfterProjection(w) \/ Go(w, "projmark") \/ Raise(w, "aggfail", "applying")
      BY <2>2 DEF ProjClaim
    <3> QED BY <1>2, <1>3, <1>4, <2>1, <3>1, RaiseStep
  <2>3. CASE ProjMark(w)
    <3>1. AfterProjection(w) \/ Raise(w, "aggfail", "applying")
      BY <2>3 DEF ProjMark
    <3> QED BY <1>2, <1>4, <2>1, <3>1, RaiseStep
  <2> QED BY <2>2, <2>3
<1>6. CASE ProjClaimable /\ Go(w, "projmark") /\ agg' = [agg EXCEPT !.proj = "applying", !.projClaim = w]
  <2>1. agg.proj # "applied"
    BY <1>6 DEF ProjClaimable
  <2>2. StoreOK' /\ Onward /\ agg'.st = agg.st
    BY <1>0, <1>6, <2>1, ProjUpdates
  <2> QED BY <1>1, <1>3, <1>6, <2>2
<1>7. ASSUME agg.proj = "applying", NEW st \in {"applied", "failed"},
             agg' = [agg EXCEPT !.proj = st, !.projClaim = None],
             AfterProjection(w) \/ Raise(w, "aggfail", "applying")
      PROVE  IInv'
  <2>1. StoreOK' /\ Onward /\ agg'.st = agg.st
    BY <1>0, <1>1, <1>7, ProjUpdates
  <2> QED BY <1>1, <1>2, <1>4, <1>7, <2>1, RaiseStep
<1>8. CASE ProjClaim(w)
  BY <1>5, <1>6, <1>8 DEF ProjClaim
<1>9. CASE ProjMark(w)
  BY <1>5, <1>7, <1>9 DEF ProjMark
<1> QED BY <1>8, <1>9

\* An aggregate that is taken gets another status.
LEMMA TakenUpdates ==
    ASSUME StoreOK, UNCHANGED <<row, cmd, run, delivered>>, agg.st \in Taken,
           agg' \in Aggregates, agg'.st \in Taken, agg'.claim # None => agg'.st = "applying",
           agg'.att = agg.att, agg'.refs = agg.refs, agg'.proj = agg.proj,
           agg'.st = "applied" => agg.proj = "applied"
    PROVE  StoreOK' /\ Onward
<1>1. agg.att = Questions /\ agg.refs = Questions /\ agg.st \notin Withdrawn
  BY DEF StoreOK, AggOK, Taken, Withdrawn
<1>2. AggOK(agg', row)
  BY <1>1 DEF StoreOK, AggOK
<1>3. agg'.proj = "applied" => cmd.st \in Confirmed
  BY DEF StoreOK, CmdOK
<1> QED BY <1>1, <1>2, <1>3, AggWritten

\* The aggregate is closed, or its application given up.
LEMMA StepMark ==
    ASSUME IInv, NEW w \in Workers, MarkApplied(w) \/ CmdFail(w) \/ AggFail(w)
    PROVE  IInv'
<1>0. /\ StoreOK /\ WorldOK /\ proc \in [Workers -> Memory] /\ proc[w] \in Memory /\ agg \in Aggregates
      /\ UNCHANGED <<row, run, delivered>> /\ ProcOK(agg, row, cmd, delivered, proc[w])
      /\ cmd \in Commands
  BY Known DEF MarkApplied, CmdFail, AggFail, runVars
<1>1. WorldOK'
  BY <1>0, WorldKept DEF MarkApplied, CmdFail, AggFail
<1>2. CASE MarkApplied(w)
  <2>1. CASE /\ HoldsAgg(w) /\ agg.proj = "applied" /\ Go(w, "cmdapplied")
             /\ agg' = [agg EXCEPT !.st = "applied", !.claim = None]
    <3>1. /\ agg' \in Aggregates /\ agg'.st = "applied" /\ agg'.claim = None /\ agg'.att = agg.att
          /\ agg'.refs = agg.refs /\ agg'.proj = agg.proj
      BY <1>0, <2>1 DEF Aggregates, AggStatus
    <3>2. agg.st \in Taken /\ agg'.st \in Taken
      BY <2>1, <3>1 DEF HoldsAgg, Taken
    <3>3. StoreOK' /\ Onward
      BY <1>0, <1>2, <2>1, <3>1, <3>2, TakenUpdates DEF MarkApplied
    <3>4. AllResponded(row)
      <4>1. proc[w].pc \in Past
        BY <1>2 DEF MarkApplied, At, Past
      <4> QED BY <4>1, PastKnown
    <3> QED BY <1>0, <1>1, <2>1, <3>2, <3>3, <3>4, PastStep DEF Past, Projecting
  <2>2. CASE UNCHANGED agg /\ Stop(w)
    BY <1>0, <1>1, <1>2, <2>2, FreeMoves, FreeStepUnwritten DEF MarkApplied
  <2> QED BY <1>2, <2>1, <2>2 DEF MarkApplied
<1>3. CASE CmdFail(w)
  <2>1. StoreOK' /\ Onward
    <3>1. CASE cmd' = cmd
      BY <1>0, <1>3, <3>1, Unwritten DEF CmdFail
    <3>2. CASE HoldsCmd(w) /\ cmd' = [cmd EXCEPT !.st = "retryable_error", !.claim = None]
      BY <1>0, <1>3, <3>2, CmdUpdates DEF CmdFail, HoldsCmd, CmdStatus, Confirmed
    <3> QED BY <1>3, <3>1, <3>2 DEF CmdFail
  <2>2. proc[w].to # "none"
    BY <1>0, <1>3 DEF CmdFail, At, ProcOK
  <2>3. PICK m : Moves(w, m) /\ m.pc = "aggfail" /\ m.to = proc[w].to
    <3>1. "aggfail" \in Pcs
      BY DEF Pcs, ApplyPcs
    <3> QED BY <1>0, <1>3, <3>1, Going DEF CmdFail, Keeps
  <2>4. ProcOK(agg', row', cmd', delivered', m)
    BY <2>2, <2>3 DEF ProcOK, Past, Projecting
  <2> QED BY <1>1, <2>1, <2>3, <2>4, WorkerStep
<1>4. CASE AggFail(w)
  <2>1. FreeMove(w)
    BY <1>0, <1>4, FreeMoves DEF AggFail
  <2>2. proc[w].to \in {"applying", "delivery_uncertain"}
    BY <1>0, <1>4 DEF AggFail, At, ProcOK, Memory
  <2>3. StoreOK' /\ Onward
    <3>1. CASE agg' = agg
      BY <1>0, <1>4, <3>1, Unwritten DEF AggFail
    <3>2. CASE /\ HoldsAgg(w)
               /\ agg' = [agg EXCEPT !.st = proc[w].to,
                                     !.claim = IF proc[w].to = "applying" THEN @ ELSE None]
      <4> DEFINE c == IF proc[w].to = "applying" THEN agg.claim ELSE None
      <4>1. c \in Workers \cup {None} /\ (c # None => proc[w].to = "applying")
        BY <1>0 DEF Aggregates
      <4>2. agg' = [agg EXCEPT !.st = proc[w].to, !.claim = c]
        BY <3>2
      <4> HIDE DEF c
      <4>3. /\ agg' \in Aggregates /\ agg'.st = proc[w].to /\ agg'.claim = c /\ agg'.att = agg.att
            /\ agg'.refs = agg.refs /\ agg'.proj = agg.proj
        BY <1>0, <2>2, <4>1, <4>2 DEF Aggregates, AggStatus
      <4>4. agg.st \in Taken /\ agg'.st \in Taken /\ agg'.st # "applied"
        BY <2>2, <3>2, <4>3 DEF HoldsAgg, Taken
      <4> QED BY <1>0, <1>4, <4>1, <4>3, <4>4, TakenUpdates DEF AggFail
    <3> QED BY <1>4, <3>1, <3>2 DEF AggFail
  <2> QED BY <1>1, <2>1, <2>3, FreeStep
<1> QED BY <1>2, <1>3, <1>4

\* After the aggregate is closed.
LEMMA StepFinish ==
    ASSUME IInv, NEW w \in Workers, CmdApplied(w) \/ Finish(w)
    PROVE  IInv'
<1>0. /\ StoreOK /\ WorldOK /\ proc \in [Workers -> Memory] /\ Q(w) \in Questions /\ cmd \in Commands
      /\ agg.st \in Taken /\ AllResponded(row)
  <2>1. proc[w].pc \in Past
    BY DEF CmdApplied, Finish, At, Past
  <2> QED BY <2>1, Known, PastKnown
<1>1. WorldOK' /\ UNCHANGED <<run, delivered>>
  BY <1>0, WorldKept DEF CmdApplied, Finish, runVars
<1>2. CASE CmdApplied(w)
  <2>1. cmd' \in Commands /\ cmd'.st = cmd.st /\ cmd'.claim = cmd.claim
    BY <1>0, <1>2 DEF CmdApplied, Commands
  <2>2. (cmd'.claim # None <=> cmd'.st = "delivering") /\ (cmd'.st \in Confirmed => Got(delivered))
    BY <1>0, <2>1 DEF StoreOK, CmdOK
  <2>3. StoreOK' /\ Onward
    BY <1>0, <1>1, <1>2, <2>1, <2>2, CmdWritten DEF CmdApplied
  <2>4. From(w, "finish") /\ UNCHANGED <<agg, row>>
    BY <1>2 DEF CmdApplied
  <2> QED BY <1>0, <1>1, <2>3, <2>4, PastStep DEF Past, Projecting
<1>3. CASE Finish(w)
  <2>1. AggAlike /\ row' = Responded(Q(w), TRUE) /\ UNCHANGED cmd /\ Loop(w, "finish", "idle")
    BY <1>0, <1>3, AggUnwritten DEF Finish
  <2>2. StoreOK' /\ Onward
    BY <1>0, <1>1, <2>1, RespondedOK
  <2>3. agg'.st \in Taken /\ AllResponded(row')
    BY <1>0, <2>2 DEF Onward, AllResponded
  <2>4. "finish" \in Pcs /\ "idle" \in Pcs /\ "idle" \in Free
    BY FreePcs DEF Pcs
  <2>5. PICK m : Moves(w, m) /\ m.pc \in {"finish", "idle"}
    BY <1>0, <2>1, <2>4, Looping
  <2>6. ProcOK(agg', row', cmd', delivered', m)
    BY <2>3, <2>5 DEF ProcOK, Past, Projecting
  <2> QED BY <1>1, <2>2, <2>5, <2>6, WorkerStep
<1> QED BY <1>2, <1>3

\* The reconciler takes up an application, or a command.
LEMMA StepResume ==
    ASSUME IInv, NEW w \in Workers, ResumeApplication(w) \/ ReconcileCommand(w)
    PROVE  IInv'
<1>0. /\ StoreOK /\ WorldOK /\ proc \in [Workers -> Memory] /\ agg \in Aggregates /\ cmd \in Commands
      /\ UNCHANGED <<row, run, delivered>>
  BY Known DEF ResumeApplication, ReconcileCommand, runVars
<1>1. WorldOK'
  BY <1>0, WorldKept DEF ResumeApplication, ReconcileCommand
<1>2. ASSUME agg.st = "delivery_uncertain", agg' = [agg EXCEPT !.st = "applying"]
      PROVE  /\ agg' \in Aggregates /\ agg'.st = "applying" /\ agg'.claim = None /\ agg'.att = agg.att
             /\ agg'.refs = agg.refs /\ agg'.proj = agg.proj /\ agg.st \in Taken /\ agg'.st \in Taken
             /\ AggOK(agg', row)
  <2>1. /\ agg' \in Aggregates /\ agg'.st = "applying" /\ agg'.claim = agg.claim /\ agg'.att = agg.att
        /\ agg'.refs = agg.refs /\ agg'.proj = agg.proj
    BY <1>0, <1>2 DEF Aggregates, AggStatus
  <2>2. agg.claim = None /\ agg.att = Questions /\ agg.refs = Questions
    BY <1>0, <1>2 DEF StoreOK, AggOK, Taken, Withdrawn
  <2>3. agg.st \in Taken /\ agg'.st \in Taken
    BY <1>2, <2>1 DEF Taken
  <2>4. AggOK(agg', row)
    BY <1>0, <1>2, <2>1, <2>2 DEF StoreOK, AggOK, Withdrawn
  <2> QED BY <2>1, <2>2, <2>3, <2>4
<1>3. CASE ResumeApplication(w)
  <2>1. FreeMove(w)
    BY <1>0, <1>3, FreeMoves, FreePcs DEF ResumeApplication
  <2>2. CASE UNCHANGED agg
    BY <1>0, <1>1, <1>3, <2>1, <2>2, FreeStepUnwritten DEF ResumeApplication
  <2>3. CASE agg.st = "delivery_uncertain" /\ agg' = [agg EXCEPT !.st = "applying"]
    <3>1. StoreOK' /\ Onward
      BY <1>0, <1>2, <1>3, <2>3, TakenUpdates DEF ResumeApplication
    <3> QED BY <1>1, <2>1, <3>1, FreeStep
  <2> QED BY <1>3, <2>2, <2>3 DEF ResumeApplication
<1>4. CASE ReconcileCommand(w)
  <2>1. CASE /\ cmd.st = "delivering" /\ UNCHANGED <<agg, proc>>
             /\ cmd' = [cmd EXCEPT !.st = "retryable_error", !.claim = None]
    <3>1. StoreOK' /\ Onward
      BY <1>0, <2>1, CmdUpdates DEF CmdStatus, Confirmed
    <3> QED BY <1>1, <2>1, <3>1, OtherStep
  <2>2. CASE /\ cmd.st \in Confirmed /\ From(w, "apply")
             /\ cmd' = [cmd EXCEPT !.st = "projected"]
             /\ agg' = [agg EXCEPT !.st = IF @ = "delivery_uncertain" THEN "applying" ELSE @]
    <3>1. cmd.claim = None /\ Got(delivered)
      BY <1>0, <2>2 DEF StoreOK, CmdOK, Confirmed
    <3>2. cmd' \in Commands /\ cmd'.st = "projected" /\ cmd'.claim = None
      BY <1>0, <2>2, <3>1 DEF Commands, CmdStatus
    <3>3. agg' = agg \/ (agg.st = "delivery_uncertain" /\ agg' = [agg EXCEPT !.st = "applying"])
      BY <1>0, <2>2 DEF Aggregates
    <3>4. /\ AggOK(agg', row) /\ agg'.proj = agg.proj /\ (agg'.st = "applied" => agg.st = "applied")
          /\ (agg.st \in Taken => agg'.st \in Taken) /\ (agg.st \in Withdrawn => agg'.st \in Withdrawn)
      <4>1. CASE agg' = agg
        BY <1>0, <4>1 DEF StoreOK
      <4>2. CASE agg.st = "delivery_uncertain" /\ agg' = [agg EXCEPT !.st = "applying"]
        BY <1>2, <4>2 DEF Withdrawn
      <4> QED BY <3>3, <4>1, <4>2
    <3>5. RunOK(run', delivered', agg', row')
      BY <1>0, <3>4 DEF StoreOK, RunOK
    <3>6. CmdOK(cmd', delivered', agg')
      BY <1>0, <3>1, <3>2, <3>4 DEF StoreOK, CmdOK, Confirmed
    <3>7. StoreOK' /\ Onward
      BY <1>0, <3>2, <3>4, <3>5, <3>6 DEF StoreOK, Onward, Confirmed
    <3>8. FreeMove(w)
      BY <1>0, <2>2, FreeMoves, FreePcs
    <3> QED BY <1>1, <3>7, <3>8, FreeStep
  <2>3. CASE From(w, "apply") /\ UNCHANGED <<agg, cmd>>
    BY <1>0, <1>1, <2>3, FreeMoves, FreePcs, FreeStepUnwritten
  <2> QED BY <1>4, <2>1, <2>2, <2>3 DEF ReconcileCommand, Confirmed
<1> QED BY <1>3, <1>4
-----------------------------------------------------------------------------
(* The invariant                                                           *)

LEMMA InitIInv ==
    Init => IInv
<1> SUFFICES ASSUME Init PROVE IInv
  OBVIOUS
<1>1. agg \in Aggregates /\ agg.st = "none" /\ agg.claim = None /\ agg.refs = {} /\ agg.proj = "pending"
  BY DEF Init, NoAgg, Aggregates, AggStatus
<1>2. NoRow \in Rows /\ NoRow.st = "none" /\ NoRow.ans = None
  BY DEF NoRow, Rows, RowStatus
<1>3. row \in [Questions -> Rows] /\ \A q \in Questions : row[q] = NoRow
  BY <1>2 DEF Init
<1>4. cmd \in Commands /\ cmd.st = "none" /\ cmd.claim = None
  BY DEF Init, NoCmd, Commands, CmdStatus
<1>5. delivered \in [Questions -> Answers \cup {None}] /\ \A q \in Questions : delivered[q] = None
  BY DEF Init
<1>6. AggOK(agg, row)
  BY <1>1, <1>2, <1>3 DEF AggOK, Taken, Withdrawn
<1>7. RowOK(row)
  BY <1>2, <1>3 DEF RowOK
<1>8. RunOK(run, delivered, agg, row)
  BY <1>5 DEF Init, RunOK
<1>9. CmdOK(cmd, delivered, agg)
  BY <1>1, <1>4 DEF CmdOK, Confirmed
<1>10. WorldOK
  <2>1. FALSE \in BOOLEAN /\ 0 \in 0..MaxFaults
    BY Basics
  <2> QED BY <2>1 DEF Init, WorldOK
<1>11. Idle \in Memory /\ Idle.pc = "idle"
  BY Basics DEF Idle, Memory, Pcs
<1>12. ProcsOK
  <2>1. proc \in [Workers -> Memory] /\ \A w \in Workers : proc[w] = Idle
    BY <1>11 DEF Init
  <2> QED BY <1>11, <2>1, FreePlace, FreePcs DEF ProcsOK
<1> QED BY <1>6, <1>7, <1>8, <1>9, <1>10, <1>12 DEF IInv, StoreOK

LEMMA IInvStep ==
    IInv /\ [Next]_vars => IInv'
<1> SUFFICES ASSUME IInv, [Next]_vars PROVE IInv'
  OBVIOUS
<1>0. Clients \subseteq Workers /\ Reconcilers \subseteq Workers
  BY DEF Workers
<1>1. ASSUME NEW w \in Workers, ApplyStep(w) PROVE IInv'
  BY <1>1, StepLook, StepRecord, StepClaim, StepRespond, StepCommand, StepEffect, StepAck,
     StepProject, StepMark, StepFinish DEF ApplyStep
<1>2. ASSUME NEW w \in Workers, Step(w) PROVE IInv'
  BY <1>1, <1>2, StepRow, StepAsk, StepLook, StepAnswer, StepRecord, StepWithdraw, StepCancel,
     StepClose DEF Step
<1>3. ASSUME NEW w \in Clients, Request(w) PROVE IInv'
  BY <1>0, <1>3, StepAsk, StepCancel, StepSubmit DEF Request
<1>4. ASSUME NEW w \in Reconcilers, Pass(w) PROVE IInv'
  BY <1>0, <1>4, StepLook, StepResume, StepCancel DEF Pass
<1>5. CASE Tick \/ CancelRun \/ RunEnds \/ \E w \in Workers : Crash(w) \/ Stall(w)
  BY <1>5, StepWorld
<1>6. CASE UNCHANGED vars
  <2>1. WorldOK' /\ StoreOK' /\ Onward
    BY <1>6, Unwritten, WorldKept DEF IInv, vars, world
  <2> QED BY <1>6, <2>1, OtherStep DEF vars
<1> QED BY <1>2, <1>3, <1>4, <1>5, <1>6 DEF Next

\* The inductive invariant: the documents agree with one another and with the
\* place of every worker, whatever leases lapse.
THEOREM IInvHolds == Spec => []IInv
BY InitIInv, IInvStep, PTL DEF Spec

\* The store keeps well-formed documents, and a claim only where a status has one
\* (hitl_lifecycle_store).
THEOREM TypeCorrect == Spec => []TypeOK
<1>1. IInv => TypeOK
  BY DEF IInv, StoreOK, AggOK, RowOK, RunOK, CmdOK, WorldOK, ProcsOK, TypeOK
<1> QED BY <1>1, IInvHolds, PTL

\* However many users answer at once, and whoever dies between two questions, the
\* answers of a questionnaire come from one submission (handle_batch_response).
THEOREM OneSubmission == Spec => []AnswersFromOneSubmission
<1>1. IInv => AnswersFromOneSubmission
  <2> SUFFICES ASSUME IInv, NEW p \in Questions, NEW q \in Questions,
                      row[p].ans # None, row[q].ans # None
               PROVE  row[p].ans = row[q].ans
    BY DEF AnswersFromOneSubmission
  <2>1. p < q \/ q < p \/ p = q
    BY Basics
  <2> QED BY <2>1 DEF IInv, StoreOK, RowOK
<1> QED BY <1>1, IInvHolds, PTL

\* What the Run got is neither withdrawn nor answered otherwise in public, and
\* that needs no lease: the aggregate's status decides (claim_interaction_
\* application, terminalize_interaction).
THEOREM AnswerStands == Spec => []DeliveredAnswerStands
<1>1. IInv => DeliveredAnswerStands
  BY DEF IInv, StoreOK, RunOK, DeliveredAnswerStands, Taken
<1> QED BY <1>1, IInvHolds, PTL

\* An applied interaction has a confirmed command and a resumed Run, whichever
\* applier closed it (mark_interaction_application_state).
THEOREM AppliedConfirmed == Spec => []AppliedIsConfirmed
<1>1. IInv => AppliedIsConfirmed
  BY DEF IInv, StoreOK, CmdOK, Got, Confirmed, AppliedIsConfirmed
<1> QED BY <1>1, IInvHolds, PTL

\* A confirmed resume command is not delivered again, by a late applier or by the
\* reconciler (claim_resume_command, _reconcile_commands).
THEOREM ConfirmedStays == Spec => ConfirmedCommandIsFinal
<1>1. IInv /\ [Next]_vars =>
        [cmd.st \in {"acknowledged", "projected"} => cmd'.st \in {"acknowledged", "projected"}]_vars
  <2> SUFFICES ASSUME IInv, Next, cmd.st \in {"acknowledged", "projected"}
               PROVE  cmd'.st \in {"acknowledged", "projected"}
    BY DEF vars
  <2>0. cmd \in Commands
    BY DEF IInv, StoreOK, CmdOK
  <2>1. CASE cmd' = cmd
    BY <2>1
  <2>3. ASSUME NEW w \in Workers, Ack(w) \/ CmdProject(w) \/ CmdApplied(w) PROVE cmd'.st \in {"acknowledged", "projected"}
    BY <2>0, <2>3 DEF Ack, CmdProject, CmdApplied, HoldsCmd, Commands
  <2>4. ASSUME NEW w \in Workers, Command(w) \/ CmdClaim(w) \/ CmdFail(w) PROVE cmd' = cmd
    BY <2>4 DEF Command, CmdClaim, CmdFail, CmdClaimable, HoldsCmd
  <2>5. ASSUME NEW w \in Workers, ReconcileCommand(w) PROVE cmd'.st \in {"acknowledged", "projected"}
    BY <2>0, <2>5 DEF ReconcileCommand, Commands
  <2>6. ASSUME NEW w \in Workers,
               \/ Apply(w) \/ Repair(w) \/ RepairedAnswers(w) \/ ClaimApplication(w) \/ Respond(w)
               \/ Fence(w) \/ Effect(w) \/ ProjClaim(w) \/ ProjMark(w) \/ MarkApplied(w) \/ Finish(w)
               \/ AggFail(w)
        PROVE  cmd' = cmd
    BY <2>6 DEF Apply, Repair, RepairRefs, RepairedAnswers, ClaimApplication, Respond, Fence, Effect,
                ProjClaim, ProjMark, MarkApplied, Finish, AggFail
  <2>7. ASSUME NEW w \in Workers,
               \/ CreateRow(w) \/ Attach(w) \/ ShowClaim(w) \/ Show(w)
               \/ AnswerRow(w) \/ RecordAnswer(w)
               \/ Expire(w) \/ CancelUnattached(w) \/ CancelRequest(w) \/ Withdraw(w)
               \/ ReconMember(w) \/ Tell(w) \/ Close(w) \/ EndRun(w) \/ Crash(w) \/ Stall(w)
        PROVE  cmd' = cmd
    BY <2>7 DEF CreateRow, Attach, ShowClaim, Show, AnswerRow, RecordAnswer, Expire, CancelUnattached,
                CancelRequest, Withdraw, ReconMember, Tell, Close, EndRun, Crash, Stall
  <2>8. ASSUME NEW w, Request(w) PROVE cmd' = cmd
    BY <2>8 DEF Request, Ask, CancelByUser, CancelScan, Submit
  <2>9. ASSUME NEW w,
               \/ ResumeMaterializing(w) \/ ExpireDue(w) \/ RepairAnswers(w) \/ ResumeApplication(w)
               \/ ReconcileTerminal(w) \/ RecoverShow(w)
        PROVE  cmd' = cmd
    BY <2>9 DEF ResumeMaterializing, ExpireDue, RepairAnswers, ResumeApplication, ReconcileTerminal, RecoverShow
  <2>10. ASSUME Tick \/ CancelRun \/ RunEnds PROVE cmd' = cmd
    BY <2>10 DEF Tick, CancelRun, RunEnds
  <2>11. ASSUME NEW w \in Workers, Step(w) PROVE cmd'.st \in {"acknowledged", "projected"}
    BY <2>1, <2>3, <2>4, <2>6, <2>7, <2>11 DEF Step, ApplyStep
  <2>12. Reconcilers \subseteq Workers
    BY DEF Workers
  <2>13. ASSUME NEW w \in Reconcilers, Pass(w) PROVE cmd'.st \in {"acknowledged", "projected"}
    BY <2>1, <2>5, <2>9, <2>12, <2>13 DEF Pass
  <2> QED BY <2>1, <2>7, <2>8, <2>10, <2>11, <2>13 DEF Next
<1> QED BY <1>1, IInvHolds, PTL DEF Spec, ConfirmedCommandIsFinal
=============================================================================
