------------------------- MODULE RunRecoveryProofs -------------------------
(***************************************************************************)
(* Proofs about RunRecovery, for any number of drivers, workers, sinks and *)
(* cancel requests and for every value of the terms and bounds.            *)
(***************************************************************************)
EXTENDS RunRecovery, TLAPS

\* Statuses that a cancelled or ended Run cannot leave except to end.
Ending == Terminal \cup {"canceling"}

\* Where a process that is current relies on the status it loaded.
Holding == {"claimRow", "claimCas", "claimUndo", "exec", "commitFailed",
            "commitCanceled", "cancelCas"}

\* What a process holds in memory, given where it is.
ClaimingOK(m) ==
    m.pc \in {"claimRow", "claimCas", "claimUndo"} =>
        m.claim \in Claims /\ m.seen \in Claims /\ m.claim.quarantined = "no"

ReleasingOK(m) ==
    m.pc \in {"releaseRow", "releaseCas", "scheduleCas", "scheduleRow"} =>
        m.claim \in Claims /\ m.claim.owner = NoOwner

GoalOK(m) ==
    m.pc \in {"start", "idle", "listed", "claimRow", "claimCas", "claimUndo"} =>
        m.goal # "shutdown"

CommitOK(m) ==
    /\ m.pc = "commitFailed" => m.status \notin Ending
    /\ m.pc = "commitCanceled" => m.status = "canceling"
    /\ m.pc = "cancelCas" => m.status \in Cancelable

MemoryOK(m) ==
    /\ m \in Process
    /\ Counted(m.claim) /\ Counted(m.seen)
    /\ ClaimingOK(m) /\ ReleasingOK(m) /\ GoalOK(m) /\ CommitOK(m)

\* How the memory m of p relates to the stored Run: its status, the processes
\* that are current, and the time.
CopyOK(p, m, status, cur, t) ==
    /\ m.pc = "start" => p \notin cur
    /\ p \in cur /\ m.pc \in Holding => m.status = status
    /\ p \in cur /\ m.pc \in {"releaseRow", "releaseCas"} /\ status = "canceling"
          => m.claim.kind = "cancellation"
    /\ m.pc \in {"settleCanceled", "commitCanceled", "cancelRow"} => status \in Ending
    /\ m.at <= t

RunOK ==
    /\ run.requestedAt # NoTime => run.status \in Ending
    /\ CancelingRunsRecoverAsCancellation

RowOK == Counted(row) /\ OwnedLeaseExpires

ProcsOK ==
    \A p \in Procs : MemoryOK(proc[p]) /\ CopyOK(p, proc[p], run.status, current, now)

\* The inductive invariant.
IInv == Typed /\ RunOK /\ RowOK /\ ProcsOK
-----------------------------------------------------------------------------
(* The operators                                                           *)

\* A sum of instants stays an instant, cut off at the horizon.
LEMMA UptoType ==
    ASSUME NEW t \in Int, t >= NoTime
    PROVE  /\ Upto(t) \in Times
           /\ t >= 0 => Upto(t) # NoTime
BY BoundsAssumption DEF Upto, Times, NoTime, Dormant

\* So do the ends of the terms counted from now.
LEMMA InType ==
    ASSUME now \in 0 .. Horizon, NEW d \in Nat
    PROVE  In(d) \in Times /\ In(d) # NoTime
<1>1. now + d \in Int /\ now + d >= 0
  BY BoundsAssumption
<1> QED
  BY <1>1, UptoType DEF In, NoTime

\* None and the dormant schedule are times.
LEMMA TimeConstants == NoTime \in Times /\ Dormant \in Times
BY BoundsAssumption DEF NoTime, Dormant, Times

\* A fresh claim is a claim, unowned and with no failure counted.
LEMMA RecoveryClaimType ==
    ASSUME NEW k \in Kinds, NEW n \in Times
    PROVE  LET c == RecoveryClaim(k, n)
           IN  /\ c \in Claims
               /\ c.kind = k /\ c.owner = NoOwner /\ c.lease = NoTime /\ c.next = n
               /\ c.fails = 0 /\ c.quarantined = "no"
               /\ Counted(c)
BY BoundsAssumption, TimeConstants DEF RecoveryClaim, Claims, Counted

\* The missing row counts as unowned.
LEMMA NoClaimFields ==
    /\ NoClaim.kind = "absent" /\ NoClaim.owner = NoOwner
    /\ NoClaim.quarantined = "no" /\ NoClaim.fails = 0
    /\ Counted(NoClaim)
    /\ NoClaim \notin Claims
BY BoundsAssumption DEF NoClaim, RecoveryClaim, Counted, Claims, Kinds

\* What load() returns is a claim; it is a cancellation's for a canceling Run,
\* and only the row can name an owner.
LEMMA LoadedClaimType ==
    ASSUME Typed, RunOK, RowOK
    PROVE  /\ LoadedClaim \in Claims
           /\ Counted(LoadedClaim)
           /\ run.status = "canceling" => LoadedClaim.kind = "cancellation"
           /\ LoadedClaim.owner # NoOwner => LoadedClaim = row
<1>1. /\ RecoveryClaim(run.kind, run.next) \in Claims
      /\ Counted(RecoveryClaim(run.kind, run.next))
      /\ RecoveryClaim(run.kind, run.next).kind = run.kind
      /\ RecoveryClaim(run.kind, run.next).owner = NoOwner
  <2>1. run.kind \in Kinds /\ run.next \in Times
    BY DEF Typed
  <2> QED
    BY <2>1, RecoveryClaimType
<1>2. HasRow => row \in Claims
  BY NoClaimFields DEF Typed, HasRow
<1> QED
  BY <1>1, <1>2 DEF LoadedClaim, Lagging, RowOK, RunOK,
     CancelingRunsRecoverAsCancellation

\* A process that starts afresh is well formed.
LEMMA FreshType ==
    ASSUME NEW w \in Locations
    PROVE  LET m == Fresh(w)
           IN  /\ m \in Process
               /\ m.pc = w /\ m.status = "running" /\ m.kind = "execution"
               /\ m.seen = NoClaim /\ m.claim = NoClaim /\ m.mirror = "absent"
               /\ m.at = NoTime /\ m.goal = "exec"
BY TimeConstants DEF Fresh, Process, Status, Kinds, Active

\* A fresh process that has nothing to commit or to claim is sound.
LEMMA FreshOK ==
    ASSUME NEW w \in Locations,
           w \notin {"claimRow", "claimCas", "claimUndo", "releaseRow", "releaseCas",
                     "scheduleCas", "scheduleRow", "commitCanceled", "cancelCas"}
    PROVE  MemoryOK(Fresh(w))
BY FreshType, NoClaimFields
   DEF MemoryOK, Counted, ClaimingOK, ReleasingOK, GoalOK, CommitOK, Ending, Terminal
-----------------------------------------------------------------------------
(* One process takes a step                                                *)

\* If the stepping process stays sound, so does every other one, as long as a
\* changed status leaves no other copy current and an ending Run keeps ending.
LEMMA OthersKeep ==
    ASSUME Typed, ProcsOK, now' \in Int,
           NEW p \in Procs, NEW m, Become(p, m),
           MemoryOK(m), CopyOK(p, m, run'.status, current', now'),
           current' \subseteq current \cup {p},
           run'.status = run.status \/ current' = {p},
           run.status \in Ending => run'.status \in Ending,
           now' >= now
    PROVE  proc' \in [Procs -> Process] /\ ProcsOK'
<1>1. proc' \in [Procs -> Process]
  BY DEF Typed, Become, MemoryOK
<1>2. ASSUME NEW q \in Procs
      PROVE  MemoryOK(proc'[q]) /\ CopyOK(q, proc'[q], run'.status, current', now')
  <2>1. CASE q = p
    <3>1. proc'[q] = m
      BY <2>1 DEF Typed, Become
    <3> QED
      BY <2>1, <3>1
  <2>2. CASE q # p
    <3>1. proc'[q] = proc[q]
      BY <2>2 DEF Typed, Become
    <3>2. MemoryOK(proc[q]) /\ CopyOK(q, proc[q], run.status, current, now)
      BY DEF ProcsOK
    <3>3. q \in current' => q \in current /\ run'.status = run.status
      BY <2>2
    <3>4. proc[q].at \in Int /\ now \in Int
      BY DEF Typed, Process, Times, NoTime, Dormant
    <3>5. CopyOK(q, proc[q], run'.status, current', now')
      BY <3>2, <3>3, <3>4 DEF CopyOK
    <3> QED
      BY <3>1, <3>2, <3>5
  <2> QED
    BY <2>1, <2>2
<1>3. ProcsOK'
  BY <1>2 DEF ProcsOK
<1> QED
  BY <1>1, <1>3

\* A step that writes neither document keeps the invariant if the stepping
\* process stays sound.
LEMMA LocalStep ==
    ASSUME IInv, NEW p \in Procs, NEW m, Become(p, m), MemoryOK(m),
           CopyOK(p, m, run.status, current', now),
           current' \subseteq current \cup {p},
           UNCHANGED <<run, row, now, crashes>>
    PROVE  IInv'
<1>1. now' \in Int /\ now' >= now /\ run'.status = run.status
  BY DEF IInv, Typed
<1>2. CopyOK(p, m, run'.status, current', now')
  OBVIOUS
<1>3. proc' \in [Procs -> Process] /\ ProcsOK'
  BY <1>1, <1>2, OthersKeep DEF IInv
<1>4. Typed'
  BY <1>3 DEF IInv, Typed
<1>5. RunOK' /\ RowOK'
  BY DEF IInv, RunOK, RowOK, CancelingRunsRecoverAsCancellation, OwnedLeaseExpires,
         Counted
<1> QED
  BY <1>3, <1>4, <1>5 DEF IInv

\* The same for a step that also writes the row.
LEMMA RowStep ==
    ASSUME IInv, NEW p \in Procs, NEW m, Become(p, m), MemoryOK(m),
           CopyOK(p, m, run.status, current, now),
           row' \in Claims, Counted(row'), OwnedLeaseExpires',
           UNCHANGED <<run, current, now, crashes>>
    PROVE  IInv'
<1>1. now' \in Int /\ now' >= now /\ run'.status = run.status
  BY DEF IInv, Typed
<1>2. CopyOK(p, m, run'.status, current', now')
  OBVIOUS
<1>3. proc' \in [Procs -> Process] /\ ProcsOK'
  BY <1>1, <1>2, OthersKeep DEF IInv
<1>4. Typed'
  BY <1>3 DEF IInv, Typed
<1>5. RunOK' /\ RowOK'
  BY DEF IInv, RunOK, RowOK, CancelingRunsRecoverAsCancellation, Counted
<1> QED
  BY <1>3, <1>4, <1>5 DEF IInv

\* The same for a step that writes the aggregate.
LEMMA RunStep ==
    ASSUME IInv, NEW p \in Procs, NEW m, Become(p, m), MemoryOK(m),
           CopyOK(p, m, run'.status, current', now),
           run' \in [status : Status, requestedAt : Times, kind : Kinds, next : Times],
           RunOK',
           current' \subseteq current \cup {p},
           run'.status = run.status \/ current' = {p},
           run.status \in Ending => run'.status \in Ending,
           UNCHANGED <<row, now, crashes>>
    PROVE  IInv'
<1>1. now' \in Int /\ now' >= now
  BY DEF IInv, Typed
<1>2. CopyOK(p, m, run'.status, current', now')
  OBVIOUS
<1>3. proc' \in [Procs -> Process] /\ ProcsOK'
  BY <1>1, <1>2, OthersKeep DEF IInv
<1>4. Typed'
  BY <1>3 DEF IInv, Typed
<1>5. RowOK'
  BY DEF IInv, RowOK, OwnedLeaseExpires, Counted
<1> QED
  BY <1>3, <1>4, <1>5 DEF IInv

\* What the invariant says of one process.
LEMMA Unfold ==
    ASSUME IInv, NEW p \in Procs
    PROVE  /\ proc[p] \in Process
           /\ MemoryOK(proc[p])
           /\ CopyOK(p, proc[p], run.status, current, now)
           /\ proc[p].at \in Int /\ now \in Int /\ 0 <= now
           /\ run.status \in Status /\ LoadedClaim.kind \in Kinds
           /\ LoadedClaim \in Claims
<1>1. LoadedClaim \in Claims
  BY LoadedClaimType DEF IInv
<1>2. LoadedClaim.kind \in Kinds
  BY <1>1 DEF Claims
<1> QED
  BY <1>1, <1>2 DEF IInv, Typed, ProcsOK, Process, Times, NoTime, Dormant

\* Locations at which nothing a process has loaded is relied on.
Calm == Locations \ (Holding \cup {"start", "releaseRow", "releaseCas", "scheduleCas",
                        "scheduleRow", "settleCanceled", "cancelRow"})

\* At a calm location there is nothing to agree with the stored Run.
LEMMA CalmCopy ==
    ASSUME NEW p, NEW m, m.pc \in Calm, m.at = NoTime, NEW s, NEW c, now \in Nat
    PROVE  CopyOK(p, m, s, c, now)
BY DEF CopyOK, Calm, Holding, NoTime

\* A fresh process at a calm location is sound.
LEMMA FreshCalm ==
    ASSUME NEW w \in Calm
    PROVE  /\ MemoryOK(Fresh(w)) /\ Fresh(w) \in Process
           /\ Fresh(w).pc \in Calm /\ Fresh(w).at = NoTime
           /\ Fresh(w).pc = w /\ Fresh(w).goal = "exec"
           /\ Fresh(w).claim = NoClaim /\ Fresh(w).seen = NoClaim
BY FreshOK, FreshType DEF Calm, Holding

\* A process that leaves its work is sound.
LEMMA LeavingOK ==
    ASSUME IInv, NEW p \in Procs, NEW e \in {"none", "adapter", "conflict"}
    PROVE  /\ MemoryOK(Leaving(p, e))
           /\ Leaving(p, e).pc \in Calm /\ Leaving(p, e).at = NoTime
<1>1. proc[p] \in Process
  BY Unfold
<1>2. "leave" \in Calm
  BY DEF Calm, Locations, Holding
<1>3. Leaving(p, e) \in Process /\ Leaving(p, e).pc = "leave" /\ Leaving(p, e).at = NoTime
      /\ Leaving(p, e).claim = NoClaim /\ Leaving(p, e).seen = NoClaim
  <2> DEFINE f == Fresh("leave")
  <2>1. f \in Process /\ f.pc = "leave" /\ f.at = NoTime /\ f.claim = NoClaim /\ f.seen = NoClaim
    BY <1>2, FreshCalm
  <2>2. Leaving(p, e) = [f EXCEPT !.goal = proc[p].goal, !.exc = e, !.leased = proc[p].leased]
    BY DEF Leaving
  <2> HIDE DEF f
  <2> QED
    BY <1>1, <2>1, <2>2 DEF Process
<1> QED
  BY <1>2, <1>3, NoClaimFields DEF MemoryOK, ClaimingOK, ReleasingOK, GoalOK, CommitOK

\* A pending mirror write does not disturb what a process relies on.
LEMMA MirrorOK ==
    ASSUME NEW m, MemoryOK(m), NEW k \in Kinds \cup {"absent"}
    PROVE  LET n == [m EXCEPT !.mirror = k]
           IN  /\ MemoryOK(n)
               /\ n.pc = m.pc /\ n.status = m.status /\ n.claim = m.claim
               /\ n.seen = m.seen /\ n.at = m.at /\ n.goal = m.goal
<1> DEFINE n == [m EXCEPT !.mirror = k]
<1>1. /\ n \in Process
      /\ n.pc = m.pc /\ n.status = m.status /\ n.claim = m.claim
      /\ n.seen = m.seen /\ n.at = m.at /\ n.goal = m.goal
  BY DEF MemoryOK, Process
<1> QED
  BY <1>1 DEF MemoryOK, ClaimingOK, ReleasingOK, GoalOK, CommitOK

\* cas_mutate mirrors an execution claim or nothing.
LEMMA OverlayType ==
    ASSUME NEW k
    PROVE  Overlay(k) \in Kinds \cup {"absent"}
BY DEF Overlay, Kinds
-----------------------------------------------------------------------------
(* claim_recovery keeps the invariant                                      *)

\* A refused claim sends the process on with what it has loaded.
LEMMA RefusedOK ==
    ASSUME IInv, NEW p \in Procs, NEW m, MemoryOK(m),
           m.pc \in {"start", "idle", "listed", "claimRow", "claimUndo"},
           NEW cur, CopyOK(p, m, run.status, cur, now),
           p \in cur /\ m.goal = "exec" => m.status = run.status
    PROVE  /\ MemoryOK(Refused(p, m))
           /\ CopyOK(p, Refused(p, m), run.status, cur, now)
<1>1. CASE p \in Drivers
  <2>1. m.goal \in {"exec", "observe"}
    BY DEF MemoryOK, GoalOK, Process
  <2>2. Refused(p, m) = [m EXCEPT !.pc = m.goal]
    BY <1>1 DEF Refused
  <2> DEFINE n == [m EXCEPT !.pc = m.goal]
  <2>3. /\ n \in Process
        /\ n.pc = m.goal /\ n.status = m.status /\ n.claim = m.claim
        /\ n.seen = m.seen /\ n.at = m.at /\ n.goal = m.goal
    BY <2>1 DEF MemoryOK, Process, Locations
  <2>4. MemoryOK(n)
    BY <2>1, <2>3 DEF MemoryOK, ClaimingOK, ReleasingOK, GoalOK, CommitOK
  <2>5. CopyOK(p, n, run.status, cur, now)
    BY <2>1, <2>3 DEF CopyOK, Holding
  <2> QED
    BY <2>2, <2>4, <2>5
<1>2. CASE p \notin Drivers
  <2>1. "idle" \in Calm
    BY DEF Calm, Locations, Holding
  <2>2. now \in Nat
    BY DEF IInv, Typed
  <2> QED
    BY <1>2, <2>1, <2>2, FreshCalm, CalmCopy DEF Refused
<1> QED
  BY <1>1, <1>2

\* The loads and tests of claim_recovery.
LEMMA BeginClaimKeeps ==
    ASSUME IInv, NEW p \in Procs, NEW m, NEW a \in BOOLEAN, BeginClaim(p, m, a),
           MemoryOK(m), m.pc \in {"start", "idle", "listed"},
           CopyOK(p, m, run.status, current, now),
           p \in current /\ p \in Drivers => m.goal # "exec"
    PROVE  IInv'
<1> DEFINE cur == LoadedClaim
           refused == \/ ~Due(cur, now) /\ (cur.owner # NoOwner \/ ~a)
                      \/ HasRow /\ ~Due(row, now)
           template == IF HasRow THEN row ELSE RecoveryClaim("execution", NoTime)
           n == [m EXCEPT !.pc = "claimRow", !.status = run.status,
                          !.kind = cur.kind, !.seen = cur,
                          !.claim = template, !.at = now]
<1>1. CASE refused
  <2>1. Become(p, Refused(p, m)) /\ current' = current
    BY <1>1 DEF BeginClaim
  <2>2. UNCHANGED <<run, row, now, crashes>>
    BY DEF BeginClaim
  <2>3. MemoryOK(Refused(p, m)) /\ CopyOK(p, Refused(p, m), run.status, current, now)
    <3>1. CASE p \in Drivers
      BY <3>1, RefusedOK
    <3>2. CASE p \notin Drivers
      <4>1. "idle" \in Calm
        BY DEF Calm, Locations, Holding
      <4>2. now \in Nat
        BY DEF IInv, Typed
      <4> QED
        BY <3>2, <4>1, <4>2, FreshCalm, CalmCopy DEF Refused
    <3> QED
      BY <3>1, <3>2
  <2> QED
    BY <2>1, <2>2, <2>3, LocalStep
<1>2. CASE ~refused
  <2>1. Become(p, n) /\ current' = current \cup {p}
    BY <1>2 DEF BeginClaim
  <2>2. UNCHANGED <<run, row, now, crashes>>
    BY DEF BeginClaim
  <2>3. template \in Claims /\ Counted(template) /\ template.quarantined = "no"
    <3>1. CASE HasRow
      BY <1>2, <3>1, NoClaimFields DEF IInv, Typed, RowOK, HasRow, Due
    <3>2. CASE ~HasRow
      BY <3>2, RecoveryClaimType, TimeConstants DEF Kinds
    <3> QED
      BY <3>1, <3>2
  <2>4. cur \in Claims /\ Counted(cur) /\ cur.kind \in Kinds
    BY LoadedClaimType, Unfold DEF IInv
  <2>5. now \in Times /\ run.status \in Status
    BY BoundsAssumption DEF IInv, Typed, Times, NoTime, Dormant
  <2>6. m \in Process /\ m.goal # "shutdown"
    BY DEF MemoryOK, GoalOK
  <2> HIDE DEF template, cur
  <2>7. /\ n \in Process
        /\ n.pc = "claimRow" /\ n.status = run.status /\ n.claim = template
        /\ n.seen = cur /\ n.at = now /\ n.goal = m.goal
    BY <2>3, <2>4, <2>5, <2>6 DEF Process, Locations
  <2> HIDE DEF n
  <2>8. MemoryOK(n)
    BY <2>3, <2>4, <2>6, <2>7 DEF MemoryOK, ClaimingOK, ReleasingOK, GoalOK, CommitOK
  <2>9. CopyOK(p, n, run.status, current', now)
    BY <2>7 DEF CopyOK, IInv, Typed
  <2> QED
    BY <2>1, <2>2, <2>8, <2>9, LocalStep
<1> QED
  BY <1>1, <1>2

\* The conditional update of the row.
LEMMA ClaimRowKeeps ==
    ASSUME IInv, NEW p \in Procs, ClaimRow(p)
    PROVE  IInv'
<1> DEFINE c == proc[p].claim
           t == Upto(proc[p].at + LeaseTerm)
           taken == Owned(c, p, t)
           n == [proc[p] EXCEPT !.pc = "claimCas", !.claim = taken]
<1>1. /\ proc[p] \in Process /\ proc[p].pc = "claimRow" /\ MemoryOK(proc[p])
      /\ CopyOK(p, proc[p], run.status, current, now)
  BY Unfold DEF ClaimRow, At
<1>2. c \in Claims /\ proc[p].seen \in Claims /\ c.quarantined = "no" /\ Counted(c)
      /\ proc[p].goal # "shutdown"
  BY <1>1 DEF MemoryOK, ClaimingOK, GoalOK
<1>3. t \in Times /\ t # NoTime
  <2>1. proc[p].at \in Int /\ proc[p].at >= NoTime
    BY <1>1 DEF Process, Times, NoTime, Dormant
  <2>2. proc[p].at + LeaseTerm \in Int /\ proc[p].at + LeaseTerm >= 0
    BY <2>1, BoundsAssumption DEF NoTime
  <2> QED
    BY <2>2, UptoType DEF NoTime
<1> HIDE DEF c, t
<1>4. /\ taken \in Claims /\ Counted(taken)
      /\ taken.owner = p /\ taken.lease = t /\ taken.next = NoTime
      /\ taken.quarantined = "no" /\ taken.kind = c.kind
  BY <1>2, <1>3, TimeConstants DEF Owned, Claims, Counted
<1> HIDE DEF taken
<1>5. CASE ~HasRow \/ Claimable(row, proc[p].at)
  <2>1. row' = taken /\ Become(p, n) /\ UNCHANGED <<run, current, now, crashes>>
    BY <1>5 DEF ClaimRow, taken, t, c
  <2>2. /\ n \in Process
        /\ n.pc = "claimCas" /\ n.status = proc[p].status /\ n.claim = taken
        /\ n.seen = proc[p].seen /\ n.at = proc[p].at /\ n.goal = proc[p].goal
    BY <1>1, <1>4 DEF Process, Locations
  <2> HIDE DEF n
  <2>3. MemoryOK(n)
    BY <1>1, <1>2, <1>4, <2>2 DEF MemoryOK, ClaimingOK, ReleasingOK, GoalOK, CommitOK
  <2>4. CopyOK(p, n, run.status, current, now)
    BY <1>1, <2>2 DEF CopyOK, Holding
  <2>5. OwnedLeaseExpires'
    BY <1>3, <1>4, <2>1 DEF OwnedLeaseExpires
  <2> QED
    BY <1>4, <2>1, <2>3, <2>4, <2>5, RowStep
<1>6. CASE ~(~HasRow \/ Claimable(row, proc[p].at))
  <2>1. Become(p, Refused(p, proc[p])) /\ UNCHANGED <<run, row, current, now, crashes>>
    BY <1>6 DEF ClaimRow
  <2>2. p \in current => proc[p].status = run.status
    BY <1>1 DEF CopyOK, Holding
  <2>3. /\ MemoryOK(Refused(p, proc[p]))
        /\ CopyOK(p, Refused(p, proc[p]), run.status, current, now)
    BY <1>1, <2>2, RefusedOK
  <2> QED
    BY <2>1, <2>3, LocalStep
<1> QED
  BY <1>5, <1>6

\* The aggregate's compare-and-set after the row was won.
LEMMA ClaimAcceptedKeeps ==
    ASSUME IInv, NEW p \in Procs, ClaimAccepted(p)
    PROVE  IInv'
<1> DEFINE c == proc[p].claim
           w == Dispatch(p, run.status)
           f == Fresh(w)
           n == [f EXCEPT !.status = run.status, !.kind = c.kind, !.goal = proc[p].goal,
                          !.leased = "yes", !.mirror = Overlay(c.kind)]
<1>1. proc[p] \in Process /\ proc[p].pc = "claimCas" /\ MemoryOK(proc[p])
  BY Unfold DEF ClaimAccepted, At
<1>2. c.kind \in Kinds /\ proc[p].goal # "shutdown"
  BY <1>1 DEF MemoryOK, ClaimingOK, GoalOK, Claims
<1>3. /\ Valid(run.status, c.kind)
      /\ run' = [run EXCEPT !.status = run.status, !.kind = c.kind]
      /\ current' = {p} /\ p \in current
      /\ Become(p, n) /\ UNCHANGED <<row, now, crashes>>
  BY DEF ClaimAccepted, Cas
<1>4. /\ run \in [status : Status, requestedAt : Times, kind : Kinds, next : Times]
      /\ RunOK /\ now \in Nat
  BY DEF IInv, Typed
<1>5. /\ w \in {"exec", "observe", "settleCanceled", "settleFailed"}
      /\ w = "settleCanceled" => run.status = "canceling"
  BY <1>1, <1>2 DEF Dispatch, Process
<1>6. Overlay(c.kind) \in Kinds \cup {"absent"}
  BY OverlayType
<1>7. f \in Process /\ f.pc = w /\ f.at = NoTime /\ f.claim = NoClaim /\ f.seen = NoClaim
  BY <1>5, FreshType DEF Locations
<1> HIDE DEF c, w, f
<1>8. /\ n \in Process
      /\ n.pc = w /\ n.status = run.status /\ n.at = NoTime
      /\ n.claim = NoClaim /\ n.seen = NoClaim
  BY <1>1, <1>2, <1>4, <1>6, <1>7 DEF Process
<1> HIDE DEF n
<1>9. MemoryOK(n)
  BY <1>5, <1>8, NoClaimFields DEF MemoryOK, ClaimingOK, ReleasingOK, GoalOK, CommitOK
<1>10. /\ run' \in [status : Status, requestedAt : Times, kind : Kinds, next : Times]
       /\ run'.status = run.status /\ run'.requestedAt = run.requestedAt
       /\ run'.kind = c.kind
  BY <1>2, <1>3, <1>4
<1>11. RunOK'
  BY <1>3, <1>4, <1>10 DEF RunOK, CancelingRunsRecoverAsCancellation, Valid
<1>12. CopyOK(p, n, run'.status, current', now)
  BY <1>4, <1>5, <1>8, <1>10 DEF CopyOK, Ending, NoTime
<1> QED
  BY <1>3, <1>9, <1>10, <1>11, <1>12, RunStep

\* Validation that raises, and a lost compare-and-set with its undo.
LEMMA ClaimFailedKeeps ==
    ASSUME IInv, NEW p \in Procs, ClaimInvalid(p) \/ ClaimLost(p) \/ ClaimUndo(p)
    PROVE  IInv'
<1>1. /\ proc[p] \in Process /\ MemoryOK(proc[p])
      /\ CopyOK(p, proc[p], run.status, current, now) /\ now \in Nat
  BY Unfold DEF IInv, Typed
<1>2. CASE ClaimInvalid(p)
  <2>1. "idle" \in Calm
    BY DEF Calm, Locations, Holding
  <2>2. MemoryOK(Fresh("idle")) /\ CopyOK(p, Fresh("idle"), run.status, current, now)
    BY <1>1, <2>1, FreshCalm, CalmCopy
  <2> QED
    BY <1>2, <2>2, LocalStep DEF ClaimInvalid
<1>3. CASE ClaimLost(p)
  <2> DEFINE n == [proc[p] EXCEPT !.pc = "claimUndo"]
  <2>1. /\ n \in Process
        /\ n.pc = "claimUndo" /\ n.status = proc[p].status /\ n.claim = proc[p].claim
        /\ n.seen = proc[p].seen /\ n.at = proc[p].at /\ n.goal = proc[p].goal
    BY <1>1 DEF Process, Locations
  <2>2. proc[p].pc = "claimCas" /\ Become(p, n) /\ UNCHANGED <<run, row, current, now, crashes>>
    BY <1>3 DEF ClaimLost, At
  <2> HIDE DEF n
  <2>3. MemoryOK(n)
    BY <1>1, <2>1, <2>2 DEF MemoryOK, ClaimingOK, ReleasingOK, GoalOK, CommitOK
  <2>4. CopyOK(p, n, run.status, current, now)
    BY <1>1, <2>1, <2>2 DEF CopyOK, Holding
  <2> QED
    BY <2>2, <2>3, <2>4, LocalStep
<1>4. CASE ClaimUndo(p)
  <2> DEFINE released == Unowned(proc[p].seen)
             r == Refused(p, proc[p])
             n == [r EXCEPT !.mirror = released.kind]
  <2>1. proc[p].pc = "claimUndo" /\ UNCHANGED <<run, current, now, crashes>>
    BY <1>4 DEF ClaimUndo, At
  <2>2. proc[p].seen \in Claims /\ Counted(proc[p].seen)
    BY <1>1, <2>1 DEF MemoryOK, ClaimingOK
  <2>3. /\ released \in Claims /\ Counted(released) /\ released.owner = NoOwner
        /\ released.kind \in Kinds
    BY <2>2, TimeConstants DEF Unowned, Claims, Counted
  <2>4. p \in current => proc[p].status = run.status
    BY <1>1, <2>1 DEF CopyOK, Holding
  <2>5. MemoryOK(r) /\ CopyOK(p, r, run.status, current, now)
    BY <1>1, <2>1, <2>4, RefusedOK
  <2> HIDE DEF r, released
  <2>6. CASE row.owner = p
    <3>1. row' = released /\ Become(p, n)
      BY <1>4, <2>6 DEF ClaimUndo, r, released
    <3>2. MemoryOK(n) /\ CopyOK(p, n, run.status, current, now)
      BY <2>3, <2>5, MirrorOK DEF CopyOK
    <3>3. OwnedLeaseExpires'
      BY <2>3, <3>1 DEF OwnedLeaseExpires
    <3> QED
      BY <2>1, <2>3, <3>1, <3>2, <3>3, RowStep
  <2>7. CASE row.owner # p
    <3>1. row' = row /\ Become(p, r)
      BY <1>4, <2>7 DEF ClaimUndo, r
    <3> QED
      BY <2>1, <2>5, <3>1, LocalStep
  <2> QED
    BY <2>6, <2>7
<1> QED
  BY <1>2, <1>3, <1>4
-----------------------------------------------------------------------------
(* Mirror writes, renewal and the kernel keep the invariant                *)

\* The unversioned mirror write never puts an execution claim onto a canceling
\* aggregate.
LEMMA MirrorKeeps ==
    ASSUME IInv, NEW p \in Procs, Mirror(p)
    PROVE  IInv'
<1> DEFINE n == [proc[p] EXCEPT !.mirror = "absent"]
<1>1. /\ MemoryOK(proc[p]) /\ CopyOK(p, proc[p], run.status, current, now)
      /\ proc[p].mirror \in Kinds
  BY Unfold DEF Mirror, Process
<1>2. MemoryOK(n) /\ CopyOK(p, n, run.status, current, now)
  BY <1>1, MirrorOK DEF CopyOK
<1>3. Become(p, n) /\ UNCHANGED <<row, current, now, crashes>>
  BY DEF Mirror
<1>4. run \in [status : Status, requestedAt : Times, kind : Kinds, next : Times]
      /\ RunOK
  BY DEF IInv, Typed
<1>5. /\ run' \in [status : Status, requestedAt : Times, kind : Kinds, next : Times]
      /\ run'.status = run.status /\ run'.requestedAt = run.requestedAt
      /\ run'.kind = run.kind \/ run'.kind = "cancellation" \/ run.status # "canceling"
  BY <1>1, <1>4 DEF Mirror
<1>6. RunOK'
  BY <1>4, <1>5 DEF RunOK, CancelingRunsRecoverAsCancellation
<1>7. CopyOK(p, n, run'.status, current', now)
  BY <1>2, <1>3, <1>5
<1> QED
  BY <1>2, <1>3, <1>5, <1>6, <1>7, RunStep

\* A renewal only moves the expiry of a lease the process owns.
LEMMA RenewKeeps ==
    ASSUME IInv, NEW p \in Procs, Renew(p)
    PROVE  IInv'
<1> DEFINE n == [proc[p] EXCEPT !.mirror = row.kind]
           renewed == [row EXCEPT !.lease = In(LeaseTerm)]
<1>1. row.owner = p /\ row' = renewed /\ Become(p, n)
      /\ UNCHANGED <<run, current, now, crashes>>
  BY DEF Renew
<1>2. row \in Claims /\ Counted(row) /\ OwnedLeaseExpires
  BY <1>1, NoClaimFields, ActorsAssumption DEF IInv, Typed, RowOK
<1>3. In(LeaseTerm) \in Times /\ In(LeaseTerm) # NoTime
  BY InType, BoundsAssumption DEF IInv, Typed
<1>4. /\ row' \in Claims /\ row'.owner = row.owner /\ row'.next = row.next
      /\ row'.quarantined = row.quarantined /\ row'.fails = row.fails
      /\ row'.lease = In(LeaseTerm) /\ row.kind \in Kinds
  BY <1>1, <1>2, <1>3 DEF Claims
<1>5. Counted(row') /\ OwnedLeaseExpires'
  BY <1>2, <1>3, <1>4 DEF Counted, OwnedLeaseExpires
<1>6. MemoryOK(proc[p]) /\ CopyOK(p, proc[p], run.status, current, now)
  BY Unfold
<1>7. MemoryOK(n) /\ CopyOK(p, n, run.status, current, now)
  BY <1>4, <1>6, MirrorOK DEF CopyOK
<1> QED
  BY <1>1, <1>4, <1>5, <1>7, RowStep

\* Steps that end the work of p, whatever the outcome.
LEMMA LeavingKeeps ==
    ASSUME IInv, NEW p \in Procs, NEW e \in {"none", "adapter", "conflict"},
           Become(p, Leaving(p, e)), current' \subseteq current \cup {p},
           UNCHANGED <<run, row, now, crashes>>
    PROVE  IInv'
<1>1. /\ MemoryOK(Leaving(p, e))
      /\ Leaving(p, e).pc \in Calm /\ Leaving(p, e).at = NoTime
  BY LeavingOK
<1>2. now \in Nat
  BY DEF IInv, Typed
<1>3. CopyOK(p, Leaving(p, e), run.status, current', now)
  BY <1>1, <1>2, CalmCopy
<1> QED
  BY <1>1, <1>3, LocalStep

\* A process that has just loaded the Run.
LEMMA LoadOK ==
    ASSUME IInv, NEW p \in Procs
    PROVE  LET m == Load(p)
           IN  /\ m \in Process
               /\ m.pc = proc[p].pc /\ m.status = run.status /\ m.kind = LoadedClaim.kind
               /\ m.claim = proc[p].claim /\ m.seen = proc[p].seen
               /\ m.at = proc[p].at /\ m.goal = proc[p].goal
BY Unfold DEF Load, Process

\* A load keeps the invariant when the loaded status suits what follows.
LEMMA LoadingKeeps ==
    ASSUME IInv, NEW p \in Procs, NEW w \in {"exec", "commitFailed", "commitCanceled"},
           Become(p, [Load(p) EXCEPT !.pc = w]), current' \subseteq current \cup {p},
           w = "commitFailed" => run.status \notin Ending,
           w = "commitCanceled" => run.status = "canceling",
           UNCHANGED <<run, row, now, crashes>>
    PROVE  IInv'
<1> DEFINE l == Load(p)
           n == [l EXCEPT !.pc = w]
<1>1. /\ l \in Process
      /\ l.status = run.status /\ l.claim = proc[p].claim /\ l.seen = proc[p].seen
      /\ l.at = proc[p].at
  BY LoadOK
<1>2. MemoryOK(proc[p]) /\ CopyOK(p, proc[p], run.status, current, now)
  BY Unfold
<1>3. Become(p, n)
  OBVIOUS
<1> HIDE DEF l
<1>4. /\ n \in Process
      /\ n.pc = w /\ n.status = run.status /\ n.claim = proc[p].claim
      /\ n.seen = proc[p].seen /\ n.at = proc[p].at
  BY <1>1 DEF Process, Locations
<1> HIDE DEF n
<1>5. MemoryOK(n)
  BY <1>2, <1>4 DEF MemoryOK, ClaimingOK, ReleasingOK, GoalOK, CommitOK
<1>6. CopyOK(p, n, run.status, current', now)
  BY <1>2, <1>4 DEF CopyOK, Ending
<1> QED
  BY <1>3, <1>5, <1>6, LocalStep

\* The kernel's loads, returns and failures.
LEMMA KernelLocalKeeps ==
    ASSUME IInv, NEW p \in Procs,
           \/ Observe(p) \/ KernelLoad(p) \/ KernelReturn(p) \/ KernelLost(p)
           \/ KernelRaise(p) \/ CommitLost(p) \/ LoseLease(p)
    PROVE  IInv'
<1>1. CASE Observe(p)
  <2>1. CASE run.status \in Suspended
    BY <1>1, <2>1, LoadingKeeps DEF Observe
  <2>2. CASE run.status \notin Suspended
    BY <1>1, <2>2, LeavingKeeps DEF Observe
  <2> QED
    BY <2>1, <2>2
<1>2. CASE KernelLoad(p)
  <2> DEFINE l == Load(p)
  <2>1. l \in Process /\ l.pc = "exec" /\ [l EXCEPT !.pc = "exec"] = l
    <3>1. l \in Process /\ l.pc = "exec"
      BY <1>2, LoadOK DEF KernelLoad, At
    <3> HIDE DEF l
    <3> QED
      BY <3>1 DEF Process
  <2>2. /\ Become(p, [Load(p) EXCEPT !.pc = "exec"]) /\ current' = current \cup {p}
        /\ UNCHANGED <<run, row, now, crashes>>
    BY <1>2, <2>1 DEF KernelLoad
  <2> QED
    BY <2>2, LoadingKeeps
<1>3. CASE KernelReturn(p)
  BY <1>3, LeavingKeeps DEF KernelReturn
<1>4. CASE KernelLost(p)
  BY <1>4, LeavingKeeps DEF KernelLost
<1>5. CASE KernelRaise(p)
  BY <1>5, LeavingKeeps DEF KernelRaise
<1>6. CASE CommitLost(p)
  BY <1>6, LeavingKeeps DEF CommitLost
<1>7. CASE LoseLease(p)
  BY <1>7, LeavingKeeps DEF LoseLease
<1> QED
  BY <1>1, <1>2, <1>3, <1>4, <1>5, <1>6, <1>7

\* terminalize loads, and steps back for a winner.
LEMMA SettleKeeps ==
    ASSUME IInv, NEW p \in Procs, Settle(p)
    PROVE  IInv'
<1> DEFINE commit == IF proc[p].pc = "settleFailed" THEN "commitFailed" ELSE "commitCanceled"
           lost == \/ run.status \in Terminal
                   \/ run.status = "canceling" /\ proc[p].pc = "settleFailed"
<1>1. current' = current \cup {p} /\ UNCHANGED <<run, row, now, crashes>>
  BY DEF Settle
<1>2. CASE lost
  BY <1>1, <1>2, LeavingKeeps DEF Settle
<1>3. CASE ~lost
  <2>1. Become(p, [Load(p) EXCEPT !.pc = commit])
    BY <1>3 DEF Settle
  <2>2. CASE proc[p].pc = "settleFailed"
    BY <1>1, <1>3, <2>1, <2>2, LoadingKeeps DEF Ending
  <2>3. CASE proc[p].pc = "settleCanceled"
    <3>1. run.status = "canceling"
      BY <1>3, <2>3, Unfold DEF CopyOK, Ending
    <3> QED
      BY <1>1, <2>1, <2>3, <3>1, LoadingKeeps
  <2> QED
    BY <2>2, <2>3 DEF Settle, At
<1> QED
  BY <1>2, <1>3

\* A versioned write of the aggregate that leaves the cancelling to others.
LEMMA CasKeeps ==
    ASSUME IInv, NEW p \in Procs, NEW s \in Status, NEW k \in Kinds, Cas(p, s, k),
           NEW m, Become(p, m), MemoryOK(m), CopyOK(p, m, s, {p}, now),
           s = "canceling" => k = "cancellation",
           run.status \in Ending => s \in Ending,
           UNCHANGED <<row, now, crashes>>
    PROVE  IInv'
<1>1. /\ run \in [status : Status, requestedAt : Times, kind : Kinds, next : Times]
      /\ RunOK
  BY DEF IInv, Typed
<1>2. run' = [run EXCEPT !.status = s, !.kind = k] /\ current' = {p}
  BY DEF Cas
<1>3. /\ run' \in [status : Status, requestedAt : Times, kind : Kinds, next : Times]
      /\ run'.status = s /\ run'.kind = k /\ run'.requestedAt = run.requestedAt
  BY <1>1, <1>2
<1>4. RunOK'
  BY <1>1, <1>3 DEF RunOK, CancelingRunsRecoverAsCancellation
<1> QED
  BY <1>2, <1>3, <1>4, RunStep

\* Where the kernel's checkpoints lead, from the status its copy has.
LEMMA CheckpointsLead ==
    ASSUME NEW st \in Status, NEW s \in Checkpoints(st)
    PROVE  /\ st \notin Ending
           /\ s \in Status /\ s # "canceling"
           /\ \/ st = "running" /\ s \in {"running", "finalizing", "failed", "budget_exhausted"} \cup Suspended
              \/ st = "finalizing" /\ s \in {"completed", "failed"}
              \/ st \in Suspended /\ s \in {"running", "failed"} \cup Suspended
BY DEF Checkpoints, Status, Suspended, Active, Terminal, Ending

\* A checkpoint starts from the stored status, because its version matched.
LEMMA KernelCheckpointKeeps ==
    ASSUME IInv, NEW p \in Procs, KernelCheckpoint(p)
    PROVE  IInv'
<1>1. PICK s \in Checkpoints(proc[p].status) :
         /\ Cas(p, s, proc[p].kind)
         /\ Become(p, [proc[p] EXCEPT !.status = s, !.mirror = Overlay(proc[p].kind)])
  BY DEF KernelCheckpoint
<1> DEFINE n == [proc[p] EXCEPT !.status = s, !.mirror = Overlay(proc[p].kind)]
<1>2. /\ proc[p] \in Process /\ MemoryOK(proc[p]) /\ proc[p].pc = "exec"
      /\ CopyOK(p, proc[p], run.status, current, now)
  BY Unfold DEF KernelCheckpoint, At
<1>3. p \in current /\ proc[p].status = run.status /\ proc[p].status \in Status
      /\ proc[p].kind \in Kinds
  BY <1>1, <1>2 DEF Cas, CopyOK, Holding, Process
<1>4. s \in Status /\ s # "canceling" /\ run.status \notin Ending
  BY <1>3, CheckpointsLead
<1>5. Overlay(proc[p].kind) \in Kinds \cup {"absent"}
  BY OverlayType
<1>6. /\ n \in Process
      /\ n.pc = "exec" /\ n.status = s /\ n.claim = proc[p].claim
      /\ n.seen = proc[p].seen /\ n.at = proc[p].at
  BY <1>2, <1>4, <1>5 DEF Process
<1>7. Become(p, n) /\ UNCHANGED <<row, now, crashes>>
  BY <1>1 DEF KernelCheckpoint
<1> HIDE DEF n
<1>8. MemoryOK(n)
  BY <1>2, <1>6 DEF MemoryOK, ClaimingOK, ReleasingOK, GoalOK, CommitOK
<1>9. CopyOK(p, n, s, {p}, now)
  BY <1>2, <1>6 DEF CopyOK
<1> QED
  BY <1>1, <1>3, <1>4, <1>7, <1>8, <1>9, CasKeeps

\* A terminal commit keeps the invariant.
LEMMA CommitKeeps ==
    ASSUME IInv, NEW p \in Procs, Commit(p)
    PROVE  IInv'
<1> DEFINE s == IF proc[p].pc = "commitFailed" THEN "failed" ELSE "canceled"
           l == Leaving(p, "none")
           n == [l EXCEPT !.mirror = Overlay(proc[p].kind)]
<1>1. Cas(p, s, proc[p].kind) /\ Become(p, n) /\ UNCHANGED <<row, now, crashes>>
  BY DEF Commit
<1>2. s \in Status /\ s # "canceling" /\ s \in Ending
  BY DEF Status, Terminal, Ending
<1>3. proc[p].kind \in Kinds
  BY Unfold DEF Process
<1>4. Overlay(proc[p].kind) \in Kinds \cup {"absent"}
  BY OverlayType
<1>5. MemoryOK(l) /\ l.pc \in Calm /\ l.at = NoTime
  BY LeavingOK
<1> HIDE DEF l, s
<1>6. MemoryOK(n) /\ n.pc \in Calm /\ n.at = NoTime
  BY <1>4, <1>5, MirrorOK
<1>7. now \in Nat
  BY DEF IInv, Typed
<1>8. CopyOK(p, n, s, {p}, now)
  BY <1>6, <1>7, CalmCopy
<1> QED
  BY <1>1, <1>2, <1>3, <1>6, <1>8, CasKeeps
-----------------------------------------------------------------------------
(* release_recovery and schedule_recovery keep the invariant               *)

\* A fresh process at a calm location, whatever it has pending or has failed with.
LEMMA CalmKeeps ==
    ASSUME IInv, NEW p \in Procs, NEW m, Become(p, m), MemoryOK(m), m.pc \in Calm,
           m.at = NoTime, current' \subseteq current \cup {p},
           UNCHANGED <<run, row, now, crashes>>
    PROVE  IInv'
<1>1. now \in Nat
  BY DEF IInv, Typed
<1>2. CopyOK(p, m, run.status, current', now)
  BY <1>1, CalmCopy
<1> QED
  BY <1>2, LocalStep

\* What Through leads to is sound.
LEMMA ThroughOK ==
    ASSUME IInv, NEW p \in Procs
    PROVE  MemoryOK(Through(p)) /\ Through(p).pc \in Calm /\ Through(p).at = NoTime
<1>1. {"done", "dead", "idle", "schedule"} \subseteq Calm
  BY DEF Calm, Locations, Holding
<1>2. \/ Through(p) \in {Fresh("done"), Fresh("dead"), Fresh("idle")}
      \/ Through(p) = [Fresh("schedule") EXCEPT !.exc = "adapter"]
  BY DEF Through
<1>3. CASE Through(p) \in {Fresh("done"), Fresh("dead"), Fresh("idle")}
  BY <1>1, <1>3, FreshCalm
<1>4. CASE Through(p) = [Fresh("schedule") EXCEPT !.exc = "adapter"]
  <2> DEFINE f == Fresh("schedule")
             n == [f EXCEPT !.exc = "adapter"]
  <2>1. f \in Process /\ f.pc = "schedule" /\ f.at = NoTime
        /\ f.claim = NoClaim /\ f.seen = NoClaim
    BY <1>1, FreshCalm
  <2>2. Through(p) = n
    BY <1>4
  <2> HIDE DEF f
  <2>3. n \in Process /\ n.pc = "schedule" /\ n.at = NoTime
        /\ n.claim = NoClaim /\ n.seen = NoClaim
    BY <2>1 DEF Process
  <2> HIDE DEF n
  <2>4. MemoryOK(n)
    BY <2>3, NoClaimFields DEF MemoryOK, ClaimingOK, ReleasingOK, GoalOK, CommitOK
  <2> QED
    BY <1>1, <2>2, <2>3, <2>4
<1> QED
  BY <1>2, <1>3, <1>4

\* A released claim is unowned, keeps its kind, and is quarantined exactly when
\* its failures are used up.
LEMMA ReleaseType ==
    ASSUME IInv, NEW p \in Procs, LoadedClaim.owner = p
    PROVE  \A c \in {WorkerRelease(p, LoadedClaim), DriverRelease(LoadedClaim)} :
              /\ c \in Claims /\ Counted(c)
              /\ c.owner = NoOwner /\ c.kind = LoadedClaim.kind
<1> DEFINE cur == LoadedClaim
           fails == IF proc[p].exc = "conflict" THEN cur.fails + 1 ELSE 0
           quarantine == fails >= MaxInvariantFailures
           next == IF proc[p].exc = "none" THEN NextAttempt(run.status, In(RetryTerm))
                   ELSE IF quarantine THEN NoTime ELSE In(RetryTerm)
           base == RecoveryClaim(cur.kind, next)
           mark == IF quarantine THEN "yes" ELSE "no"
           w == [base EXCEPT !.fails = fails, !.quarantined = mark]
<1>1. In(RetryTerm) \in Times /\ In(DeadlineTerm) \in Times
  BY InType, BoundsAssumption DEF IInv, Typed
<1>2. /\ NextAttempt(run.status, In(RetryTerm)) \in Times
      /\ NextAttempt(run.status, In(DeadlineTerm)) \in Times
  BY <1>1, TimeConstants DEF NextAttempt
<1>3. cur \in Claims /\ Counted(cur) /\ cur.quarantined = "no" /\ cur.kind \in Kinds
  <2>1. p # NoOwner
    BY ActorsAssumption
  <2>2. cur = row /\ row.quarantined = "no"
    BY <2>1, LoadedClaimType DEF IInv, RowOK, OwnedLeaseExpires
  <2> QED
    BY <2>2, LoadedClaimType DEF IInv, Claims
<1>4. fails \in 0 .. MaxInvariantFailures
  <2>1. cur.fails \in 0 .. MaxInvariantFailures
    BY <1>3 DEF Claims
  <2>2. cur.fails # MaxInvariantFailures
    BY <1>3 DEF Counted
  <2> QED
    BY <2>1, <2>2, BoundsAssumption
<1>5. next \in Times
  BY <1>1, <1>2, TimeConstants
<1> HIDE DEF fails, next
<1>6. base \in Claims /\ base.owner = NoOwner /\ base.kind = cur.kind
  BY <1>3, <1>5, RecoveryClaimType
<1>7. mark \in {"yes", "no"} /\ (mark = "yes" <=> fails = MaxInvariantFailures)
  BY <1>4, BoundsAssumption
<1> HIDE DEF base, mark
<1>8. w \in Claims /\ Counted(w) /\ w.owner = NoOwner /\ w.kind = cur.kind
  <2>1. w \in Claims /\ w.owner = NoOwner /\ w.kind = cur.kind
    BY <1>4, <1>6, <1>7 DEF Claims
  <2>2. w.quarantined = mark /\ w.fails = fails
    BY <1>6 DEF Claims
  <2> QED
    BY <1>7, <2>1, <2>2 DEF Counted
<1>9. WorkerRelease(p, cur) = w
  BY DEF WorkerRelease, fails, next, base, mark
<1>10. /\ DriverRelease(cur) \in Claims /\ Counted(DriverRelease(cur))
       /\ DriverRelease(cur).owner = NoOwner /\ DriverRelease(cur).kind = cur.kind
  BY <1>2, <1>3, RecoveryClaimType DEF DriverRelease
<1> QED
  BY <1>8, <1>9, <1>10

\* A process about to release the row with claim c.
LEMMA ReleasingType ==
    ASSUME NEW m \in Process, NEW c \in Claims
    PROVE  LET n == [m EXCEPT !.leased = "no", !.pc = "releaseRow", !.claim = c]
           IN  /\ n \in Process
               /\ n.pc = "releaseRow" /\ n.claim = c /\ n.seen = m.seen
               /\ n.at = m.at
<1> DEFINE a == [m EXCEPT !.leased = "no"]
           b == [a EXCEPT !.pc = "releaseRow"]
           n == [b EXCEPT !.claim = c]
<1>1. a \in Process /\ a.seen = m.seen /\ a.at = m.at
  BY DEF Process
<1> HIDE DEF a
<1>2. b \in Process /\ b.pc = "releaseRow" /\ b.seen = m.seen /\ b.at = m.at
  BY <1>1 DEF Process, Locations
<1> HIDE DEF b
<1>3. n \in Process /\ n.pc = b.pc /\ n.claim = c /\ n.seen = b.seen /\ n.at = b.at
  BY <1>2 DEF Process
<1>4. n = [m EXCEPT !.leased = "no", !.pc = "releaseRow", !.claim = c]
  BY DEF a, b
<1> QED
  BY <1>2, <1>3, <1>4

\* The caller's load, and the release it decides on.
LEMMA LeaveKeeps ==
    ASSUME IInv, NEW p \in Procs, Leave(p)
    PROVE  IInv'
<1> DEFINE cur == LoadedClaim
           keep == proc[p].goal = "shutdown" /\ proc[p].exc # "none"
           release == ~keep /\ proc[p].leased = "yes" /\ cur.owner = p
           c == IF p \in Drivers THEN DriverRelease(cur) ELSE WorkerRelease(p, cur)
           n == [proc[p] EXCEPT !.leased = "no", !.pc = "releaseRow", !.claim = c]
<1>1. proc[p].pc = "leave" /\ UNCHANGED <<run, row, now, crashes>>
      /\ current' \subseteq current \cup {p}
  BY DEF Leave, At
<1>2. CASE release
  <2>1. Become(p, n)
    BY <1>2 DEF Leave
  <2>2. c \in Claims /\ Counted(c) /\ c.owner = NoOwner /\ c.kind = cur.kind
    BY <1>2, ReleaseType
  <2>3. /\ proc[p] \in Process /\ MemoryOK(proc[p])
        /\ CopyOK(p, proc[p], run.status, current, now)
    BY Unfold
  <2>4. run.status = "canceling" => cur.kind = "cancellation"
    BY LoadedClaimType DEF IInv
  <2> HIDE DEF c, cur
  <2>5. /\ n \in Process
        /\ n.pc = "releaseRow" /\ n.claim = c /\ n.seen = proc[p].seen
        /\ n.at = proc[p].at
    BY <2>2, <2>3, ReleasingType
  <2> HIDE DEF n
  <2>6. MemoryOK(n)
    BY <2>2, <2>3, <2>5 DEF MemoryOK, ClaimingOK, ReleasingOK, GoalOK, CommitOK
  <2>7. CopyOK(p, n, run.status, current', now)
    BY <2>2, <2>3, <2>4, <2>5 DEF CopyOK, Holding
  <2> QED
    BY <1>1, <2>1, <2>6, <2>7, LocalStep
<1>3. CASE ~release /\ keep
  <2>1. Become(p, Fresh(Death(p)))
    BY <1>3 DEF Leave
  <2>2. Death(p) \in Calm
    BY DEF Death, Calm, Locations, Holding
  <2> QED
    BY <1>1, <2>1, <2>2, FreshCalm, CalmKeeps
<1>4. CASE ~release /\ ~keep
  <2>1. Become(p, Through(p))
    BY <1>4 DEF Leave
  <2> QED
    BY <1>1, <2>1, ThroughOK, CalmKeeps
<1> QED
  BY <1>2, <1>3, <1>4

\* The release of the row, then of the aggregate.
LEMMA ReleaseKeeps ==
    ASSUME IInv, NEW p \in Procs, ReleaseRow(p) \/ ReleaseCas(p) \/ ReleaseMirror(p)
    PROVE  IInv'
<1>1. /\ proc[p] \in Process /\ MemoryOK(proc[p])
      /\ CopyOK(p, proc[p], run.status, current, now) /\ now \in Nat
      /\ proc[p].pc \in {"releaseRow", "releaseCas"}
  BY Unfold DEF IInv, Typed, ReleaseRow, ReleaseCas, ReleaseMirror, At
<1>2. /\ proc[p].claim \in Claims /\ proc[p].claim.owner = NoOwner /\ Counted(proc[p].claim)
      /\ proc[p].claim.kind \in Kinds
  BY <1>1 DEF MemoryOK, ReleasingOK, Claims
<1>3. ASSUME NEW k \in Kinds \cup {"absent"}
      PROVE  LET n == [Through(p) EXCEPT !.mirror = k]
             IN  MemoryOK(n) /\ n.pc \in Calm /\ n.at = NoTime
  BY ThroughOK, MirrorOK
<1>4. CASE ReleaseRow(p)
  <2> DEFINE n == [proc[p] EXCEPT !.pc = "releaseCas"]
  <2>1. UNCHANGED <<run, current, now, crashes>> /\ proc[p].pc = "releaseRow"
    BY <1>4 DEF ReleaseRow, At
  <2>2. CASE row' = proc[p].claim /\ Become(p, n)
    <3>1. /\ n \in Process
          /\ n.pc = "releaseCas" /\ n.claim = proc[p].claim /\ n.seen = proc[p].seen
          /\ n.at = proc[p].at
      BY <1>1 DEF Process, Locations
    <3>2. MemoryOK(n)
      BY <1>1, <1>2, <3>1 DEF MemoryOK, ClaimingOK, ReleasingOK, GoalOK, CommitOK
    <3>3. CopyOK(p, n, run.status, current, now)
      BY <1>1, <3>1, <2>1 DEF CopyOK, Holding
    <3>4. OwnedLeaseExpires'
      BY <1>2, <2>2 DEF OwnedLeaseExpires
    <3> HIDE DEF n
    <3> QED
      BY <1>2, <2>1, <2>2, <3>2, <3>3, <3>4, RowStep
  <2>3. CASE Become(p, Through(p)) /\ UNCHANGED row
    BY <2>1, <2>3, ThroughOK, CalmKeeps
  <2> QED
    BY <1>4, <2>2, <2>3 DEF ReleaseRow
<1>5. CASE ReleaseCas(p)
  <2> DEFINE n == [Through(p) EXCEPT !.mirror = Overlay(proc[p].claim.kind)]
  <2>1. /\ Cas(p, run.status, proc[p].claim.kind) /\ Become(p, n)
        /\ UNCHANGED <<row, now, crashes>> /\ proc[p].pc = "releaseCas"
    BY <1>5 DEF ReleaseCas, At
  <2>2. MemoryOK(n) /\ n.pc \in Calm /\ n.at = NoTime
    BY <1>3, OverlayType
  <2> HIDE DEF n
  <2>3. CopyOK(p, n, run.status, {p}, now)
    BY <1>1, <2>2, CalmCopy
  <2>4. run.status = "canceling" => proc[p].claim.kind = "cancellation"
    BY <1>1, <2>1 DEF Cas, CopyOK
  <2>5. run.status \in Status
    BY DEF IInv, Typed
  <2> QED
    BY <1>2, <2>1, <2>2, <2>3, <2>4, <2>5, CasKeeps
<1>6. CASE ReleaseMirror(p)
  <2> DEFINE n == [Through(p) EXCEPT !.mirror = proc[p].claim.kind]
  <2>1. Become(p, n) /\ UNCHANGED <<run, row, current, now, crashes>>
    BY <1>6 DEF ReleaseMirror
  <2>2. MemoryOK(n) /\ n.pc \in Calm /\ n.at = NoTime
    BY <1>2, <1>3
  <2> HIDE DEF n
  <2> QED
    BY <2>1, <2>2, CalmKeeps
<1> QED
  BY <1>4, <1>5, <1>6

\* What a scheduling process is about to write.
LEMMA SchedulingType ==
    ASSUME IInv, NEW p \in Procs
    PROVE  Target(p) \in Times
BY InType, BoundsAssumption DEF IInv, Typed, Target

\* schedule_recovery and its retries.
LEMMA ScheduleKeeps ==
    ASSUME IInv, NEW p \in Procs, ScheduleStep(p)
    PROVE  IInv'
<1>1. /\ proc[p] \in Process /\ MemoryOK(proc[p])
      /\ CopyOK(p, proc[p], run.status, current, now) /\ now \in Nat
  BY Unfold DEF IInv, Typed
<1>2. {"observe", "idle", "schedule"} \subseteq Calm
  BY DEF Calm, Locations, Holding
<1>3. MemoryOK(Scheduled(p)) /\ Scheduled(p).pc \in Calm /\ Scheduled(p).at = NoTime
  BY <1>2, FreshCalm DEF Scheduled
<1>4. CASE ScheduleLoad(p)
  <2> DEFINE cur == LoadedClaim
             needed == /\ run.status \notin Terminal \cup {"canceling"}
                       /\ cur.kind = "execution"
                       /\ cur.owner = NoOwner
                       /\ cur.quarantined = "no"
                       /\ cur.next > Target(p)
             c == [cur EXCEPT !.next = Target(p)]
             l == Load(p)
             n == [l EXCEPT !.pc = "scheduleCas", !.seen = cur, !.claim = c]
  <2>1. /\ UNCHANGED <<run, row, now, crashes>> /\ current' \subseteq current \cup {p}
        /\ proc[p].pc = "schedule"
    BY <1>4 DEF ScheduleLoad, At
  <2>2. CASE needed
    <3>1. Become(p, n)
      BY <1>4, <2>2 DEF ScheduleLoad
    <3>2. cur \in Claims /\ Counted(cur) /\ cur.owner = NoOwner
      BY <2>2, LoadedClaimType DEF IInv
    <3>3. Target(p) \in Times
      BY SchedulingType
    <3>4. l \in Process /\ l.at = proc[p].at
      BY LoadOK
    <3> HIDE DEF cur, l
    <3>5. c \in Claims /\ Counted(c) /\ c.owner = NoOwner
      BY <3>2, <3>3 DEF Claims, Counted
    <3> HIDE DEF c
    <3>6. /\ n \in Process
          /\ n.pc = "scheduleCas" /\ n.claim = c /\ n.seen = cur /\ n.at = proc[p].at
      BY <3>2, <3>4, <3>5 DEF Process, Locations
    <3> HIDE DEF n
    <3>7. MemoryOK(n)
      BY <3>2, <3>5, <3>6 DEF MemoryOK, ClaimingOK, ReleasingOK, GoalOK, CommitOK
    <3>8. CopyOK(p, n, run.status, current', now)
      BY <1>1, <3>6 DEF CopyOK, Holding
    <3> QED
      BY <2>1, <3>1, <3>7, <3>8, LocalStep
  <2>3. CASE ~needed
    <3>1. Become(p, Scheduled(p))
      BY <1>4, <2>3 DEF ScheduleLoad
    <3> QED
      BY <1>3, <2>1, <3>1, CalmKeeps
  <2> QED
    BY <2>2, <2>3
<1>5. CASE ScheduleCas(p)
  <2> DEFINE o == Overlay("execution")
             n == [proc[p] EXCEPT !.pc = "scheduleRow", !.mirror = o]
  <2>1. /\ proc[p].pc = "scheduleCas" /\ p \in current
        /\ run' = [run EXCEPT !.next = proc[p].claim.next]
        /\ current' = {p} /\ Become(p, n) /\ UNCHANGED <<row, now, crashes>>
    BY <1>5 DEF ScheduleCas, At
  <2>2. o \in Kinds \cup {"absent"}
    BY OverlayType
  <2>3. proc[p].claim \in Claims /\ proc[p].claim.next \in Times
    BY <1>1, <2>1 DEF MemoryOK, ReleasingOK, Claims
  <2> HIDE DEF o
  <2>4. /\ n \in Process
        /\ n.pc = "scheduleRow" /\ n.claim = proc[p].claim /\ n.seen = proc[p].seen
        /\ n.at = proc[p].at
    <3> DEFINE a == [proc[p] EXCEPT !.pc = "scheduleRow"]
    <3>1. /\ a \in Process
          /\ a.pc = "scheduleRow" /\ a.claim = proc[p].claim /\ a.seen = proc[p].seen
          /\ a.at = proc[p].at
      BY <1>1 DEF Process, Locations
    <3>2. n = [a EXCEPT !.mirror = o]
      OBVIOUS
    <3> HIDE DEF a, n
    <3> QED
      BY <2>2, <3>1, <3>2 DEF Process
  <2> HIDE DEF n
  <2>5. MemoryOK(n)
    BY <1>1, <2>1, <2>4 DEF MemoryOK, ClaimingOK, ReleasingOK, GoalOK, CommitOK
  <2>6. run \in [status : Status, requestedAt : Times, kind : Kinds, next : Times] /\ RunOK
    BY DEF IInv, Typed
  <2>7. /\ run' \in [status : Status, requestedAt : Times, kind : Kinds, next : Times]
        /\ run'.status = run.status /\ run'.kind = run.kind
        /\ run'.requestedAt = run.requestedAt
    BY <2>1, <2>3, <2>6
  <2>8. RunOK'
    BY <2>6, <2>7 DEF RunOK, CancelingRunsRecoverAsCancellation
  <2>9. CopyOK(p, n, run'.status, current', now)
    BY <1>1, <2>4 DEF CopyOK, Holding
  <2> QED
    BY <2>1, <2>5, <2>7, <2>8, <2>9, RunStep
<1>6. CASE ScheduleRow(p)
  <2>1. /\ proc[p].pc = "scheduleRow" /\ Become(p, Scheduled(p))
        /\ UNCHANGED <<run, current, now, crashes>>
    BY <1>6 DEF ScheduleRow, At
  <2>2. proc[p].claim \in Claims /\ proc[p].claim.owner = NoOwner /\ Counted(proc[p].claim)
        /\ proc[p].claim.next \in Times
    BY <1>1, <2>1 DEF MemoryOK, ReleasingOK, Claims
  <2>3. row' \in Claims /\ Counted(row') /\ row'.owner = NoOwner
    <3>1. CASE HasRow
      <4>1. row \in Claims /\ Counted(row) /\ row.owner = NoOwner
        BY <1>6, <3>1, NoClaimFields DEF IInv, Typed, RowOK, HasRow, ScheduleRow, Unchanged
      <4>2. row' = [row EXCEPT !.next = proc[p].claim.next]
        BY <1>6, <3>1 DEF ScheduleRow
      <4> QED
        BY <2>2, <4>1, <4>2 DEF Claims, Counted
    <3>2. CASE ~HasRow
      BY <1>6, <2>2, <3>2 DEF ScheduleRow
    <3> QED
      BY <3>1, <3>2
  <2>4. OwnedLeaseExpires'
    BY <2>3 DEF OwnedLeaseExpires
  <2>5. CopyOK(p, Scheduled(p), run.status, current, now)
    BY <1>1, <1>3, CalmCopy
  <2> QED
    BY <1>3, <2>1, <2>3, <2>4, <2>5, RowStep
<1>7. CASE ScheduleLost(p)
  <2> DEFINE f == Fresh("schedule")
             n == [f EXCEPT !.exc = proc[p].exc]
  <2>1. f \in Process /\ f.pc = "schedule" /\ f.at = NoTime
        /\ f.claim = NoClaim /\ f.seen = NoClaim
    BY <1>2, FreshCalm
  <2>2. /\ Become(p, n) \/ Become(p, Fresh("idle"))
        /\ UNCHANGED <<run, row, current, now, crashes>>
    BY <1>7 DEF ScheduleLost
  <2> HIDE DEF f
  <2>3. n \in Process /\ n.pc = "schedule" /\ n.at = NoTime
        /\ n.claim = NoClaim /\ n.seen = NoClaim
    BY <1>1, <2>1 DEF Process
  <2> HIDE DEF n
  <2>4. MemoryOK(n)
    BY <2>3, NoClaimFields DEF MemoryOK, ClaimingOK, ReleasingOK, GoalOK, CommitOK
  <2> QED
    BY <1>2, <2>2, <2>3, <2>4, FreshCalm, CalmKeeps
<1> QED
  BY <1>4, <1>5, <1>6, <1>7 DEF ScheduleStep
-----------------------------------------------------------------------------
(* The actors keep the invariant                                           *)

\* The driver acquires, resumes and shuts down.
LEMMA DriverKeeps ==
    ASSUME IInv, NEW p \in Drivers, DriverStep(p)
    PROVE  IInv'
<1>0. p \in Procs
  BY DEF Procs
<1>1. /\ proc[p] \in Process /\ MemoryOK(proc[p])
      /\ CopyOK(p, proc[p], run.status, current, now) /\ now \in Nat
  BY <1>0, Unfold DEF IInv, Typed
<1>2. CASE Acquire(p)
  <2>1. proc[p].pc = "start" /\ BeginClaim(p, proc[p], TRUE)
    BY <1>2 DEF Acquire, At
  <2>2. p \notin current
    BY <1>1, <2>1 DEF CopyOK
  <2> QED
    BY <1>0, <1>1, <2>1, <2>2, BeginClaimKeeps
<1>3. CASE AcquireNothing(p)
  <2> DEFINE n == [proc[p] EXCEPT !.pc = "exec"]
  <2>1. proc[p].pc = "start" /\ Become(p, n) /\ UNCHANGED <<run, row, current, now, crashes>>
    BY <1>3 DEF AcquireNothing, At
  <2>2. p \notin current
    BY <1>1, <2>1 DEF CopyOK
  <2>3. /\ n \in Process
        /\ n.pc = "exec" /\ n.claim = proc[p].claim /\ n.seen = proc[p].seen
        /\ n.at = proc[p].at
    BY <1>1 DEF Process, Locations
  <2> HIDE DEF n
  <2>4. MemoryOK(n)
    BY <1>1, <2>3 DEF MemoryOK, ClaimingOK, ReleasingOK, GoalOK, CommitOK
  <2>5. CopyOK(p, n, run.status, current, now)
    BY <1>1, <2>2, <2>3 DEF CopyOK
  <2> QED
    BY <1>0, <2>1, <2>4, <2>5, LocalStep
<1>4. CASE ResumeHosted(p)
  <2> DEFINE f == Fresh("idle")
             n == [f EXCEPT !.goal = "observe"]
  <2>1. "idle" \in Calm
    BY DEF Calm, Locations, Holding
  <2>2. f \in Process /\ f.pc = "idle" /\ f.at = NoTime
        /\ f.claim = NoClaim /\ f.seen = NoClaim
    BY <2>1, FreshCalm
  <2>3. BeginClaim(p, n, TRUE)
    BY <1>4 DEF ResumeHosted
  <2> HIDE DEF f
  <2>4. n \in Process /\ n.pc = "idle" /\ n.at = NoTime /\ n.goal = "observe"
        /\ n.claim = NoClaim /\ n.seen = NoClaim
    BY <2>2 DEF Process
  <2> HIDE DEF n
  <2>5. MemoryOK(n)
    BY <2>4, NoClaimFields DEF MemoryOK, ClaimingOK, ReleasingOK, GoalOK, CommitOK
  <2>6. CopyOK(p, n, run.status, current, now)
    BY <1>1, <2>1, <2>4, CalmCopy
  <2> QED
    BY <1>0, <2>3, <2>4, <2>5, <2>6, BeginClaimKeeps
<1>5. CASE Shutdown(p)
  <2> DEFINE n == [proc[p] EXCEPT !.pc = "settleFailed", !.goal = "shutdown"]
  <2>1. Become(p, n) /\ UNCHANGED <<run, row, current, now, crashes>>
    BY <1>5 DEF Shutdown
  <2>2. /\ n \in Process
        /\ n.pc = "settleFailed" /\ n.claim = proc[p].claim /\ n.seen = proc[p].seen
        /\ n.at = proc[p].at
    <3> DEFINE a == [proc[p] EXCEPT !.pc = "settleFailed"]
    <3>1. /\ a \in Process
          /\ a.pc = "settleFailed" /\ a.claim = proc[p].claim /\ a.seen = proc[p].seen
          /\ a.at = proc[p].at
      BY <1>1 DEF Process, Locations
    <3>2. n = [a EXCEPT !.goal = "shutdown"]
      OBVIOUS
    <3> HIDE DEF a, n
    <3> QED
      BY <3>1, <3>2 DEF Process
  <2> HIDE DEF n
  <2>3. MemoryOK(n)
    BY <1>1, <2>2 DEF MemoryOK, ClaimingOK, ReleasingOK, GoalOK, CommitOK
  <2>4. CopyOK(p, n, run.status, current, now)
    BY <1>1, <2>2 DEF CopyOK, Holding
  <2> QED
    BY <1>0, <2>1, <2>3, <2>4, LocalStep
<1> QED
  BY <1>2, <1>3, <1>4, <1>5 DEF DriverStep

\* A sink starts.
LEMMA SinkKeeps ==
    ASSUME IInv, NEW p \in Sinks, SinkStep(p)
    PROVE  IInv'
<1>1. p \in Procs /\ {"schedule", "settleFailed"} \subseteq Calm
  BY DEF Procs, Calm, Locations, Holding
<1> QED
  BY <1>1, FreshCalm, CalmKeeps DEF SinkStep, Deliver, FailInteraction

\* _replace_cancellation_recovery, by a worker's repair or a cancel request.
LEMMA ReplaceRowKeeps ==
    ASSUME IInv, NEW p \in Procs, NEW t \in Times, NEW w \in {"list", "settleCanceled"},
           ReplaceRow(p, t, w), w = "settleCanceled" => run.status \in Ending
    PROVE  IInv'
<1> DEFINE c == RecoveryClaim("cancellation", t)
           f == Fresh(w)
           n == [f EXCEPT !.mirror = c.kind]
<1>1. row' = c /\ Become(p, n) /\ UNCHANGED <<run, current, now, crashes>>
  BY DEF ReplaceRow
<1>2. c \in Claims /\ Counted(c) /\ c.owner = NoOwner /\ c.kind \in Kinds
  BY RecoveryClaimType DEF Kinds
<1>3. MemoryOK(f) /\ f.pc = w /\ f.at = NoTime
  BY FreshOK, FreshType DEF Locations
<1> HIDE DEF c, f
<1>4. MemoryOK(n) /\ n.pc = w /\ n.at = NoTime
  BY <1>2, <1>3, MirrorOK
<1> HIDE DEF n
<1>5. CopyOK(p, n, run.status, current, now)
  BY <1>4 DEF CopyOK, Holding, NoTime, IInv, Typed
<1>6. OwnedLeaseExpires'
  BY <1>1, <1>2 DEF OwnedLeaseExpires
<1> QED
  BY <1>1, <1>2, <1>4, <1>5, <1>6, RowStep

\* A worker repairs, lists and claims.
LEMMA WorkerKeeps ==
    ASSUME IInv, NEW p \in Workers, WorkerStep(p)
    PROVE  IInv'
<1>0. p \in Procs /\ p \notin Drivers
  BY ActorsAssumption DEF Procs
<1>1. /\ proc[p] \in Process /\ MemoryOK(proc[p])
      /\ CopyOK(p, proc[p], run.status, current, now) /\ now \in Nat
  BY <1>0, Unfold DEF IInv, Typed
<1>2. {"repairRow", "list", "listed", "idle"} \subseteq Calm
  BY DEF Calm, Locations, Holding
<1>3. CASE Repair(p)
  <2> DEFINE lagging == /\ run.status = "canceling"
                        /\ row.kind # "cancellation" \/ run.kind # "cancellation"
             f == Fresh("list")
             k == IF lagging THEN row.kind ELSE "absent"
             n == [f EXCEPT !.mirror = k]
  <2>1. UNCHANGED <<run, row, current, now, crashes>>
    BY <1>3 DEF Repair
  <2>2. CASE lagging /\ row.kind # "cancellation"
    BY <1>0, <1>2, <1>3, <2>1, <2>2, FreshCalm, CalmKeeps DEF Repair
  <2>3. CASE ~(lagging /\ row.kind # "cancellation")
    <3>1. Become(p, n)
      BY <1>3, <2>3 DEF Repair
    <3>2. k \in Kinds \cup {"absent"}
      BY <2>3 DEF Kinds
    <3>3. MemoryOK(f) /\ f.pc \in Calm /\ f.at = NoTime
      BY <1>2, FreshCalm
    <3> HIDE DEF f, k
    <3>4. MemoryOK(n) /\ n.pc \in Calm /\ n.at = NoTime
      BY <3>2, <3>3, MirrorOK
    <3> HIDE DEF n
    <3> QED
      BY <1>0, <2>1, <3>1, <3>4, CalmKeeps
  <2> QED
    BY <2>2, <2>3
<1>4. CASE RepairRow(p)
  <2>1. run.requestedAt \in Times
    BY DEF IInv, Typed
  <2> QED
    BY <1>0, <1>4, <2>1, ReplaceRowKeeps DEF RepairRow
<1>5. CASE List(p)
  <2> DEFINE due == run.status \notin Terminal /\ Due(IF HasRow THEN row ELSE LoadedClaim, now)
             f == Fresh("listed")
             n == [f EXCEPT !.prior = LoadedClaim.owner]
  <2>1. UNCHANGED <<run, row, now, crashes>> /\ current' \subseteq current \cup {p}
    BY <1>5 DEF List
  <2>2. CASE ~due
    BY <1>0, <1>2, <1>5, <2>1, <2>2, FreshCalm, CalmKeeps DEF List
  <2>3. CASE due
    <3>1. Become(p, n)
      BY <1>5, <2>3 DEF List
    <3>2. LoadedClaim.owner \in Procs \cup {NoOwner}
      BY <1>0, Unfold DEF Claims
    <3>3. f \in Process /\ f.pc = "listed" /\ f.at = NoTime /\ f.goal = "exec"
          /\ f.claim = NoClaim /\ f.seen = NoClaim
      BY <1>2, FreshCalm
    <3> HIDE DEF f
    <3>4. n \in Process /\ n.pc = "listed" /\ n.at = NoTime /\ n.goal = "exec"
          /\ n.claim = NoClaim /\ n.seen = NoClaim
      BY <3>2, <3>3 DEF Process
    <3> HIDE DEF n
    <3>5. MemoryOK(n)
      BY <3>4, NoClaimFields DEF MemoryOK, ClaimingOK, ReleasingOK, GoalOK, CommitOK
    <3> QED
      BY <1>0, <1>2, <2>1, <3>1, <3>4, <3>5, CalmKeeps
  <2> QED
    BY <2>2, <2>3
<1>6. CASE ClaimListed(p)
  BY <1>0, <1>1, <1>6, BeginClaimKeeps DEF ClaimListed, At
<1>7. CASE ListedStale(p)
  BY <1>0, <1>2, <1>7, FreshCalm, CalmKeeps DEF ListedStale
<1>8. CASE LoseLease(p)
  BY <1>0, <1>8, KernelLocalKeeps
<1> QED
  BY <1>3, <1>4, <1>5, <1>6, <1>7, <1>8 DEF WorkerStep

\* A cancel request.
LEMMA CancelKeeps ==
    ASSUME IInv, NEW p \in Cancellers, CancelStep(p)
    PROVE  IInv'
<1>0. p \in Procs
  BY DEF Procs
<1>1. /\ proc[p] \in Process /\ MemoryOK(proc[p])
      /\ CopyOK(p, proc[p], run.status, current, now) /\ now \in Nat
  BY <1>0, Unfold DEF IInv, Typed
<1>2. CASE CancelLoad(p)
  <2> DEFINE w == IF run.requestedAt # NoTime THEN "cancelRow" ELSE "cancelCas"
             f == Fresh(w)
             k == LoadedClaim.kind
             n == [f EXCEPT !.status = run.status, !.kind = k, !.at = now]
  <2>1. /\ Become(p, n) /\ current' = current \cup {p} /\ UNCHANGED <<run, row, now, crashes>>
        /\ run.requestedAt # NoTime \/ run.status \in Cancelable
    BY <1>2 DEF CancelLoad
  <2>2. /\ w \in {"cancelRow", "cancelCas"}
        /\ w = "cancelRow" => run.status \in Ending
        /\ w = "cancelCas" => run.status \in Cancelable
    BY <2>1 DEF IInv, RunOK
  <2>3. now \in Times /\ run.status \in Status
    BY BoundsAssumption DEF IInv, Typed, Times, NoTime, Dormant
  <2>4. k \in Kinds
    BY <1>0, Unfold
  <2>5. f \in Process /\ f.pc = w /\ f.claim = NoClaim /\ f.seen = NoClaim
    BY <2>2, FreshType DEF Locations
  <2> HIDE DEF w, f, k
  <2>6. /\ n \in Process
        /\ n.pc = w /\ n.status = run.status /\ n.at = now
        /\ n.claim = NoClaim /\ n.seen = NoClaim
    BY <2>3, <2>4, <2>5 DEF Process
  <2> HIDE DEF n
  <2>7. MemoryOK(n)
    BY <2>2, <2>6, NoClaimFields DEF MemoryOK, ClaimingOK, ReleasingOK, GoalOK, CommitOK
  <2>8. CopyOK(p, n, run.status, current', now)
    BY <1>1, <2>2, <2>6 DEF CopyOK
  <2> QED
    BY <1>0, <2>1, <2>7, <2>8, LocalStep
<1>3. CASE CancelCas(p)
  <2> DEFINE n == [proc[p] EXCEPT !.pc = "cancelRow"]
             t == proc[p].at
  <2>1. /\ run' = [status |-> "canceling", requestedAt |-> t, kind |-> "cancellation", next |-> t]
        /\ current' = {p} /\ Become(p, n) /\ UNCHANGED <<row, now, crashes>>
        /\ proc[p].pc = "cancelCas"
    BY <1>3 DEF CancelCas, At
  <2>2. t \in Times
    BY <1>1 DEF Process
  <2>3. /\ n \in Process
        /\ n.pc = "cancelRow" /\ n.claim = proc[p].claim /\ n.seen = proc[p].seen
        /\ n.at = proc[p].at
    BY <1>1 DEF Process, Locations
  <2> HIDE DEF n, t
  <2>4. MemoryOK(n)
    BY <1>1, <2>3 DEF MemoryOK, ClaimingOK, ReleasingOK, GoalOK, CommitOK
  <2>5. /\ run' \in [status : Status, requestedAt : Times, kind : Kinds, next : Times]
        /\ run'.status = "canceling" /\ run'.kind = "cancellation"
    BY <2>1, <2>2 DEF Status, Kinds
  <2>6. RunOK' /\ run'.status \in Ending
    BY <2>5 DEF RunOK, CancelingRunsRecoverAsCancellation, Ending
  <2>7. CopyOK(p, n, run'.status, current', now)
    BY <1>1, <2>3, <2>6 DEF CopyOK, Holding
  <2> QED
    BY <1>0, <2>1, <2>4, <2>5, <2>6, <2>7, RunStep
<1>4. CASE CancelLost(p)
  <2>1. "idle" \in Calm
    BY DEF Calm, Locations, Holding
  <2> QED
    BY <1>0, <1>4, <2>1, FreshCalm, CalmKeeps DEF CancelLost
<1>5. CASE CancelRow(p)
  <2>1. proc[p].at \in Times /\ run.status \in Ending
    BY <1>1, <1>5 DEF CancelRow, At, Process, CopyOK
  <2> QED
    BY <1>0, <1>5, <2>1, ReplaceRowKeeps DEF CancelRow
<1> QED
  BY <1>2, <1>3, <1>4, <1>5 DEF CancelStep

\* A process dies.
LEMMA CrashKeeps ==
    ASSUME IInv, NEW p \in Procs, Crash(p)
    PROVE  IInv'
<1> DEFINE w == IF p \in Drivers THEN Death(p) ELSE "idle"
<1>1. w \in Calm
  BY DEF Death, Calm, Locations, Holding
<1>2. /\ Become(p, Fresh(w)) /\ current' = current \ {p} /\ UNCHANGED <<run, row, now>>
      /\ crashes' = crashes + 1 /\ crashes < MaxCrashes
  BY DEF Crash
<1> HIDE DEF w
<1>3. MemoryOK(Fresh(w)) /\ Fresh(w).pc \in Calm /\ Fresh(w).at = NoTime
  BY <1>1, FreshCalm
<1>4. now \in Nat /\ now' \in Int /\ now' >= now /\ run'.status = run.status
  BY <1>2 DEF IInv, Typed
<1>5. CopyOK(p, Fresh(w), run'.status, current', now')
  BY <1>2, <1>3, <1>4, CalmCopy
<1>6. proc' \in [Procs -> Process] /\ ProcsOK'
  BY <1>2, <1>3, <1>4, <1>5, OthersKeep DEF IInv
<1>7. crashes' \in 0 .. MaxCrashes
  BY <1>2, BoundsAssumption DEF IInv, Typed
<1>8. Typed'
  BY <1>2, <1>6, <1>7 DEF IInv, Typed
<1>9. RunOK' /\ RowOK'
  BY <1>2 DEF IInv, RunOK, RowOK, CancelingRunsRecoverAsCancellation, OwnedLeaseExpires,
              Counted
<1> QED
  BY <1>6, <1>8, <1>9 DEF IInv

\* Time passes.
LEMMA TickKeeps ==
    ASSUME IInv, Tick
    PROVE  IInv'
<1>1. now' = now + 1 /\ now' \in 0 .. Horizon /\ UNCHANGED <<run, row, proc, current, crashes>>
  BY BoundsAssumption DEF IInv, Typed, Tick
<1>2. Typed'
  BY <1>1 DEF IInv, Typed
<1>3. RunOK' /\ RowOK'
  BY <1>1 DEF IInv, RunOK, RowOK, CancelingRunsRecoverAsCancellation, OwnedLeaseExpires,
              Counted
<1>4. ASSUME NEW q \in Procs
      PROVE  MemoryOK(proc[q]) /\ CopyOK(q, proc[q], run.status, current, now')
  <2>1. /\ MemoryOK(proc[q]) /\ CopyOK(q, proc[q], run.status, current, now)
        /\ proc[q].at \in Int /\ now \in Int
    BY Unfold
  <2> QED
    BY <1>1, <2>1 DEF CopyOK
<1>5. ProcsOK'
  BY <1>1, <1>4 DEF ProcsOK
<1> QED
  BY <1>2, <1>3, <1>5 DEF IInv

\* A stuttering step.
LEMMA StutterKeeps ==
    ASSUME IInv, UNCHANGED vars
    PROVE  IInv'
BY DEF IInv, vars, Typed, RunOK, RowOK, ProcsOK, CancelingRunsRecoverAsCancellation,
       OwnedLeaseExpires, Counted
-----------------------------------------------------------------------------
(* The theorems                                                            *)

\* The created Run, with no recovery row and nobody holding a copy, is sound.
LEMMA InitOK == Init => IInv
<1> SUFFICES ASSUME Init PROVE IInv
  OBVIOUS
<1>1. 0 \in Int /\ DeadlineTerm \in Int /\ DeadlineTerm >= NoTime /\ Upto(DeadlineTerm) \in Times
  BY UptoType, BoundsAssumption DEF NoTime
<1>2. /\ run \in [status : Status, requestedAt : Times, kind : Kinds, next : Times]
      /\ run.status = "running" /\ run.requestedAt = NoTime
  BY <1>1, TimeConstants DEF Init, Status, Active, Kinds
<1>3. row = NoClaim /\ current = {} /\ now = 0 /\ crashes = 0
  BY DEF Init
<1>4. ASSUME NEW p \in Procs
      PROVE  /\ proc[p] \in Process
             /\ MemoryOK(proc[p]) /\ CopyOK(p, proc[p], run.status, current, now)
  <2> DEFINE w == IF p \in Drivers THEN "start" ELSE "idle"
  <2>1. proc[p] = Fresh(w)
    BY DEF Init
  <2>2. w \in {"start", "idle"}
    OBVIOUS
  <2> HIDE DEF w
  <2>3. MemoryOK(Fresh(w)) /\ Fresh(w) \in Process /\ Fresh(w).pc = w /\ Fresh(w).at = NoTime
    BY <2>2, FreshOK, FreshType DEF Locations
  <2>4. CopyOK(p, Fresh(w), run.status, current, now)
    BY <1>3, <2>2, <2>3 DEF CopyOK, NoTime
  <2> QED
    BY <2>1, <2>3, <2>4
<1>5. proc \in [Procs -> Process]
  BY <1>4 DEF Init
<1>6. Typed
  BY <1>2, <1>3, <1>5, BoundsAssumption DEF Typed
<1>7. RunOK
  BY <1>2 DEF RunOK, CancelingRunsRecoverAsCancellation
<1>8. RowOK
  BY <1>3, NoClaimFields DEF RowOK, OwnedLeaseExpires
<1>9. ProcsOK
  BY <1>4 DEF ProcsOK
<1> QED
  BY <1>6, <1>7, <1>8, <1>9 DEF IInv

\* Every step of every actor keeps the invariant.
LEMMA NextKeeps == IInv /\ [Next]_vars => IInv'
<1> SUFFICES ASSUME IInv, [Next]_vars PROVE IInv'
  OBVIOUS
<1>1. ASSUME NEW p \in Procs, LeaseStep(p) PROVE IInv'
  BY <1>1, MirrorKeeps, RenewKeeps, ClaimRowKeeps, ClaimAcceptedKeeps, ClaimFailedKeeps,
     LeaveKeeps, ReleaseKeeps DEF LeaseStep
<1>2. ASSUME NEW p \in Procs, KernelStep(p) PROVE IInv'
  BY <1>2, KernelLocalKeeps, KernelCheckpointKeeps, SettleKeeps, CommitKeeps DEF KernelStep
<1>3. ASSUME NEW p \in Procs, LeaseStep(p) \/ ScheduleStep(p) \/ KernelStep(p) \/ Crash(p)
      PROVE  IInv'
  BY <1>1, <1>2, <1>3, ScheduleKeeps, CrashKeeps
<1> QED
  BY <1>3, DriverKeeps, SinkKeeps, WorkerKeeps, CancelKeeps, TickKeeps, StutterKeeps DEF Next

\* The invariant holds in every reachable state.
LEMMA Invariance == Spec => []IInv
BY InitOK, NextKeeps, PTL DEF Spec

\* Every variable keeps its type, and the row is quarantined exactly when its
\* invariant failures are used up, whatever the processes' order of steps.
THEOREM TypeCorrectness == Spec => []TypeOK
<1>1. IInv => TypeOK
  BY DEF IInv, RowOK, TypeOK
<1> QED
  BY <1>1, Invariance, PTL

\* No mirror write, claim or release, however late, leaves a canceling
\* aggregate with an execution claim.
THEOREM CancellationKind == Spec => []CancelingRunsRecoverAsCancellation
<1>1. IInv => CancelingRunsRecoverAsCancellation
  BY DEF IInv, RunOK
<1> QED
  BY <1>1, Invariance, PTL

\* Whoever owns the row, its lease expires and nothing else postpones the
\* takeover.
THEOREM LeaseExpiry == Spec => []OwnedLeaseExpires
<1>1. IInv => OwnedLeaseExpires
  BY DEF IInv, RowOK
<1> QED
  BY <1>1, Invariance, PTL

\* The only steps that write the row, with what they find and leave there.
RowWrite(p) ==
    \/ /\ ~HasRow \/ Claimable(row, proc[p].at)
       /\ row'.owner = p
    \/ /\ row.owner = p
       /\ row'.owner \in {p, NoOwner}
    \/ /\ row.owner = NoOwner /\ row.quarantined = "no"
       /\ row'.owner = NoOwner
    \/ /\ row'.kind = "cancellation"
       /\ row'.owner = NoOwner

\* Nobody else writes it.
LEMMA RowWrites ==
    ASSUME IInv, Next
    PROVE  row' = row \/ \E p \in Procs : RowWrite(p)
<1>1. ASSUME NEW p \in Procs, LeaseStep(p)
      PROVE  row' = row \/ RowWrite(p)
  <2>1. ASSUME ClaimRow(p) PROVE row' = row \/ RowWrite(p)
    <3>1. CASE ~HasRow \/ Claimable(row, proc[p].at)
      <4>1. proc[p].claim \in Claims
        BY <2>1, Unfold DEF ClaimRow, At, MemoryOK, ClaimingOK
      <4>2. row' = Owned(proc[p].claim, p, Upto(proc[p].at + LeaseTerm))
        BY <2>1, <3>1 DEF ClaimRow
      <4>3. row'.owner = p
        BY <4>1, <4>2 DEF Owned, Claims
      <4> QED
        BY <3>1, <4>3 DEF RowWrite
    <3>2. CASE ~(~HasRow \/ Claimable(row, proc[p].at))
      BY <2>1, <3>2 DEF ClaimRow
    <3> QED
      BY <3>1, <3>2
  <2>2. ASSUME ClaimUndo(p) PROVE row' = row \/ RowWrite(p)
    <3>1. proc[p].seen \in Claims
      BY <2>2, Unfold DEF ClaimUndo, At, MemoryOK, ClaimingOK
    <3>2. row' = row \/ (row.owner = p /\ row' = Unowned(proc[p].seen))
      BY <2>2 DEF ClaimUndo
    <3>3. row' = row \/ (row.owner = p /\ row'.owner = NoOwner)
      BY <3>1, <3>2 DEF Unowned, Claims
    <3> QED
      BY <3>3 DEF RowWrite
  <2>3. ASSUME Renew(p) PROVE row' = row \/ RowWrite(p)
    <3>1. row.owner = p /\ row' = [row EXCEPT !.lease = In(LeaseTerm)]
      BY <2>3 DEF Renew
    <3>2. row \in Claims
      BY <3>1, NoClaimFields, ActorsAssumption DEF IInv, Typed
    <3>3. row'.owner = p
      BY <3>1, <3>2 DEF Claims
    <3> QED
      BY <3>1, <3>3 DEF RowWrite
  <2>4. ASSUME ReleaseRow(p) PROVE row' = row \/ RowWrite(p)
    <3>1. proc[p].claim.owner = NoOwner
      BY <2>4, Unfold DEF ReleaseRow, At, MemoryOK, ReleasingOK
    <3>2. row' = row \/ (row.owner = p /\ row' = proc[p].claim)
      BY <2>4 DEF ReleaseRow
    <3> QED
      BY <3>1, <3>2 DEF RowWrite
  <2>5. ASSUME \/ Mirror(p) \/ ClaimAccepted(p) \/ ClaimInvalid(p) \/ ClaimLost(p)
               \/ Leave(p) \/ ReleaseCas(p) \/ ReleaseMirror(p)
        PROVE  row' = row
    BY <2>5 DEF Mirror, ClaimAccepted, ClaimInvalid, ClaimLost, Leave, ReleaseCas,
                ReleaseMirror
  <2> QED
    BY <1>1, <2>1, <2>2, <2>3, <2>4, <2>5 DEF LeaseStep
<1>2. ASSUME NEW p \in Procs, ScheduleStep(p)
      PROVE  row' = row \/ RowWrite(p)
  <2>1. ASSUME ScheduleRow(p) PROVE RowWrite(p)
    <3>1. CASE HasRow
      <4>1. /\ row.owner = NoOwner /\ row.quarantined = "no"
            /\ row' = [row EXCEPT !.next = proc[p].claim.next]
        BY <2>1, <3>1 DEF ScheduleRow, Unchanged
      <4>2. row \in Claims
        BY <3>1, NoClaimFields DEF IInv, Typed, HasRow
      <4>3. row'.owner = NoOwner
        BY <4>1, <4>2 DEF Claims
      <4> QED
        BY <4>1, <4>3 DEF RowWrite
    <3>2. CASE ~HasRow
      <4>1. row = NoClaim
        BY <3>2 DEF IInv, Typed, HasRow, Claims, Kinds
      <4>2. row' = proc[p].claim /\ proc[p].claim.owner = NoOwner
        BY <2>1, <3>2, Unfold DEF ScheduleRow, At, MemoryOK, ReleasingOK
      <4> QED
        BY <4>1, <4>2, NoClaimFields DEF RowWrite
    <3> QED
      BY <3>1, <3>2
  <2>2. ASSUME ScheduleLoad(p) \/ ScheduleCas(p) \/ ScheduleLost(p) PROVE row' = row
    BY <2>2 DEF ScheduleLoad, ScheduleCas, ScheduleLost
  <2> QED
    BY <1>2, <2>1, <2>2 DEF ScheduleStep
<1>3. ASSUME NEW p \in Procs, KernelStep(p) \/ Crash(p) PROVE row' = row
  BY <1>3 DEF KernelStep, Crash, Observe, KernelLoad, KernelReturn, KernelCheckpoint,
              KernelLost, KernelRaise, Settle, Commit, CommitLost
<1>4. ASSUME NEW p \in Drivers, DriverStep(p) PROVE row' = row
  BY <1>4 DEF DriverStep, Acquire, AcquireNothing, ResumeHosted, Shutdown, BeginClaim
<1>5. ASSUME NEW p \in Sinks, SinkStep(p) PROVE row' = row
  BY <1>5 DEF SinkStep, Deliver, FailInteraction
<1>6. ASSUME NEW p, NEW t, NEW w, ReplaceRow(p, t, w) PROVE RowWrite(p)
  <2>1. row' = RecoveryClaim("cancellation", t)
    BY <1>6 DEF ReplaceRow
  <2> QED
    BY <2>1 DEF RecoveryClaim, RowWrite
<1>7. ASSUME NEW p \in Workers, WorkerStep(p) PROVE row' = row \/ RowWrite(p)
  <2>1. ASSUME RepairRow(p) PROVE RowWrite(p)
    BY <1>6, <2>1 DEF RepairRow
  <2>2. ASSUME Repair(p) \/ List(p) \/ ClaimListed(p) \/ ListedStale(p) \/ LoseLease(p)
        PROVE  row' = row
    BY <2>2 DEF Repair, List, ClaimListed, ListedStale, LoseLease, BeginClaim
  <2> QED
    BY <1>7, <2>1, <2>2 DEF WorkerStep
<1>8. ASSUME NEW p \in Cancellers, CancelStep(p) PROVE row' = row \/ RowWrite(p)
  <2>1. ASSUME CancelRow(p) PROVE RowWrite(p)
    BY <1>6, <2>1 DEF CancelRow
  <2>2. ASSUME CancelLoad(p) \/ CancelCas(p) \/ CancelLost(p) PROVE row' = row
    BY <2>2 DEF CancelLoad, CancelCas, CancelLost
  <2> QED
    BY <1>8, <2>1, <2>2 DEF CancelStep
<1>9. ASSUME Tick PROVE row' = row
  BY <1>9 DEF Tick
<1>10. \A p \in Workers \cup Cancellers : p \in Procs
  BY DEF Procs
<1> QED
  BY <1>1, <1>2, <1>3, <1>4, <1>5, <1>7, <1>8, <1>9, <1>10 DEF Next

\* A live lease is renewed, released or replaced by a cancellation, but no
\* other process can take it before it expires: claimed_at is never in the
\* future of the conditional update.
THEOREM NoTheft == Spec => LiveLeaseIsNotStolen
<1> DEFINE Kept == row.owner # NoOwner /\ row.lease > now => row'.owner \in {row.owner, NoOwner}
<1>1. IInv /\ [Next]_vars => [Kept]_vars
  <2> SUFFICES ASSUME IInv, Next, row.owner # NoOwner, row.lease > now
               PROVE  row'.owner \in {row.owner, NoOwner}
    OBVIOUS
  <2>1. CASE row' = row
    BY <2>1
  <2>2. ASSUME NEW p \in Procs, RowWrite(p)
        PROVE  row'.owner \in {row.owner, NoOwner}
    <3>1. HasRow /\ row.lease \in Int
      BY NoClaimFields DEF HasRow, IInv, Typed, Claims, Times, NoTime, Dormant, Kinds
    <3>2. proc[p].at <= now /\ proc[p].at \in Int /\ now \in Int
      BY Unfold DEF CopyOK
    <3>3. ~Claimable(row, proc[p].at)
      BY <3>1, <3>2 DEF Claimable
    <3> QED
      BY <2>2, <3>1, <3>3 DEF RowWrite
  <2> QED
    BY <2>1, <2>2, RowWrites
<1> QED
  BY <1>1, Invariance, PTL DEF Spec, LiveLeaseIsNotStolen

\* A quarantined row is never touched again, except by a cancellation: no
\* process still owns it, so nobody can renew, undo or release it.
THEOREM QuarantineSticks == Spec => QuarantineIsFinal
<1> DEFINE Kept == HasRow /\ row.quarantined = "yes" => row' = row \/ row'.kind = "cancellation"
<1>1. IInv /\ [Next]_vars => [Kept]_vars
  <2> SUFFICES ASSUME IInv, Next, HasRow, row.quarantined = "yes"
               PROVE  row' = row \/ row'.kind = "cancellation"
    OBVIOUS
  <2>1. row.owner = NoOwner
    BY DEF IInv, RowOK, OwnedLeaseExpires
  <2>2. ASSUME NEW p \in Procs, RowWrite(p)
        PROVE  row'.kind = "cancellation"
    <3>1. row.owner # p
      BY <2>1, ActorsAssumption
    <3> QED
      BY <2>2, <3>1 DEF RowWrite, Claimable
  <2> QED
    BY <2>2, RowWrites
<1> QED
  BY <1>1, Invariance, PTL DEF Spec, QuarantineIsFinal
-----------------------------------------------------------------------------
(* The refinement                                                          *)

\* A versioned write from a status moves the Run as the lifecycle allows.
Moves(from, to) ==
    \/ to = from
    \/ from = "running" /\ to \in {"finalizing", "failed", "budget_exhausted"} \cup Suspended
    \/ from = "finalizing" /\ to \in {"completed", "failed"}
    \/ from \in Suspended /\ to \in {"running", "failed"}
    \/ from \in Cancelable /\ to = "canceling"
    \/ from = "canceling" /\ to = "canceled"

\* Each of those moves is a step of the lifecycle.
LEMMA MovesAreSteps ==
    ASSUME run.status \in Status, Moves(run.status, run'.status)
    PROVE  L!Next \/ UNCHANGED run.status
BY DEF Moves, Suspended, Cancelable, L!Next, L!Suspend, L!Resume, L!Finalize, L!Complete,
       L!Fail, L!RequestCancel, L!Cancel, L!Suspended, L!Active, L!Cancelable

\* The status of a process that is current is the stored one, so the versioned
\* writes make no other move; nobody else writes the status.
LEMMA NextMoves ==
    ASSUME IInv, Next
    PROVE  Moves(run.status, run'.status)
<1>0. run \in [status : Status, requestedAt : Times, kind : Kinds, next : Times]
  BY DEF IInv, Typed
<1>1. ASSUME NEW p \in Procs, NEW s, NEW k, Cas(p, s, k)
      PROVE  p \in current /\ run'.status = s
  BY <1>0, <1>1 DEF Cas
<1>2. ASSUME NEW p \in Procs, KernelStep(p)
      PROVE  Moves(run.status, run'.status)
  <2>1. CASE KernelCheckpoint(p)
    <3>1. PICK s \in Checkpoints(proc[p].status) : Cas(p, s, proc[p].kind)
      BY <2>1 DEF KernelCheckpoint
    <3>2. run'.status = s /\ proc[p].status = run.status
      BY <1>1, <2>1, <3>1, Unfold DEF KernelCheckpoint, At, CopyOK, Holding
    <3> QED
      BY <1>0, <3>1, <3>2, CheckpointsLead DEF Moves, Suspended
  <2>2. CASE Commit(p)
    <3> DEFINE s == IF proc[p].pc = "commitFailed" THEN "failed" ELSE "canceled"
    <3>1. Cas(p, s, proc[p].kind) /\ proc[p].pc \in {"commitFailed", "commitCanceled"}
      BY <2>2 DEF Commit, At
    <3>2. run'.status = s /\ proc[p].status = run.status
      BY <1>1, <3>1, Unfold DEF CopyOK, Holding
    <3>3. /\ proc[p].pc = "commitFailed" => run.status \notin Ending
          /\ proc[p].pc = "commitCanceled" => run.status = "canceling"
      BY <3>2, Unfold DEF MemoryOK, CommitOK
    <3> QED
      BY <1>0, <3>1, <3>2, <3>3 DEF Moves, Status, Active, Suspended, Terminal, Ending
  <2>3. CASE \/ Observe(p) \/ KernelLoad(p) \/ KernelReturn(p) \/ KernelLost(p)
             \/ KernelRaise(p) \/ Settle(p) \/ CommitLost(p)
    BY <2>3 DEF Observe, KernelLoad, KernelReturn, KernelLost, KernelRaise, Settle,
                CommitLost, Moves
  <2> QED
    BY <1>2, <2>1, <2>2, <2>3 DEF KernelStep
<1>3. ASSUME NEW p \in Procs, LeaseStep(p)
      PROVE  Moves(run.status, run'.status)
  <2>1. CASE ClaimAccepted(p) \/ ReleaseCas(p)
    BY <1>1, <2>1 DEF ClaimAccepted, ReleaseCas, Moves
  <2>2. CASE Mirror(p)
    BY <1>0, <2>2 DEF Mirror, Moves
  <2>3. CASE \/ Renew(p) \/ ClaimRow(p) \/ ClaimInvalid(p) \/ ClaimLost(p) \/ ClaimUndo(p)
             \/ Leave(p) \/ ReleaseRow(p) \/ ReleaseMirror(p)
    BY <2>3 DEF Renew, ClaimRow, ClaimInvalid, ClaimLost, ClaimUndo, Leave, ReleaseRow,
                ReleaseMirror, Moves
  <2> QED
    BY <1>3, <2>1, <2>2, <2>3 DEF LeaseStep
<1>4. ASSUME NEW p \in Procs, ScheduleStep(p)
      PROVE  Moves(run.status, run'.status)
  BY <1>0, <1>4 DEF ScheduleStep, ScheduleLoad, ScheduleCas, ScheduleRow, ScheduleLost, Moves
<1>5. ASSUME NEW p \in Cancellers, CancelStep(p)
      PROVE  Moves(run.status, run'.status)
  <2>1. CASE CancelCas(p)
    <3>1. p \in Procs
      BY DEF Procs
    <3>2. run.status \in Cancelable
      BY <2>1, <3>1, Unfold DEF CancelCas, At, MemoryOK, CommitOK, CopyOK, Holding
    <3>3. run'.status = "canceling"
      BY <2>1 DEF CancelCas
    <3> QED
      BY <3>2, <3>3 DEF Moves
  <2>2. CASE CancelLoad(p) \/ CancelLost(p) \/ CancelRow(p)
    BY <2>2 DEF CancelLoad, CancelLost, CancelRow, ReplaceRow, Moves
  <2> QED
    BY <1>5, <2>1, <2>2 DEF CancelStep
<1>6. ASSUME \/ \E p \in Drivers : DriverStep(p)
             \/ \E p \in Sinks : SinkStep(p)
             \/ \E p \in Workers : WorkerStep(p)
             \/ \E p \in Procs : Crash(p)
             \/ Tick
      PROVE  run' = run
  BY <1>6 DEF DriverStep, Acquire, AcquireNothing, ResumeHosted, Shutdown, BeginClaim,
              SinkStep, Deliver, FailInteraction, WorkerStep, Repair, RepairRow, ReplaceRow,
              List, ClaimListed, ListedStale, LoseLease, Crash, Tick
<1> QED
  BY <1>2, <1>3, <1>4, <1>5, <1>6 DEF Next, Moves

\* The processes that race on the two documents implement the Run's lifecycle:
\* an ended Run stays ended, and a cancellation that won is the only way out.
THEOREM Refinement == Spec => ImplementsLifecycle
<1>1. Init => L!Init
  BY DEF Init, L!Init
<1>2. IInv /\ [Next]_vars => [L!Next]_(run.status)
  <2> SUFFICES ASSUME IInv, [Next]_vars PROVE L!Next \/ UNCHANGED run.status
    OBVIOUS
  <2>1. CASE Next
    <3>1. run.status \in Status
      BY DEF IInv, Typed
    <3> QED
      BY <2>1, <3>1, NextMoves, MovesAreSteps
  <2>2. CASE UNCHANGED vars
    BY <2>2 DEF vars
  <2> QED
    BY <2>1, <2>2
<1> QED
  BY <1>1, <1>2, Invariance, PTL DEF Spec, ImplementsLifecycle, L!Spec
=============================================================================
