-------------------------- MODULE AgentCallProofs --------------------------
(***************************************************************************)
(* Proofs about AgentCall, for any number of recoverers and processors and *)
(* any number of disturbances, among them that it implements RemoteCall.   *)
(*                                                                         *)
(* No claim and no lease is needed for safety.  A call only goes forward;  *)
(* at most one executor is between the write of "dispatching" and the end  *)
(* of its dispatch, and while a call can be dispatched there is none.  A   *)
(* verdict is given after its evidence is in the inbox, and the evidence   *)
(* is completed only when the Run has no use for it.                       *)
(***************************************************************************)
EXTENDS AgentCall, TLAPS

\* An executor that may send, or may have sent, the message; of these the
\* ones that have not.
Out    == {"dispatching", "sending", "streaming", "ambiguous", "retrying", "contract"}
Unsent == {"dispatching", "sending", "retrying", "contract"}

\* The states before the first dispatch, and those of a cancellation.
Early   == UndispatchedStates \cup {"absent"}
Closing == {"cancel_pending", "canceled"}

\* Where a process has an inbox row in hand, and where it is about to give, or
\* has just given, the verdict the row carries.
Ruling  == {"applying", "marking", "marked", "expiring", "polled"}
Reading == {"observing", "settling", "delivering", "delivered"}

\* Where the kernel works on an entry that is not checkpointed as accepted.
Accepting == {"accepting", "fencing", "accepted", "canceling", "canceled"}
-----------------------------------------------------------------------------
(* The invariant                                                           *)

CallOK(c) ==
    /\ c \in Calls
    /\ c.st \in UndispatchedStates => c.tries < MaxTransportAttempts
    /\ c.st \in TerminalCallStates => c.result = c.st
    /\ c.st \notin TerminalCallStates => c.result = None

\* The Agent got the message at most once, and not before a dispatch.
RemoteOK(c, rm) ==
    /\ rm \in [got : 0 .. 2, done : BOOLEAN]
    /\ rm.got < 2
    /\ rm.done => rm.got = 1
    /\ c.st \in Early => rm.got = 0

RowsOK(c, rw, rm) ==
    /\ rw \in [Rows -> InboxRows]
    /\ \A o \in Rows : rw[o].st # "absent" => c.st # "absent"
    /\ \A o \in {"answer", "polled"} : rw[o].st # "absent" => rm.done
    /\ \A o \in Rows : rw[o].digest => c.st \in TerminalCallStates

\* A verdict that no cancellation gave has its evidence in the inbox.
EvidenceOK(c, rw) ==
    c.st \in TerminalCallStates \ {"canceled"} =>
        \E o \in Rows \ {"working"} : Outcome(o) = c.result /\ rw[o].st # "absent"

\* The Run has no use for the row of observation o.
Spent(c, rn, en, ro, o) ==
    \/ o = "working" \/ en = "terminal" \/ rn = "ended" \/ ~ro
    \/ c.st \in Closing
    \/ c.st \in TerminalCallStates /\ Outcome(o) # c.result

SpentOK(c, rw, rn, en, ro) ==
    \A o \in Rows : rw[o].st = "completed" => Spent(c, rn, en, ro, o)

RunOK(c, rn, en, td) ==
    /\ rn \in {"running", "suspended", "canceling", "ended"}
    /\ en \in {"pending", "accepted", "waiting", "terminal"}
    /\ td \in KernelFailures \cup {None, c.result}
    /\ en = "terminal" <=> td # None
    /\ td = "refused" => c.st = "absent"
    /\ en \in {"accepted", "waiting"} => c.st # "absent"

StoreOK(c, rw, rn, en, td, rm, ro) ==
    /\ CallOK(c)
    /\ RemoteOK(c, rm)
    /\ RowsOK(c, rw, rm)
    /\ EvidenceOK(c, rw)
    /\ SpentOK(c, rw, rn, en, ro)
    /\ RunOK(c, rn, en, td)
    /\ ro \in BOOLEAN

\* What the place of a process says of the documents.
PlaceOK(c, rw, en, pc, on, res) ==
    /\ pc \notin {"idle", "accepting", "closing"} => c.st # "absent"
    /\ pc \in Ruling \cup Reading => rw[on].st # "absent"
    /\ pc \in Ruling => on # "working"
    /\ pc \in {"marking", "marked", "settling"} => c.st \in TerminalCallStates
    /\ pc = "returning" => res \in {None, "error", c.result}
    /\ pc = "delivering" => res \in {None, c.result}
    /\ pc = "delivering" /\ res = None /\ on # "working" => c.st \in Closing
    /\ pc = "delivered" => on = "working" \/ en = "terminal" \/ c.st \in Closing

\* What a current copy says besides.
CopyOK(c, pc) ==
    /\ pc = "claimed" => c.st \in UndispatchedStates
    /\ pc = "ready" => c.st = "ready_to_dispatch"
    /\ pc = "late" => c.st = "dispatching"
    /\ pc = "inspecting" => c.st \in {"delivery_uncertain", "working"}

\* The kernel's place says where the entry is.
KernelOK(c, en, pc) ==
    /\ pc = "accepting" => c.st = "absent"
    /\ pc \in Accepting => en = "pending"
    /\ pc \notin Accepting \cup {"idle"} => en = "accepted"

\* A live call of a Run that is over, or about to be closed by the canceller, is
\* one the acceptance fence closes, an orphan, or one whose execution raised.
Excused(en, td, pc) ==
    \/ pc \in {"fencing", "canceling", "canceled"}
    \/ pc = "idle" /\ en = "pending"
    \/ td = "error"

ClosedOK(c, rn, en, td, pc, xpc) ==
    /\ c.st \in LiveCallStates /\ (rn = "ended" \/ xpc = "closing") => Excused(en, td, pc)
    /\ c.st \in LiveCallStates \cup {"absent"} /\ xpc = "closing" => rn \in {"canceling", "ended"}

TokenOK ==
    /\ \A p, q \in Procs : proc[p].pc \in Out /\ proc[q].pc \in Out => p = q
    /\ \A p \in Procs : proc[p].pc \in Out => call.st \notin Early
    /\ \A p \in Procs : proc[p].pc \in Unsent => remote.got = 0

ProcsOK ==
    /\ proc \in [Procs -> Memory]
    /\ fresh \subseteq Procs
    /\ rowFresh \in [Rows -> SUBSET Procs]
    /\ \A p \in Procs : PlaceOK(call, row, entry, proc[p].pc, proc[p].on, proc[p].res)
    /\ \A p \in fresh : CopyOK(call, proc[p].pc)
    /\ KernelOK(call, entry, proc[Kernel].pc)
    /\ ClosedOK(call, run, entry, told, proc[Kernel].pc, proc[Canceller].pc)

CountersOK == age \in 0 .. MaxAge /\ events \in 0 .. MaxEvents

IInv ==
    /\ StoreOK(call, row, run, entry, told, remote, room)
    /\ ProcsOK
    /\ TokenOK
    /\ CountersOK
-----------------------------------------------------------------------------
(* States of a call                                                        *)

LEMMA Bounds ==
    /\ Kernel \in Procs /\ Canceller \in Procs /\ Kernel # Canceller
    /\ MaxTransportAttempts \in Nat /\ MaxTransportAttempts > 0
    /\ MaxInspections \in Nat /\ MaxInspections > 0 /\ MaxEvents \in Nat /\ MaxAge \in Nat
BY CallBoundsAssumption, CallProcsAssumption DEF Procs, Executors

LEMMA Recovers == ASSUME NEW r \in Recoverers
    PROVE  r \in Procs /\ r \in Executors /\ r # Kernel /\ r # Canceller
BY CallProcsAssumption DEF Procs, Executors

LEMMA Processes == ASSUME NEW p \in Processors
    PROVE  p \in Procs /\ p # Kernel /\ p # Canceller
BY CallProcsAssumption DEF Procs, Executors

LEMMA Executes == ASSUME NEW e \in Executors
    PROVE  e \in Procs /\ e # Canceller
BY CallProcsAssumption DEF Procs, Executors

\* Every state is early, live or final; the three ways of being over exclude
\* one another.
LEMMA States ==
    /\ \A s \in LiveCallStates : s \notin TerminalCallStates /\ s # "absent"
    /\ \A s \in TerminalCallStates : s \notin Early /\ s # None
    /\ \A s \in UndispatchedStates : s \in LiveCallStates /\ s \notin Closing
    /\ \A s \in Closing : s \notin Early
    /\ \A s \in Closing : s \in LiveCallStates => s = "cancel_pending"
    /\ "absent" \notin TerminalCallStates /\ "absent" \notin LiveCallStates
    /\ "canceled" \in TerminalCallStates /\ "cancel_pending" \in LiveCallStates
BY DEF LiveCallStates, TerminalCallStates, UndispatchedStates, Early, Closing, None

\* A verdict of the runtime is final and is not a cancellation.
LEMMA Outcomes == ASSUME NEW o \in Rows, o # "working"
    PROVE  /\ Outcome(o) \in TerminalCallStates /\ Outcome(o) # "canceled"
           /\ Outcome(o) = "completed" => o \in {"answer", "polled"}
BY DEF Rows, Outcome, TerminalCallStates

\* The transition table: only a live call moves, a canceled one to its end, and
\* only a dispatch that did not send goes back.
LEMMA Table == ASSUME NEW c, NEW st, Legal(c, st)
    PROVE  /\ c.st \in LiveCallStates
           /\ c.st \in Closing => st = "canceled"
           /\ st = "ready_to_dispatch" => c.st \in {"accepted", "dispatching"}
<1>1. c.st \in {"accepted", "ready_to_dispatch", "dispatching", "delivery_uncertain", "working",
                "continuation_pending", "input_required", "auth_required", "resuming",
                "cancel_pending"}
  BY DEF Legal, Successors
<1>2. c.st \in LiveCallStates
  BY <1>1 DEF LiveCallStates, UndispatchedStates
<1>3. CASE c.st = "cancel_pending"
  <2>1. Successors(c.st) = {"canceled"}
    BY <1>3 DEF Successors
  <2> QED BY <1>2, <1>3, <2>1 DEF Legal
<1>4. CASE c.st # "cancel_pending"
  <2>1. c.st \notin Closing
    BY <1>1, <1>4 DEF Closing
  <2>2. ASSUME st = "ready_to_dispatch" PROVE c.st \in {"accepted", "dispatching"}
    BY <1>1, <2>2 DEF Legal, Successors, TerminalCallStates
  <2> QED BY <1>2, <2>1, <2>2
<1> QED BY <1>3, <1>4
-----------------------------------------------------------------------------
(* Documents                                                               *)

\* The call c becomes d, over the rows rw: its claim changes, it moves, or it
\* gets its verdict.
Claiming(c, d) ==
    d \in Calls /\ d.st = c.st /\ d.tries = c.tries /\ d.result = c.result

Moving(c, d, rm) ==
    /\ d \in Calls /\ c.st \in LiveCallStates /\ d.st \in LiveCallStates /\ d.result = c.result
    /\ c.st \in Closing => d.st \in Closing
    /\ d.st \in Early => rm.got = 0
    /\ d.st \in UndispatchedStates => d.tries < MaxTransportAttempts

Ending(c, d, rw) ==
    /\ d \in Calls /\ c.st \in LiveCallStates
    /\ d.st \in TerminalCallStates /\ d.result = d.st
    /\ d.st = "canceled" \/ c.st \notin Closing
    /\ d.st # "canceled" =>
           \E o \in Rows \ {"working"} : Outcome(o) = d.result /\ rw[o].st # "absent"

\* A call goes forward.
CallOnward(c, d) ==
    /\ c.st = "absent" <=> d.st = "absent"
    /\ c.st \in TerminalCallStates => d.st = c.st /\ d.result = c.result
    /\ c.st \in Closing => d.st \in Closing
    /\ c.result # None => d.result = c.result
    /\ d.st \in LiveCallStates => c.st \in LiveCallStates

LEMMA CallClaims ==
    ASSUME NEW c, NEW d, NEW rw, NEW rn, NEW en, NEW td, NEW rm, NEW ro,
           StoreOK(c, rw, rn, en, td, rm, ro), Claiming(c, d)
    PROVE  StoreOK(d, rw, rn, en, td, rm, ro) /\ CallOnward(c, d)
<1>1. d.st = c.st /\ d.result = c.result /\ d.tries = c.tries
  BY DEF Claiming
<1>2. CallOK(d)
  BY <1>1 DEF CallOK, Claiming, StoreOK
<1>3. RemoteOK(d, rm) /\ RowsOK(d, rw, rm) /\ EvidenceOK(d, rw)
  BY <1>1 DEF StoreOK, RemoteOK, RowsOK, EvidenceOK
<1>4. SpentOK(d, rw, rn, en, ro) /\ RunOK(d, rn, en, td)
  BY <1>1 DEF StoreOK, SpentOK, Spent, RunOK
<1>5. CallOnward(c, d)
  BY <1>1 DEF CallOnward
<1> QED BY <1>2, <1>3, <1>4, <1>5 DEF StoreOK

LEMMA CallMoves ==
    ASSUME NEW c, NEW d, NEW rw, NEW rn, NEW en, NEW td, NEW rm, NEW ro,
           StoreOK(c, rw, rn, en, td, rm, ro), Moving(c, d, rm)
    PROVE  StoreOK(d, rw, rn, en, td, rm, ro) /\ CallOnward(c, d)
<1>1. /\ c.st \notin TerminalCallStates /\ d.st \notin TerminalCallStates
      /\ c.st # "absent" /\ d.st # "absent" /\ d.result = c.result /\ c.result = None
  BY States DEF Moving, StoreOK, CallOK
<1>2. CallOK(d)
  BY <1>1 DEF CallOK, Moving
<1>3. RemoteOK(d, rm)
  BY DEF StoreOK, RemoteOK, Moving
<1>4. RowsOK(d, rw, rm) /\ EvidenceOK(d, rw)
  BY <1>1 DEF StoreOK, RowsOK, EvidenceOK
<1>5. SpentOK(d, rw, rn, en, ro)
  BY <1>1 DEF StoreOK, SpentOK, Spent, Moving
<1>6. RunOK(d, rn, en, td)
  BY <1>1 DEF StoreOK, RunOK
<1>7. CallOnward(c, d)
  BY <1>1 DEF CallOnward, Moving
<1> QED BY <1>2, <1>3, <1>4, <1>5, <1>6, <1>7 DEF StoreOK

LEMMA CallEnds ==
    ASSUME NEW c, NEW d, NEW rw, NEW rn, NEW en, NEW td, NEW rm, NEW ro,
           StoreOK(c, rw, rn, en, td, rm, ro), Ending(c, d, rw)
    PROVE  /\ StoreOK(d, rw, rn, en, td, rm, ro) /\ CallOnward(c, d)
           /\ c.result = None /\ d.result \in TerminalCallStates
           /\ d.result = "completed" => rm.got = 1
<1>1. /\ c.st \notin TerminalCallStates /\ c.st # "absent" /\ d.st # "absent"
      /\ c.result = None /\ d.st \notin Early /\ d.st \notin LiveCallStates
      /\ d.st \in TerminalCallStates /\ d.result = d.st
  BY States DEF Ending, StoreOK, CallOK
<1>2. CallOK(d)
  BY <1>1, States DEF CallOK, Ending, Early
<1>3. RemoteOK(d, rm)
  BY <1>1 DEF StoreOK, RemoteOK
<1>4. RowsOK(d, rw, rm)
  BY <1>1 DEF StoreOK, RowsOK
<1>5. EvidenceOK(d, rw)
  BY <1>1 DEF EvidenceOK, Ending
<1>6. SpentOK(d, rw, rn, en, ro)
  <2>1. c.st \in Closing => d.st \in Closing
    BY DEF Ending, Closing
  <2> QED BY <1>1, <2>1 DEF StoreOK, SpentOK, Spent
<1>7. RunOK(d, rn, en, td)
  BY <1>1 DEF StoreOK, RunOK
<1>8. CallOnward(c, d)
  BY <1>1 DEF CallOnward, Ending, Closing
<1>9. d.result = "completed" => rm.got = 1
  <2> SUFFICES ASSUME d.result = "completed" PROVE rm.got = 1
    OBVIOUS
  <2>1. PICK o \in Rows \ {"working"} : Outcome(o) = d.result /\ rw[o].st # "absent"
    BY <1>1 DEF Ending
  <2>2. o \in {"answer", "polled"}
    BY <2>1, Outcomes
  <2> QED BY <2>1, <2>2 DEF StoreOK, RowsOK, RemoteOK
<1> QED BY <1>1, <1>2, <1>3, <1>4, <1>5, <1>6, <1>7, <1>8, <1>9 DEF StoreOK

\* The row of observation o becomes r.
RowWritten(c, rw, rn, en, rm, ro, o, r) ==
    /\ r \in InboxRows /\ r.st # "absent"
    /\ c.st # "absent"
    /\ rw[o].st # "absent" \/ o \notin {"answer", "polled"} \/ rm.done
    /\ r.digest => c.st \in TerminalCallStates
    /\ r.st = "completed" => Spent(c, rn, en, ro, o)

\* Rows are not deleted.
RowsOnward(rw, rv) == \A o \in Rows : rw[o].st # "absent" => rv[o].st # "absent"

LEMMA RowWrites ==
    ASSUME NEW c, NEW rw, NEW rn, NEW en, NEW td, NEW rm, NEW ro, NEW o \in Rows, NEW r, NEW rv,
           StoreOK(c, rw, rn, en, td, rm, ro), RowWritten(c, rw, rn, en, rm, ro, o, r),
           rv = [rw EXCEPT ![o] = r]
    PROVE  StoreOK(c, rv, rn, en, td, rm, ro) /\ RowsOnward(rw, rv)
<1>1. rw \in [Rows -> InboxRows]
  BY DEF StoreOK, RowsOK
<1>2. rv \in [Rows -> InboxRows] /\ rv[o] = r /\ \A q \in Rows : q # o => rv[q] = rw[q]
  BY <1>1 DEF RowWritten
<1>3. RowsOnward(rw, rv)
  BY <1>2 DEF RowsOnward, RowWritten
<1>4. RowsOK(c, rv, rm)
  <2>1. \A q \in Rows : rv[q].st # "absent" => c.st # "absent"
    BY DEF RowWritten
  <2>2. \A q \in {"answer", "polled"} : rv[q].st # "absent" => rm.done
    <3>1. {"answer", "polled"} \subseteq Rows
      BY DEF Rows
    <3> QED BY <1>2, <3>1 DEF RowWritten, StoreOK, RowsOK
  <2>3. \A q \in Rows : rv[q].digest => c.st \in TerminalCallStates
    BY <1>2 DEF RowWritten, StoreOK, RowsOK
  <2> QED BY <1>2, <2>1, <2>2, <2>3 DEF RowsOK
<1>5. EvidenceOK(c, rv)
  BY <1>3 DEF EvidenceOK, StoreOK, RowsOnward
<1>6. SpentOK(c, rv, rn, en, ro)
  BY <1>2 DEF SpentOK, StoreOK, RowWritten
<1> QED BY <1>3, <1>4, <1>5, <1>6 DEF StoreOK
-----------------------------------------------------------------------------
(* A step of one process                                                   *)

\* Process p comes to the place pc.
Moves(p, pc, on, res) ==
    /\ proc' \in [Procs -> Memory]
    /\ proc'[p].pc = pc /\ proc'[p].on = on /\ proc'[p].res = res
    /\ \A q \in Procs : q # p => proc'[q] = proc[q]

\* What the Run has heard and how often the Agent was called go forward, and one
\* step does not change two of the things RemoteCall speaks of.
Single ==
    /\ call'.result = call.result \/ (told' = told /\ remote'.got = remote.got)
    /\ told' = told \/ remote'.got = remote.got
    /\ told # None => told' = told
    /\ entry = "terminal" => entry' = "terminal"
    /\ remote.got = 1 => remote'.got = 1

\* Other processes keep what they know of the call.
Copies(p, pc) ==
    /\ fresh' \subseteq Procs
    /\ \A q \in fresh' : q # p => q \in fresh /\ call'.st = call.st
    /\ p \in fresh' => CopyOK(call', pc)

\* The right to send is taken while nobody has it.
Turns(p, pc) ==
    /\ pc \in Out => proc[p].pc \in Out \/ call.st \in Early
    /\ pc \in Out => call'.st \notin Early
    /\ call'.st \in Early => call.st \in Early \/ proc[p].pc \in Out
    /\ pc \in Unsent => remote'.got = 0
    /\ remote'.got = remote.got \/ proc[p].pc \in Out

\* The place of process q once p has come to pc.
Place(q, p, pc) == IF q = p THEN pc ELSE proc[q].pc

\* A step of RemoteCall, or of none of its variables.
Promised ==
    \/ remote'.got = remote.got /\ call'.result = call.result /\ told' = told
    \/ /\ remote.got = 0 /\ remote'.got = 1
       /\ call'.result = call.result /\ told' = told
    \/ /\ call.result = None /\ call'.result \in Results
       /\ call'.result = "completed" => remote.got = 1
       /\ remote'.got = remote.got /\ told' = told
    \/ /\ told = None /\ told' \in Results \cup KernelFailures
       /\ told' = call.result \/ told' \in KernelFailures
       /\ remote'.got = remote.got /\ call'.result = call.result

LEMMA PlaceKept ==
    ASSUME NEW c, NEW d, NEW rw, NEW rv, NEW en, NEW ep, NEW pc, NEW on, NEW res, on \in Rows,
           PlaceOK(c, rw, en, pc, on, res), CallOnward(c, d), RowsOnward(rw, rv),
           en = "terminal" => ep = "terminal"
    PROVE  PlaceOK(d, rv, ep, pc, on, res)
<1>1. c.result = None \/ d.result = c.result
  BY DEF CallOnward
<1>2. rw[on].st # "absent" => rv[on].st # "absent"
  BY DEF RowsOnward
<1> QED BY <1>1, <1>2 DEF PlaceOK, CallOnward

LEMMA TokenKept ==
    ASSUME IInv, NEW p \in Procs, NEW pc, NEW on, NEW res, Moves(p, pc, on, res), Turns(p, pc)
    PROVE  TokenOK'
<1>1. \A q \in Procs : proc'[q].pc = IF q = p THEN pc ELSE proc[q].pc
  BY DEF IInv, ProcsOK, Moves
<1>2. /\ \A q, r \in Procs : proc[q].pc \in Out /\ proc[r].pc \in Out => q = r
      /\ \A q \in Procs : proc[q].pc \in Out => call.st \notin Early
      /\ \A q \in Procs : proc[q].pc \in Unsent => remote.got = 0
  BY DEF IInv, TokenOK
<1>3. \A s : s \in Unsent => s \in Out
  BY DEF Unsent, Out
<1>4. \A q, r \in Procs : proc'[q].pc \in Out /\ proc'[r].pc \in Out => q = r
  BY <1>1, <1>2 DEF Turns
<1>5. \A q \in Procs : proc'[q].pc \in Out => call'.st \notin Early
  BY <1>1, <1>2 DEF Turns
<1>6. \A q \in Procs : proc'[q].pc \in Unsent => remote'.got = 0
  BY <1>1, <1>2, <1>3 DEF Turns
<1> QED BY <1>4, <1>5, <1>6 DEF TokenOK

LEMMA PromiseKept ==
    ASSUME IInv, StoreOK(call', row', run', entry', told', remote', room'),
           CallOnward(call, call'), Single
    PROVE  Promised
<1>1. remote.got \in 0 .. 1 /\ remote'.got \in 0 .. 1
  BY DEF IInv, StoreOK, RemoteOK
<1>2. CASE call'.result # call.result
  <2>1. call.result = None /\ told' = told /\ remote'.got = remote.got
    BY <1>2 DEF CallOnward, Single
  <2>2. call'.result = call'.st /\ call'.st \in TerminalCallStates
    BY <1>2, <2>1 DEF StoreOK, CallOK
  <2>3. ASSUME call'.result = "completed" PROVE remote.got = 1
    <3>1. call'.st \in TerminalCallStates \ {"canceled"}
      BY <2>2, <2>3
    <3>2. PICK o \in Rows \ {"working"} : Outcome(o) = call'.result /\ row'[o].st # "absent"
      BY <3>1 DEF StoreOK, EvidenceOK
    <3>3. o \in {"answer", "polled"}
      BY <2>3, <3>2, Outcomes
    <3>4. remote'.got = 1
      BY <3>2, <3>3 DEF StoreOK, RowsOK, RemoteOK
    <3> QED BY <2>1, <3>4
  <2> QED BY <2>1, <2>2, <2>3 DEF Promised, Results
<1>3. CASE call'.result = call.result /\ told' # told
  <2>1. told = None /\ remote'.got = remote.got
    BY <1>3 DEF Single
  <2>2. told' \in KernelFailures \cup {call.result} /\ told' # None
    BY <1>3, <2>1 DEF StoreOK, RunOK
  <2>3. call.result # None => call.result \in Results
    BY DEF IInv, StoreOK, CallOK, Results
  <2> QED BY <1>3, <2>1, <2>2, <2>3 DEF Promised
<1>4. CASE call'.result = call.result /\ told' = told
  BY <1>1, <1>4 DEF Promised, Single
<1> QED BY <1>2, <1>3, <1>4

LEMMA ProcessStep ==
    ASSUME IInv, NEW p \in Procs, NEW pc, NEW on, NEW res, Moves(p, pc, on, res),
           StoreOK(call', row', run', entry', told', remote', room'),
           CallOnward(call, call'), RowsOnward(row, row'), Single, Copies(p, pc), Turns(p, pc),
           rowFresh' \in [Rows -> SUBSET Procs], CountersOK',
           PlaceOK(call', row', entry', pc, on, res),
           KernelOK(call', entry', Place(Kernel, p, pc)),
           ClosedOK(call', run', entry', told', Place(Kernel, p, pc), Place(Canceller, p, pc))
    PROVE  IInv' /\ Promised
<1>1. /\ proc \in [Procs -> Memory] /\ proc' \in [Procs -> Memory]
      /\ proc'[p].pc = pc /\ proc'[p].on = on /\ proc'[p].res = res
      /\ \A q \in Procs : q # p => proc'[q] = proc[q]
  BY DEF IInv, ProcsOK, Moves
<1>2. \A q \in Procs : PlaceOK(call', row', entry', proc'[q].pc, proc'[q].on, proc'[q].res)
  <2> SUFFICES ASSUME NEW q \in Procs
               PROVE  PlaceOK(call', row', entry', proc'[q].pc, proc'[q].on, proc'[q].res)
    OBVIOUS
  <2>1. CASE q = p
    BY <1>1, <2>1
  <2>2. CASE q # p
    <3>1. proc[q].on \in Rows
      BY <1>1 DEF Memory
    <3>2. PlaceOK(call, row, entry, proc[q].pc, proc[q].on, proc[q].res)
      BY DEF IInv, ProcsOK
    <3>3. entry = "terminal" => entry' = "terminal"
      BY DEF Single
    <3>4. PlaceOK(call', row', entry', proc[q].pc, proc[q].on, proc[q].res)
      BY <3>1, <3>2, <3>3, PlaceKept
    <3> QED BY <1>1, <2>2, <3>4
  <2> QED BY <2>1, <2>2
<1>3. \A q \in fresh' : CopyOK(call', proc'[q].pc)
  <2> SUFFICES ASSUME NEW q \in fresh' PROVE CopyOK(call', proc'[q].pc)
    OBVIOUS
  <2>1. CASE q = p
    BY <1>1, <2>1 DEF Copies
  <2>2. CASE q # p
    <3>1. q \in fresh /\ q \in Procs /\ call'.st = call.st
      BY <2>2 DEF Copies
    <3>2. CopyOK(call, proc[q].pc) /\ proc'[q] = proc[q]
      BY <1>1, <2>2, <3>1 DEF IInv, ProcsOK
    <3> QED BY <3>1, <3>2 DEF CopyOK
  <2> QED BY <2>1, <2>2
<1>4. \A q \in {Kernel, Canceller} : proc'[q].pc = Place(q, p, pc)
  BY <1>1, Bounds DEF Place
<1>5. ProcsOK'
  BY <1>1, <1>2, <1>3, <1>4 DEF ProcsOK, Copies
<1>6. TokenOK'
  BY TokenKept
<1>7. Promised
  BY PromiseKept
<1> QED BY <1>5, <1>6, <1>7 DEF IInv

LEMMA GoMoves ==
    ASSUME IInv, NEW p \in Procs, NEW pc \in Pcs, Go(p, pc)
    PROVE  Moves(p, pc, proc[p].on, proc[p].res)
<1>1. proc \in [Procs -> Memory] /\ proc[p] \in Memory
  BY DEF IInv, ProcsOK
<1> DEFINE m == [proc[p] EXCEPT !.pc = pc]
<1>2. m \in Memory /\ m.pc = pc /\ m.on = proc[p].on /\ m.res = proc[p].res
  BY <1>1 DEF Memory
<1>3. proc' = [proc EXCEPT ![p] = m]
  BY <1>1 DEF Go
<1> HIDE DEF m
<1> QED BY <1>1, <1>2, <1>3 DEF Moves

LEMMA GoOnMoves ==
    ASSUME IInv, NEW p \in Procs, NEW pc \in Pcs, NEW o \in Rows, GoOn(p, pc, o)
    PROVE  Moves(p, pc, o, proc[p].res)
<1>1. proc \in [Procs -> Memory] /\ proc[p] \in Memory
  BY DEF IInv, ProcsOK
<1> DEFINE m == [proc[p] EXCEPT !.pc = pc, !.on = o]
<1>2. m \in Memory /\ m.pc = pc /\ m.on = o /\ m.res = proc[p].res
  BY <1>1 DEF Memory
<1>3. proc' = [proc EXCEPT ![p] = m]
  BY <1>1 DEF GoOn
<1> HIDE DEF m
<1> QED BY <1>1, <1>2, <1>3 DEF Moves

LEMMA StopMoves ==
    ASSUME IInv, NEW p \in Procs, Stop(p)
    PROVE  Moves(p, "idle", "working", None)
BY DEF IInv, ProcsOK, Stop, Moves, Memory, Idle, Pcs, Rows

LEMMA ReturnMoves ==
    ASSUME IInv, NEW e \in Procs, NEW res \in Results \cup KernelFailures \cup {None},
           Return(e, res)
    PROVE  \/ Moves(e, "idle", "working", None)
           \/ e = Kernel /\ Moves(e, "returning", "working", res)
<1>1. CASE e = Kernel
  <2> DEFINE m == [Idle EXCEPT !.pc = "returning", !.res = res]
  <2>1. proc' = [proc EXCEPT ![e] = m] /\ proc \in [Procs -> Memory]
    BY <1>1 DEF Return, IInv, ProcsOK
  <2>2. m \in Memory /\ m.pc = "returning" /\ m.on = "working" /\ m.res = res
    BY DEF Memory, Pcs, Rows, Idle
  <2> HIDE DEF m
  <2> QED BY <1>1, <2>1, <2>2 DEF Moves
<1>2. CASE e # Kernel
  BY <1>2, StopMoves DEF Return, Stop
<1> QED BY <1>1, <1>2

\* What an executor knows of the place it is at.
LEMMA Known ==
    ASSUME IInv, NEW p \in Procs
    PROVE  /\ proc[p] \in Memory /\ proc[p].on \in Rows /\ proc[p].pc \in Pcs
           /\ PlaceOK(call, row, entry, proc[p].pc, proc[p].on, proc[p].res)
           /\ p \in fresh => CopyOK(call, proc[p].pc)
           /\ call \in Calls /\ row \in [Rows -> InboxRows] /\ fresh \subseteq Procs
           /\ rowFresh \in [Rows -> SUBSET Procs]
<1>1. proc[p] \in Memory
  BY DEF IInv, ProcsOK
<1>2. proc[p].on \in Rows /\ proc[p].pc \in Pcs
  BY <1>1 DEF Memory
<1> QED BY <1>1, <1>2 DEF IInv, ProcsOK, StoreOK, CallOK, RowsOK

LEMMA CountersKept ==
    ASSUME IInv, Event \/ UNCHANGED events, UNCHANGED age
    PROVE  CountersOK'
BY Bounds DEF IInv, CountersOK, Event

\* The kernel and the Run agree as before when a process steps that is not about
\* to accept or to close the call.
LEMMA RolesKept ==
    ASSUME IInv, NEW p \in Procs, NEW pc, p # Canceller,
           p # Kernel \/ (proc[p].pc \notin Accepting \cup {"idle"} /\ pc \notin Accepting),
           UNCHANGED <<run, entry, told>>, CallOnward(call, call')
    PROVE  /\ KernelOK(call', entry', Place(Kernel, p, pc))
           /\ ClosedOK(call', run', entry', told', Place(Kernel, p, pc), Place(Canceller, p, pc))
<1>1. /\ KernelOK(call, entry, proc[Kernel].pc)
      /\ ClosedOK(call, run, entry, told, proc[Kernel].pc, proc[Canceller].pc)
      /\ RunOK(call, run, entry, told)
  BY DEF IInv, ProcsOK, StoreOK
<1>2. /\ call'.st \in LiveCallStates => call.st \in LiveCallStates
      /\ call'.st = "absent" => call.st = "absent"
  BY DEF CallOnward
<1>3. Place(Canceller, p, pc) = proc[Canceller].pc
  BY DEF Place
<1>4. CASE p # Kernel
  <2>1. Place(Kernel, p, pc) = proc[Kernel].pc
    BY <1>4 DEF Place
  <2>2. KernelOK(call', entry', proc[Kernel].pc)
    BY <1>1 DEF KernelOK, CallOnward
  <2>3. ClosedOK(call', run', entry', told', proc[Kernel].pc, proc[Canceller].pc)
    BY <1>1, <1>2 DEF ClosedOK
  <2> QED BY <1>3, <2>1, <2>2, <2>3
<1>5. CASE p = Kernel /\ proc[p].pc \notin Accepting \cup {"idle"} /\ pc \notin Accepting
  <2>1. entry = "accepted" /\ told = None
    BY <1>1, <1>5 DEF KernelOK, RunOK
  <2>2. ~Excused(entry, told, proc[Kernel].pc)
    BY <1>5, <2>1 DEF Excused, Accepting, None
  <2>3. Place(Kernel, p, pc) = pc
    BY <1>5 DEF Place
  <2>4. KernelOK(call', entry', pc)
    BY <1>5, <2>1 DEF KernelOK, Accepting
  <2>5. ClosedOK(call', run', entry', told', pc, proc[Canceller].pc)
    BY <1>1, <1>2, <2>2 DEF ClosedOK
  <2> QED BY <1>3, <2>3, <2>4, <2>5
<1> QED BY <1>4, <1>5

\* What a step of process p may do to the ledger, and to the inbox.
LedgerStep(p) ==
    \/ call' = call /\ fresh' \subseteq fresh
    \/ /\ fresh' \subseteq {p}
       /\ \/ Claiming(call, call')
          \/ Moving(call, call', remote)
          \/ Ending(call, call', row)

InboxStep ==
    \/ row' = row
    \/ \E o \in Rows, r \in InboxRows :
           row' = [row EXCEPT ![o] = r] /\ RowWritten(call', row, run, entry, remote, room, o, r)

LEMMA DocumentsKept ==
    ASSUME IInv, NEW p \in Procs, LedgerStep(p), InboxStep,
           UNCHANGED <<run, entry, told, remote, room>>
    PROVE  /\ StoreOK(call', row', run', entry', told', remote', room')
           /\ CallOnward(call, call') /\ RowsOnward(row, row')
<1>1. StoreOK(call, row, run, entry, told, remote, room)
  BY DEF IInv
<1>2. StoreOK(call', row, run, entry, told, remote, room) /\ CallOnward(call, call')
  <2>1. CASE call' = call
    BY <1>1, <2>1 DEF CallOnward
  <2>2. CASE Claiming(call, call')
    BY <1>1, <2>2, CallClaims
  <2>3. CASE Moving(call, call', remote)
    BY <1>1, <2>3, CallMoves
  <2>4. CASE Ending(call, call', row)
    BY <1>1, <2>4, CallEnds
  <2> QED BY <2>1, <2>2, <2>3, <2>4 DEF LedgerStep
<1>3. CASE row' = row
  BY <1>2, <1>3 DEF RowsOnward
<1>4. CASE row' # row
  <2>1. PICK o \in Rows, r \in InboxRows :
          row' = [row EXCEPT ![o] = r] /\ RowWritten(call', row, run, entry, remote, room, o, r)
    BY <1>4 DEF InboxStep
  <2>2. StoreOK(call', row', run, entry, told, remote, room) /\ RowsOnward(row, row')
    BY <1>2, <2>1, RowWrites
  <2> QED BY <1>2, <2>2
<1> QED BY <1>3, <1>4

\* A step of an executor, a recoverer or a processor that does not reach the Run
\* or the Agent.
LEMMA QuietStep ==
    ASSUME IInv, NEW p \in Procs, NEW pc, NEW on, NEW res, Moves(p, pc, on, res), p # Canceller,
           p # Kernel \/ (proc[p].pc \notin Accepting \cup {"idle"} /\ pc \notin Accepting),
           UNCHANGED <<run, entry, told, remote, room, age>>, Event \/ UNCHANGED events,
           LedgerStep(p), InboxStep, rowFresh' \in [Rows -> SUBSET Procs],
           p \in fresh' => CopyOK(call', pc), Turns(p, pc),
           PlaceOK(call', row', entry', pc, on, res)
    PROVE  IInv' /\ Promised
<1>1. /\ StoreOK(call', row', run', entry', told', remote', room')
      /\ CallOnward(call, call') /\ RowsOnward(row, row')
  BY DocumentsKept
<1>2. CountersOK'
  BY CountersKept
<1>3. /\ KernelOK(call', entry', Place(Kernel, p, pc))
      /\ ClosedOK(call', run', entry', told', Place(Kernel, p, pc), Place(Canceller, p, pc))
  BY <1>1, RolesKept
<1>4. Single
  BY DEF Single
<1>5. Copies(p, pc)
  <2>1. fresh \subseteq Procs
    BY DEF IInv, ProcsOK
  <2> QED BY <2>1 DEF Copies, LedgerStep
<1> QED BY <1>1, <1>2, <1>3, <1>4, <1>5, ProcessStep

\* A step after which p needs the call no more.
LEMMA LastStep ==
    ASSUME IInv, NEW p \in Procs, p # Canceller, proc[p].pc \notin Accepting \cup {"idle"},
           UNCHANGED <<run, entry, told, remote, room, age>>, Event \/ UNCHANGED events,
           LedgerStep(p), InboxStep, rowFresh' \in [Rows -> SUBSET Procs],
           call'.st \in Early => call.st \in Early \/ proc[p].pc \in Out,
           Stop(p) \/ \E res \in {None, "error", call'.result} : Return(p, res)
    PROVE  IInv' /\ Promised
<1>1. /\ StoreOK(call', row', run', entry', told', remote', room')
      /\ CallOnward(call, call')
  BY DocumentsKept
<1>2. PICK res \in {None, "error", call'.result} :
        Moves(p, "idle", "working", None) \/ (p = Kernel /\ Moves(p, "returning", "working", res))
  <2>1. CASE Stop(p)
    BY <2>1, StopMoves
  <2>2. ASSUME NEW res \in {None, "error", call'.result}, Return(p, res)
        PROVE  Moves(p, "idle", "working", None)
                 \/ (p = Kernel /\ Moves(p, "returning", "working", res))
    <3>1. call'.result \in Results \cup {None}
      BY <1>1 DEF StoreOK, CallOK, Calls
    <3>2. res \in Results \cup KernelFailures \cup {None}
      BY <3>1 DEF KernelFailures
    <3> QED BY <2>2, <3>2, ReturnMoves
  <2> QED BY <2>1, <2>2
<1>3. ASSUME NEW pc \in {"idle", "returning"} PROVE Turns(p, pc) /\ CopyOK(call', pc)
  BY <1>3 DEF Turns, Out, Unsent, CopyOK
<1>4. CASE Moves(p, "idle", "working", None)
  <2>1. PlaceOK(call', row', entry', "idle", "working", None)
    BY DEF PlaceOK, Ruling, Reading
  <2>2. "idle" \notin Accepting
    BY DEF Accepting
  <2> QED BY <1>3, <1>4, <2>1, <2>2, QuietStep
<1>5. CASE p = Kernel /\ Moves(p, "returning", "working", res)
  <2>1. call.st # "absent"
    <3>1. KernelOK(call, entry, proc[Kernel].pc) /\ RunOK(call, run, entry, told)
      BY DEF IInv, ProcsOK, StoreOK
    <3> QED BY <1>5, <3>1 DEF KernelOK, RunOK
  <2>2. call'.st # "absent"
    BY <1>1, <2>1 DEF CallOnward
  <2>3. PlaceOK(call', row', entry', "returning", "working", res)
    BY <2>2 DEF PlaceOK, Ruling, Reading
  <2>4. "returning" \notin Accepting
    BY DEF Accepting
  <2> QED BY <1>3, <1>5, <2>3, <2>4, QuietStep
<1> QED BY <1>2, <1>4, <1>5
-----------------------------------------------------------------------------
(* Writes of the ledger and of the inbox                                   *)

LEMMA Claims ==
    ASSUME NEW c \in Calls
    PROVE  /\ \A who \in Owners : Claiming(c, Claimed(c, who))
           /\ \A due \in BOOLEAN : Claiming(c, Released(c, due))
           /\ \A due \in BOOLEAN : Claiming(c, [c EXCEPT !.due = due])
           /\ \A lease \in BOOLEAN : Claiming(c, [c EXCEPT !.lease = lease])
BY DEF Calls, Claiming, Claimed, Released, Owners, None

LEMMA LooksAgain ==
    ASSUME NEW c \in Calls, ~LookedEnough(c)
    PROVE  Claiming(c, [Released(c, FALSE) EXCEPT !.looks = @ + 1])
<1>1. c.looks + 1 \in 0 .. MaxInspections
  BY Bounds DEF Calls, LookedEnough
<1> QED BY <1>1 DEF Calls, Claiming, Released, Owners, None

\* A call without a verdict moves to a state beyond its dispatch.
LEMMA Movements ==
    ASSUME NEW c, CallOK(c), NEW rm, NEW st \in LiveCallStates, c.st \in LiveCallStates,
           st \notin Early, c.st \notin Closing \/ st \in Closing
    PROVE  /\ \A due \in BOOLEAN : Moving(c, Moved(c, st, due), rm)
           /\ \A due \in BOOLEAN : Moving(c, [Moved(c, st, due) EXCEPT !.task = TRUE], rm)
           /\ Moving(c, [c EXCEPT !.st = st], rm)
<1>1. c \in Calls
  BY DEF CallOK
<1>2. st \in CallStates \cup {"absent"} /\ st \notin UndispatchedStates
  BY DEF CallStates, Early
<1>3. ASSUME NEW due \in BOOLEAN
      PROVE  /\ Moved(c, st, due) \in Calls
             /\ Moved(c, st, due).st = st /\ Moved(c, st, due).result = c.result
  BY <1>1, <1>2 DEF Calls, Moved, Released, Owners, None
<1>4. ASSUME NEW due \in BOOLEAN
      PROVE  /\ [Moved(c, st, due) EXCEPT !.task = TRUE] \in Calls
             /\ [Moved(c, st, due) EXCEPT !.task = TRUE].st = st
             /\ [Moved(c, st, due) EXCEPT !.task = TRUE].result = c.result
  BY <1>3 DEF Calls
<1>5. /\ [c EXCEPT !.st = st] \in Calls
      /\ [c EXCEPT !.st = st].st = st /\ [c EXCEPT !.st = st].result = c.result
  BY <1>1, <1>2 DEF Calls
<1> QED BY <1>2, <1>3, <1>4, <1>5 DEF Moving

LEMMA Ends ==
    ASSUME NEW c, CallOK(c), NEW rw, NEW o \in Rows, o # "working", rw[o].st # "absent",
           Legal(c, Outcome(o))
    PROVE  Ending(c, Ended(c, o), rw)
<1>1. c \in Calls
  BY DEF CallOK
<1>2. Outcome(o) \in TerminalCallStates /\ Outcome(o) # "canceled"
  BY Outcomes
<1>3. c.st \in LiveCallStates /\ c.st \notin Closing
  BY <1>2, Table
<1>4. Outcome(o) \in CallStates /\ Outcome(o) \in Results
  BY <1>2 DEF CallStates, Results
<1>5. /\ Ended(c, o) \in Calls
      /\ Ended(c, o).st = Outcome(o) /\ Ended(c, o).result = Outcome(o)
  BY <1>1, <1>4 DEF Calls, Ended, Moved, Released, Owners, None
<1> QED BY <1>2, <1>3, <1>5 DEF Ending

LEMMA Cancels ==
    ASSUME NEW c, CallOK(c), NEW rw, c.st \in LiveCallStates
    PROVE  Ending(c, [Moved(c, "canceled", TRUE) EXCEPT !.result = "canceled"], rw)
<1> DEFINE d == [Moved(c, "canceled", TRUE) EXCEPT !.result = "canceled"]
<1>1. "canceled" \in CallStates /\ "canceled" \in Results /\ "canceled" \in TerminalCallStates
  BY DEF CallStates, Results, TerminalCallStates
<1>2. d \in Calls /\ d.st = "canceled" /\ d.result = "canceled"
  BY <1>1 DEF CallOK, Calls, Moved, Released, Owners, None
<1> QED BY <1>1, <1>2 DEF Ending

\* Evidence is recorded in an inbox row that is new or stays as it is.
LEMMA Records ==
    ASSUME IInv, NEW o \in Rows, Record(o), UNCHANGED <<run, entry, told, remote, room>>,
           call'.st # "absent", o \in {"answer", "polled"} => remote.done,
           call.st \in TerminalCallStates => call'.st \in TerminalCallStates,
           call'.st = call.st /\ call'.result = call.result
    PROVE  /\ InboxStep /\ rowFresh' = rowFresh
           /\ row' \in [Rows -> InboxRows] /\ row'[o].st # "absent" /\ RowsOnward(row, row')
<1>1. row \in [Rows -> InboxRows] /\ row[o] \in InboxRows
  BY DEF IInv, StoreOK, RowsOK
<1> DEFINE r == [row[o] EXCEPT !.st = IF @ = "absent" THEN "pending" ELSE @]
<1>2. row' = [row EXCEPT ![o] = r]
  BY <1>1 DEF Record
<1>3. /\ r \in InboxRows /\ r.st # "absent" /\ r.digest = row[o].digest
      /\ r.st = "completed" => row[o].st = "completed"
  BY <1>1 DEF InboxRows, RowStates
<1>4. /\ r.digest => call'.st \in TerminalCallStates
      /\ r.st = "completed" => Spent(call', run, entry, room, o)
  BY <1>3 DEF IInv, StoreOK, RowsOK, SpentOK, Spent
<1> HIDE DEF r
<1>5. RowWritten(call', row, run, entry, remote, room, o, r)
  BY <1>3, <1>4 DEF RowWritten
<1>6. InboxStep
  BY <1>2, <1>3, <1>5 DEF InboxStep
<1>7. row' \in [Rows -> InboxRows] /\ row'[o] = r /\ \A q \in Rows : q # o => row'[q] = row[q]
  BY <1>1, <1>2, <1>3
<1> QED BY <1>3, <1>6, <1>7 DEF RowsOnward, Record

\* The places that promise nothing but a call.
Busy == {"starting", "claimed", "late", "other", "ready", "dispatching", "sending",
         "streaming", "ambiguous", "retrying", "contract", "recovering", "inspecting"}

LEMMA GoStep ==
    ASSUME IInv, NEW p \in Procs, p # Canceller, proc[p].pc \notin Accepting \cup {"idle", "closing"},
           NEW pc \in Busy, Go(p, pc),
           UNCHANGED <<run, entry, told, remote, room, age>>, Event \/ UNCHANGED events,
           LedgerStep(p), InboxStep, rowFresh' \in [Rows -> SUBSET Procs],
           p \in fresh' => CopyOK(call', pc), Turns(p, pc)
    PROVE  IInv' /\ Promised
<1>1. /\ pc \in Pcs /\ pc \notin Accepting \cup Ruling \cup Reading
      /\ pc \notin {"marking", "marked", "settling", "returning", "delivering", "delivered"}
  BY DEF Busy, Pcs, Accepting, Ruling, Reading
<1>2. call'.st # "absent"
  <2>1. call.st # "absent"
    BY Known DEF PlaceOK, Accepting
  <2>2. CallOnward(call, call')
    BY DocumentsKept
  <2> QED BY <2>1, <2>2 DEF CallOnward
<1>3. PlaceOK(call', row', entry', pc, proc[p].on, proc[p].res)
  BY <1>1, <1>2 DEF PlaceOK
<1>4. Moves(p, pc, proc[p].on, proc[p].res)
  BY <1>1, GoMoves
<1> QED BY <1>1, <1>3, <1>4, QuietStep

\* The evidence of a verdict is recorded, and is about to be applied.
LEMMA RuleStep ==
    ASSUME IInv, NEW p \in Procs, p # Canceller, proc[p].pc \notin Accepting,
           p # Kernel \/ proc[p].pc # "idle",
           NEW pc \in {"applying", "expiring", "polled"}, NEW o \in Rows, o # "working",
           o \in {"answer", "polled"} => remote.done,
           call.st # "absent", Record(o), GoOn(p, pc, o),
           UNCHANGED <<run, entry, told, remote, room, age>>, Event \/ UNCHANGED events,
           (call' = call /\ fresh' \subseteq fresh) \/ (Claiming(call, call') /\ fresh' \subseteq {p})
    PROVE  IInv' /\ Promised
<1>1. call'.st = call.st /\ call'.result = call.result
  BY DEF Claiming
<1>2. /\ InboxStep /\ rowFresh' = rowFresh
      /\ row' \in [Rows -> InboxRows] /\ row'[o].st # "absent"
  BY <1>1, Records
<1>3. LedgerStep(p)
  BY DEF LedgerStep
<1>4. pc \in Pcs /\ pc \notin Accepting \cup {"idle"} /\ pc \notin Out /\ pc \notin Unsent
  BY DEF Pcs, Accepting, Out, Unsent
<1>5. Moves(p, pc, o, proc[p].res)
  BY <1>4, GoOnMoves
<1>6. PlaceOK(call', row', entry', pc, o, proc[p].res)
  BY <1>1, <1>2 DEF PlaceOK, Reading
<1>7. Turns(p, pc) /\ CopyOK(call', pc)
  BY <1>1, <1>4 DEF Turns, CopyOK
<1>8. rowFresh' \in [Rows -> SUBSET Procs]
  BY <1>2 DEF IInv, ProcsOK
<1> QED BY <1>2, <1>3, <1>4, <1>5, <1>6, <1>7, <1>8, QuietStep
-----------------------------------------------------------------------------
(* The executor                                                            *)

\* What an executor does not touch.
LEMMA Untouched ==
    ASSUME IInv
    PROVE  /\ UNCHANGED call => call'.result = call.result
           /\ UNCHANGED inbox => row' = row /\ rowFresh' \in [Rows -> SUBSET Procs] /\ InboxStep
           /\ UNCHANGED runVars => run' = run /\ entry' = entry /\ told' = told
           /\ UNCHANGED world => remote' = remote /\ age' = age /\ room' = room
           /\ UNCHANGED ledger => call' = call /\ fresh' = fresh
           /\ CallOK(call) /\ call \in Calls
           /\ RemoteOK(call, remote)
BY DEF IInv, ProcsOK, StoreOK, CallOK, inbox, runVars, world, ledger, InboxStep

\* The ways to end the use of a copy.
LEMMA Finishes ==
    ASSUME IInv, NEW p \in Procs
    PROVE  /\ Done(p) => LedgerStep(p) /\ call' = call
           /\ \A d : Last(d) /\ (Claiming(call, d) \/ Moving(call, d, remote) \/ Ending(call, d, row))
                      => LedgerStep(p) /\ call' = d
           /\ \A d : Write(p, d) /\ (Claiming(call, d) \/ Moving(call, d, remote))
                      => LedgerStep(p) /\ call' = d
<1>1. Done(p) => LedgerStep(p) /\ call' = call
  BY DEF Done, LedgerStep
<1>2. ASSUME NEW d, Last(d),
             Claiming(call, d) \/ Moving(call, d, remote) \/ Ending(call, d, row)
      PROVE  LedgerStep(p) /\ call' = d
  <2>1. call' = d /\ fresh' = {}
    BY <1>2 DEF Last
  <2> QED BY <1>2, <2>1 DEF LedgerStep
<1>3. ASSUME NEW d, Write(p, d), Claiming(call, d) \/ Moving(call, d, remote)
      PROVE  LedgerStep(p) /\ call' = d
  <2>1. call' = d /\ fresh' = {p}
    BY <1>3 DEF Write
  <2> QED BY <1>3, <2>1 DEF LedgerStep
<1> QED BY <1>1, <1>2, <1>3

LEMMA StepExecStart ==
    ASSUME IInv, NEW e \in Executors, ExecStart(e)
    PROVE  IInv' /\ Promised
<1>1. e \in Procs /\ e # Canceller /\ proc[e].pc = "starting"
  BY Executes DEF ExecStart, At
<1>2. proc[e].pc \notin Accepting \cup {"idle", "closing"}
  BY <1>1 DEF Accepting
<1>3. UNCHANGED <<row, rowFresh, run, entry, told, remote, room, age, events>> /\ InboxStep
      /\ rowFresh' \in [Rows -> SUBSET Procs]
  BY Untouched DEF ExecStart, inbox, runVars, world
<1>4. CASE Done(e) /\ \E res \in {None, call.result} : Return(e, res)
  <2>1. LedgerStep(e) /\ call' = call
    BY <1>1, <1>4, Finishes
  <2>2. \E res \in {None, "error", call'.result} : Return(e, res)
    BY <1>4, <2>1
  <2> QED BY <1>1, <1>2, <1>3, <2>1, <2>2, LastStep
<1>5. CASE /\ Write(e, Claimed(call, "runtime"))
           /\ Go(e, IF call.st \in UndispatchedStates THEN "claimed"
                    ELSE IF call.st = "dispatching" THEN "late" ELSE "other")
  <2> DEFINE pc == IF call.st \in UndispatchedStates THEN "claimed"
                   ELSE IF call.st = "dispatching" THEN "late" ELSE "other"
  <2>1. Claiming(call, Claimed(call, "runtime"))
    BY Untouched, Claims DEF Owners
  <2>2. LedgerStep(e) /\ call'.st = call.st
    BY <1>1, <1>5, <2>1, Finishes DEF Claiming
  <2>3. pc \in Busy /\ pc \notin Out /\ pc \notin Unsent
    BY DEF Busy, Out, Unsent
  <2>4. CopyOK(call', pc)
    BY <2>2 DEF CopyOK
  <2>5. Turns(e, pc)
    BY <1>3, <2>2, <2>3 DEF Turns
  <2>6. Go(e, pc)
    BY <1>5
  <2> HIDE DEF pc
  <2> QED BY <1>1, <1>2, <1>3, <2>2, <2>3, <2>4, <2>5, <2>6, GoStep
<1> QED BY <1>4, <1>5 DEF ExecStart, Suspension

LEMMA StepNotMine ==
    ASSUME IInv, NEW e \in Executors, ExecNotMine(e)
    PROVE  IInv' /\ Promised
<1>1. e \in Procs /\ e # Canceller /\ proc[e].pc \in {"late", "other"}
  BY Executes DEF ExecNotMine, At
<1>2. proc[e].pc \notin Accepting \cup {"idle", "closing"}
  BY <1>1 DEF Accepting
<1>3. UNCHANGED <<row, rowFresh, run, entry, told, remote, room, age, events>> /\ InboxStep
      /\ rowFresh' \in [Rows -> SUBSET Procs]
  BY Untouched DEF ExecNotMine, inbox, runVars, world
<1>4. LedgerStep(e) /\ (call'.st \in Early => call.st \in Early)
  <2>1. CASE At(e, "late") /\ e \in fresh /\ Last(Moved(call, "delivery_uncertain", TRUE))
    <3>1. call.st = "dispatching"
      BY <1>1, <2>1, Known DEF CopyOK, At
    <3>2. /\ call.st \in LiveCallStates /\ call.st \notin Closing
          /\ "delivery_uncertain" \in LiveCallStates /\ "delivery_uncertain" \notin Early
      BY <3>1 DEF LiveCallStates, UndispatchedStates, Early, Closing
    <3>3. Moving(call, Moved(call, "delivery_uncertain", TRUE), remote)
      BY <3>2, Movements, Untouched
    <3>4. call'.st = "delivery_uncertain"
      BY <2>1, Untouched DEF Last, Moved, Released, Calls
    <3> QED BY <1>1, <2>1, <3>2, <3>3, <3>4, Finishes
  <2>2. CASE Last(Released(call, FALSE))
    <3>1. Claiming(call, Released(call, FALSE))
      BY Untouched, Claims
    <3> QED BY <1>1, <2>2, <3>1, Finishes DEF Claiming
  <2>3. CASE Done(e)
    BY <1>1, <2>3, Finishes
  <2> QED BY <2>1, <2>2, <2>3 DEF ExecNotMine
<1>5. Return(e, None)
  BY DEF ExecNotMine, Suspension
<1> QED BY <1>1, <1>2, <1>3, <1>4, <1>5, LastStep

\* A step of p that leaves its place as it was.
LEMMA StayStep ==
    ASSUME IInv, NEW p \in Procs, p # Canceller, UNCHANGED proc,
           proc[p].pc \notin Accepting \cup {"idle"},
           UNCHANGED <<run, entry, told, remote, room, age>>, Event \/ UNCHANGED events,
           LedgerStep(p), InboxStep, rowFresh' \in [Rows -> SUBSET Procs],
           p \in fresh' => CopyOK(call', proc[p].pc), call'.st = call.st
    PROVE  IInv' /\ Promised
<1>1. Moves(p, proc[p].pc, proc[p].on, proc[p].res)
  BY DEF Moves, IInv, ProcsOK
<1>2. Turns(p, proc[p].pc)
  BY DEF Turns, IInv, TokenOK
<1>3. PlaceOK(call', row', entry', proc[p].pc, proc[p].on, proc[p].res)
  <2>1. CallOnward(call, call') /\ RowsOnward(row, row')
    BY DocumentsKept
  <2> QED BY <2>1, Known, PlaceKept
<1> QED BY <1>1, <1>2, <1>3, QuietStep

LEMMA StepVerdict ==
    ASSUME IInv, NEW e \in Executors, NEW o \in Rows, ExecVerdict(e, o)
    PROVE  IInv' /\ Promised
<1>1. e \in Procs /\ e # Canceller /\ proc[e].pc = "claimed" /\ o \in {"expired", "rejected"}
  BY Executes DEF ExecVerdict, At
<1>2. proc[e].pc \notin Accepting \cup {"idle", "closing"} /\ call.st # "absent"
  BY <1>1, Known DEF Accepting, PlaceOK
<1>3. /\ UNCHANGED <<call, fresh, run, entry, told, remote, room, age>>
      /\ Record(o) /\ GoOn(e, "applying", o) /\ (Event \/ UNCHANGED events)
  BY Untouched DEF ExecVerdict, ledger, runVars, world
<1> QED BY <1>1, <1>2, <1>3, RuleStep

LEMMA StepTransient ==
    ASSUME IInv, NEW e \in Executors, ExecTransient(e)
    PROVE  IInv' /\ Promised
<1>1. e \in Procs /\ e # Canceller /\ proc[e].pc = "claimed"
  BY Executes DEF ExecTransient, At
<1>2. proc[e].pc \notin Accepting \cup {"idle"}
  BY <1>1 DEF Accepting
<1>3. UNCHANGED <<row, rowFresh, run, entry, told, remote, room, age>> /\ Event /\ InboxStep
      /\ rowFresh' \in [Rows -> SUBSET Procs]
  BY Untouched DEF ExecTransient, inbox, runVars, world
<1>4. Claiming(call, Released(call, FALSE))
  BY Untouched, Claims
<1>5. LedgerStep(e) /\ call'.st = call.st
  BY <1>1, <1>4, Finishes DEF ExecTransient, Claiming
<1>6. Return(e, None)
  BY DEF ExecTransient, Suspension
<1> QED BY <1>1, <1>2, <1>3, <1>5, <1>6, LastStep

LEMMA StepReady ==
    ASSUME IInv, NEW e \in Executors, ExecReady(e)
    PROVE  IInv' /\ Promised
<1>1. e \in Procs /\ e # Canceller /\ proc[e].pc = "claimed"
  BY Executes DEF ExecReady, At
<1>2. proc[e].pc \notin Accepting \cup {"idle", "closing"}
  BY <1>1 DEF Accepting
<1>3. UNCHANGED <<row, rowFresh, run, entry, told, remote, room, age, events>> /\ InboxStep
      /\ rowFresh' \in [Rows -> SUBSET Procs]
  BY Untouched DEF ExecReady, inbox, runVars, world
<1>4. CASE e \in fresh /\ room
  <2> DEFINE d == [Claimed(call, "runtime") EXCEPT !.st = "ready_to_dispatch"]
  <2>1. call.st \in UndispatchedStates
    BY <1>1, <1>4, Known DEF CopyOK
  <2>2. /\ call.st \in LiveCallStates /\ call.st \in Early /\ call.st \notin Closing
        /\ "ready_to_dispatch" \in LiveCallStates /\ "ready_to_dispatch" \in CallStates
    BY <2>1 DEF LiveCallStates, UndispatchedStates, Early, Closing, CallStates
  <2>3. /\ d \in Calls /\ d.st = "ready_to_dispatch" /\ d.result = call.result
        /\ d.tries = call.tries
    BY <2>2, Untouched DEF Calls, Claimed, Owners, None
  <2>4. remote.got = 0 /\ call.tries < MaxTransportAttempts
    BY <2>1, <2>2, Untouched DEF RemoteOK, CallOK
  <2> HIDE DEF d
  <2>5. Moving(call, d, remote)
    BY <2>2, <2>3, <2>4 DEF Moving
  <2>6. LedgerStep(e) /\ call' = d /\ Go(e, "ready")
    BY <1>1, <1>4, <2>5, Finishes DEF ExecReady, d
  <2>7. CopyOK(call', "ready") /\ Turns(e, "ready") /\ "ready" \in Busy
    BY <1>3, <2>2, <2>3, <2>6 DEF CopyOK, Turns, Out, Unsent, Busy
  <2> QED BY <1>1, <1>2, <1>3, <2>6, <2>7, GoStep
<1>5. CASE ~(e \in fresh /\ room)
  <2>1. LedgerStep(e) /\ call' = call /\ Return(e, None)
    BY <1>1, <1>5, Finishes DEF ExecReady, Suspension
  <2> QED BY <1>1, <1>2, <1>3, <2>1, LastStep
<1> QED BY <1>4, <1>5

\* The turn to send is taken when nobody has it.
LEMMA StepDispatching ==
    ASSUME IInv, NEW e \in Executors, ExecDispatching(e)
    PROVE  IInv' /\ Promised
<1>1. e \in Procs /\ e # Canceller /\ proc[e].pc = "ready"
  BY Executes DEF ExecDispatching, At
<1>2. proc[e].pc \notin Accepting \cup {"idle", "closing"}
  BY <1>1 DEF Accepting
<1>3. UNCHANGED <<row, rowFresh, run, entry, told, remote, room, age, events>> /\ InboxStep
      /\ rowFresh' \in [Rows -> SUBSET Procs]
  BY Untouched DEF ExecDispatching, inbox, runVars, world
<1>4. CASE e \in fresh
  <2> DEFINE d == [call EXCEPT !.st = "dispatching", !.tries = @ + 1]
  <2>1. call.st = "ready_to_dispatch"
    BY <1>1, <1>4, Known DEF CopyOK
  <2>2. /\ call.st \in LiveCallStates /\ call.st \in Early /\ call.st \notin Closing
        /\ call.st \in UndispatchedStates
        /\ "dispatching" \in LiveCallStates /\ "dispatching" \in CallStates
        /\ "dispatching" \notin Early /\ "dispatching" \notin UndispatchedStates
    BY <2>1 DEF LiveCallStates, UndispatchedStates, Early, Closing, CallStates
  <2>3. remote.got = 0 /\ call.tries < MaxTransportAttempts
    BY <2>2, Untouched DEF RemoteOK, CallOK
  <2>4. call.tries + 1 \in 0 .. MaxTransportAttempts
    BY <2>3, Untouched, Bounds DEF Calls
  <2>5. d \in Calls /\ d.st = "dispatching" /\ d.result = call.result
    BY <2>2, <2>4, Untouched DEF Calls
  <2> HIDE DEF d
  <2>6. Moving(call, d, remote)
    BY <2>2, <2>5 DEF Moving
  <2>7. LedgerStep(e) /\ call' = d /\ Go(e, "dispatching")
    BY <1>1, <1>4, <2>6, Finishes DEF ExecDispatching, d
  <2>8. CopyOK(call', "dispatching") /\ "dispatching" \in Busy
    BY DEF CopyOK, Busy
  <2>9. Turns(e, "dispatching")
    BY <1>3, <2>2, <2>3, <2>5, <2>7 DEF Turns
  <2> QED BY <1>1, <1>2, <1>3, <2>7, <2>8, <2>9, GoStep
<1>5. CASE e \notin fresh
  <2>1. LedgerStep(e) /\ call' = call /\ Return(e, None)
    BY <1>1, <1>5, Finishes DEF ExecDispatching, Suspension
  <2> QED BY <1>1, <1>2, <1>3, <2>1, LastStep
<1> QED BY <1>4, <1>5

\* Who may have the turn goes on with it.
LEMMA TurnKept ==
    ASSUME IInv, NEW p \in Procs, NEW pc, proc[p].pc \in Out, remote' = remote,
           call'.st \in Early => call.st \in Early,
           pc \in Unsent => proc[p].pc \in Unsent
    PROVE  Turns(p, pc)
BY DEF IInv, TokenOK, Turns

LEMMA StepFence ==
    ASSUME IInv, NEW e \in Executors, ExecFence(e)
    PROVE  IInv' /\ Promised
<1>1. e \in Procs /\ e # Canceller /\ proc[e].pc = "dispatching"
  BY Executes DEF ExecFence, At
<1>2. /\ proc[e].pc \notin Accepting \cup {"idle", "closing"}
      /\ proc[e].pc \in Out /\ proc[e].pc \in Unsent
  BY <1>1 DEF Accepting, Out, Unsent
<1>3. UNCHANGED <<row, rowFresh, run, entry, told, remote, room, age, events>> /\ InboxStep
      /\ rowFresh' \in [Rows -> SUBSET Procs]
  BY Untouched DEF ExecFence, inbox, runVars, world
<1>4. Claiming(call, Claimed(call, "runtime"))
  BY Untouched, Claims DEF Owners
<1>5. CASE Write(e, Claimed(call, "runtime")) /\ Go(e, "sending")
  <2>1. LedgerStep(e) /\ call'.st = call.st
    BY <1>1, <1>4, <1>5, Finishes DEF Claiming
  <2>2. Turns(e, "sending")
    BY <1>1, <1>2, <1>3, <2>1, TurnKept
  <2>3. CopyOK(call', "sending") /\ "sending" \in Busy
    BY DEF CopyOK, Busy
  <2> QED BY <1>1, <1>2, <1>3, <1>5, <2>1, <2>2, <2>3, GoStep
<1>6. CASE Last(Claimed(call, "runtime")) /\ Stop(e)
  <2>1. LedgerStep(e) /\ call'.st = call.st
    BY <1>1, <1>4, <1>6, Finishes DEF Claiming
  <2> QED BY <1>1, <1>2, <1>3, <1>6, <2>1, LastStep
<1>7. CASE Suspension(e) /\ Done(e)
  <2>1. LedgerStep(e) /\ call' = call /\ Return(e, None)
    BY <1>1, <1>7, Finishes DEF Suspension
  <2> QED BY <1>1, <1>2, <1>3, <2>1, LastStep
<1> QED BY <1>5, <1>6, <1>7 DEF ExecFence

\* The message leaves: whoever has the turn and has not sent is the first.
LEMMA StepDeliver ==
    ASSUME IInv, NEW e \in Executors, Deliver(e)
    PROVE  IInv' /\ Promised
<1>1. e \in Procs /\ e # Canceller /\ proc[e].pc = "sending" /\ Go(e, "streaming")
  BY Executes DEF Deliver, At
<1>2. /\ proc[e].pc \notin Accepting \cup {"idle", "closing"} /\ "streaming" \notin Accepting
      /\ proc[e].pc \in Out /\ proc[e].pc \in Unsent /\ "streaming" \notin Unsent
      /\ "streaming" \in Pcs
  BY <1>1 DEF Accepting, Out, Unsent, Pcs
<1>3. UNCHANGED <<call, fresh, row, rowFresh, run, entry, told, room, age, events>>
  BY DEF Deliver, ledger, inbox, runVars
<1>4. call.st \notin Early /\ remote.got = 0
  BY <1>1, <1>2 DEF IInv, TokenOK
<1>5. remote' \in [got : 0 .. 2, done : BOOLEAN] /\ remote'.got = 1 /\ remote'.done = remote.done
  <2>1. remote \in [got : 0 .. 2, done : BOOLEAN]
    BY Untouched DEF RemoteOK
  <2>2. remote' = [remote EXCEPT !.got = 1]
    BY <1>4, <2>1 DEF Deliver
  <2> QED BY <2>1, <2>2
<1>6. StoreOK(call', row', run', entry', told', remote', room')
  <2>1. RemoteOK(call, remote')
    BY <1>4, <1>5 DEF RemoteOK
  <2>2. RowsOK(call, row, remote')
    BY <1>5 DEF IInv, StoreOK, RowsOK
  <2> QED BY <1>3, <2>1, <2>2 DEF IInv, StoreOK
<1>7. CallOnward(call, call') /\ RowsOnward(row, row') /\ Single
  BY <1>3, <1>5 DEF CallOnward, RowsOnward, Single
<1>8. Copies(e, "streaming") /\ Turns(e, "streaming")
  BY <1>2, <1>3, <1>4, <1>5 DEF Copies, Turns, CopyOK, IInv, ProcsOK
<1>9. Moves(e, "streaming", proc[e].on, proc[e].res)
  BY <1>1, <1>2, GoMoves
<1>10. PlaceOK(call', row', entry', "streaming", proc[e].on, proc[e].res)
  BY <1>1, <1>3, Known DEF PlaceOK, Ruling, Reading
<1>11. /\ KernelOK(call', entry', Place(Kernel, e, "streaming"))
       /\ ClosedOK(call', run', entry', told', Place(Kernel, e, "streaming"),
                   Place(Canceller, e, "streaming"))
  BY <1>1, <1>2, <1>3, <1>7, RolesKept
<1>12. CountersOK' /\ rowFresh' \in [Rows -> SUBSET Procs]
  BY <1>3 DEF IInv, CountersOK, ProcsOK
<1> QED BY <1>1, <1>6, <1>7, <1>8, <1>9, <1>10, <1>11, <1>12, ProcessStep

LEMMA StepSendFails ==
    ASSUME IInv, NEW e \in Executors, SendFails(e)
    PROVE  IInv' /\ Promised
<1>1. PICK pc \in {"retrying", "contract", "ambiguous"} :
        Go(e, pc) /\ (proc[e].pc = "sending" \/ (proc[e].pc = "streaming" /\ pc = "ambiguous"))
  BY DEF SendFails, At
<1>2. e \in Procs /\ e # Canceller
  BY Executes
<1>3. /\ proc[e].pc \notin Accepting \cup {"idle", "closing"} /\ proc[e].pc \in Out
      /\ pc \in Unsent => proc[e].pc \in Unsent
      /\ pc \in Busy
  BY <1>1 DEF Accepting, Out, Unsent, Busy
<1>4. /\ UNCHANGED <<call, fresh, row, rowFresh, run, entry, told, remote, room, age>>
      /\ Event /\ InboxStep /\ rowFresh' \in [Rows -> SUBSET Procs]
  BY Untouched DEF SendFails, inbox, runVars, world, ledger
<1>5. Turns(e, pc) /\ CopyOK(call', pc) /\ LedgerStep(e)
  BY <1>2, <1>3, <1>4, TurnKept DEF CopyOK, LedgerStep
<1> QED BY <1>1, <1>2, <1>3, <1>4, <1>5, GoStep

LEMMA StepHeartbeat ==
    ASSUME IInv, NEW e \in Executors, Heartbeat(e)
    PROVE  IInv' /\ Promised
<1>1. e \in Procs /\ e # Canceller /\ proc[e].pc \in {"sending", "streaming"}
  BY Executes DEF Heartbeat, At
<1>2. proc[e].pc \notin Accepting \cup {"idle"} /\ UNCHANGED proc
  BY <1>1 DEF Accepting, Heartbeat
<1>3. UNCHANGED <<row, rowFresh, run, entry, told, remote, room, age, events>> /\ InboxStep
      /\ rowFresh' \in [Rows -> SUBSET Procs]
  BY Untouched DEF Heartbeat, inbox, runVars, world
<1>4. Claiming(call, [call EXCEPT !.lease = TRUE])
  BY Untouched, Claims
<1>5. LedgerStep(e) /\ call'.st = call.st
  BY <1>1, <1>4, Finishes DEF Heartbeat, Claiming
<1>6. CopyOK(call', proc[e].pc)
  BY <1>1 DEF CopyOK
<1> QED BY <1>1, <1>2, <1>3, <1>5, <1>6, StayStep

LEMMA StepAborted ==
    ASSUME IInv, NEW e \in Executors, DispatchAborted(e)
    PROVE  IInv' /\ Promised
<1>1. e \in Procs /\ e # Canceller /\ proc[e].pc \in {"sending", "streaming"}
  BY Executes DEF DispatchAborted, At
<1>2. /\ proc[e].pc \notin Accepting \cup {"idle", "closing"} /\ proc[e].pc \in Out
      /\ "ambiguous" \in Busy /\ "ambiguous" \notin Unsent
  BY <1>1 DEF Accepting, Out, Busy, Unsent
<1>3. UNCHANGED <<row, rowFresh, run, entry, told, remote, room, age, events>> /\ InboxStep
      /\ rowFresh' \in [Rows -> SUBSET Procs]
  BY Untouched DEF DispatchAborted, inbox, runVars, world
<1>4. CASE Go(e, "ambiguous") /\ UNCHANGED ledger
  <2>1. call' = call /\ fresh' = fresh
    BY <1>4, Untouched
  <2>2. Turns(e, "ambiguous") /\ CopyOK(call', "ambiguous") /\ LedgerStep(e)
    BY <1>1, <1>2, <1>3, <2>1, TurnKept DEF CopyOK, LedgerStep
  <2> QED BY <1>1, <1>2, <1>3, <1>4, <2>2, GoStep
<1>5. CASE Stop(e) /\ Done(e)
  <2>1. LedgerStep(e) /\ call' = call
    BY <1>1, <1>5, Finishes
  <2> QED BY <1>1, <1>2, <1>3, <1>5, <2>1, LastStep
<1> QED BY <1>4, <1>5 DEF DispatchAborted

LEMMA StepStreamWorking ==
    ASSUME IInv, NEW e \in Executors, StreamWorking(e)
    PROVE  IInv' /\ Promised
<1>1. e \in Procs /\ e # Canceller /\ proc[e].pc = "streaming" /\ Record("working")
  BY Executes DEF StreamWorking, At
<1>2. proc[e].pc \notin Accepting \cup {"idle"} /\ UNCHANGED proc /\ "working" \in Rows
  BY <1>1 DEF Accepting, StreamWorking, Rows
<1>3. UNCHANGED <<call, fresh, run, entry, told, remote, room, age>> /\ Event
  BY Untouched DEF StreamWorking, ledger, runVars, world
<1>4. call.st # "absent"
  BY <1>1, Known DEF PlaceOK
<1>5. InboxStep /\ rowFresh' \in [Rows -> SUBSET Procs]
  <2>1. InboxStep /\ rowFresh' = rowFresh
    BY <1>1, <1>2, <1>3, <1>4, Records
  <2> QED BY <2>1 DEF IInv, ProcsOK
<1>6. LedgerStep(e) /\ CopyOK(call', proc[e].pc)
  BY <1>1, <1>3 DEF LedgerStep, CopyOK
<1> QED BY <1>1, <1>2, <1>3, <1>5, <1>6, StayStep

LEMMA StepReceiptTerminal ==
    ASSUME IInv, NEW e \in Executors, ReceiptTerminal(e)
    PROVE  IInv' /\ Promised
<1>1. /\ e \in Procs /\ e # Canceller /\ proc[e].pc = "streaming"
      /\ remote.done /\ Record("answer") /\ GoOn(e, "applying", "answer")
  BY Executes DEF ReceiptTerminal, At
<1>2. proc[e].pc \notin Accepting \cup {"idle"} /\ "answer" \in Rows /\ call.st # "absent"
  BY <1>1, Known DEF Accepting, Rows, PlaceOK
<1>3. UNCHANGED <<call, fresh, run, entry, told, remote, room, age, events>>
  BY Untouched DEF ReceiptTerminal, ledger, runVars, world
<1> QED BY <1>1, <1>2, <1>3, RuleStep

\* A receipt, or the lack of one, moves the call and ends the execution.
LEMMA Receipt ==
    ASSUME IInv, NEW e \in Procs, e # Canceller, proc[e].pc \notin Accepting \cup {"idle"},
           UNCHANGED <<row, rowFresh, run, entry, told, remote, room, age>>,
           Event \/ UNCHANGED events,
           NEW st \in {"working", "delivery_uncertain"},
           \/ Done(e) /\ \E res \in {None, "error"} : Return(e, res)
           \/ /\ Legal(call, st) /\ Suspension(e)
              /\ \E due \in BOOLEAN : \/ Last(Moved(call, st, due))
                                      \/ Last([Moved(call, st, due) EXCEPT !.task = TRUE])
    PROVE  IInv' /\ Promised
<1>1. InboxStep /\ rowFresh' \in [Rows -> SUBSET Procs]
  BY DEF InboxStep, IInv, ProcsOK
<1>2. CASE Done(e) /\ \E res \in {None, "error"} : Return(e, res)
  <2>1. LedgerStep(e) /\ call' = call
    BY <1>2, Finishes
  <2> QED BY <1>1, <1>2, <2>1, LastStep
<1>3. CASE /\ Legal(call, st) /\ Suspension(e)
           /\ \E due \in BOOLEAN : \/ Last(Moved(call, st, due))
                                   \/ Last([Moved(call, st, due) EXCEPT !.task = TRUE])
  <2>1. PICK due \in BOOLEAN : \/ Last(Moved(call, st, due))
                               \/ Last([Moved(call, st, due) EXCEPT !.task = TRUE])
    BY <1>3
  <2>2. call.st \in LiveCallStates /\ call.st \notin Closing
    BY <1>3, Table
  <2>3. st \in LiveCallStates /\ st \notin Early
    BY DEF LiveCallStates, Early, UndispatchedStates
  <2>4. /\ Moving(call, Moved(call, st, due), remote)
        /\ Moving(call, [Moved(call, st, due) EXCEPT !.task = TRUE], remote)
    BY <2>2, <2>3, Movements, Untouched
  <2>5. LedgerStep(e)
    BY <2>1, <2>4, Finishes
  <2>6. call'.st = st
    BY <2>1, Untouched DEF Last, Moved, Released, Calls
  <2>7. Return(e, None)
    BY <1>3 DEF Suspension
  <2> QED BY <1>1, <2>3, <2>5, <2>6, <2>7, LastStep
<1> QED BY <1>2, <1>3

LEMMA StepReceipts ==
    ASSUME IInv, NEW e \in Executors, ReceiptAccepted(e) \/ ReceiptUncertain(e) \/ Ambiguous(e)
    PROVE  IInv' /\ Promised
<1>1. e \in Procs /\ e # Canceller /\ proc[e].pc \in {"streaming", "ambiguous"}
  BY Executes DEF ReceiptAccepted, ReceiptUncertain, Ambiguous, At
<1>2. proc[e].pc \notin Accepting \cup {"idle"}
  BY <1>1 DEF Accepting
<1>3. /\ UNCHANGED <<row, rowFresh, run, entry, told, remote, room, age>>
      /\ Event \/ UNCHANGED events
  BY Untouched DEF ReceiptAccepted, ReceiptUncertain, Ambiguous, inbox, runVars, world
<1>4. CASE ReceiptAccepted(e)
  <2>1. \/ Done(e) /\ \E res \in {None, "error"} : Return(e, res)
        \/ /\ Legal(call, "working") /\ Suspension(e)
           /\ \E due \in BOOLEAN : \/ Last(Moved(call, "working", due))
                                   \/ Last([Moved(call, "working", due) EXCEPT !.task = TRUE])
    BY <1>4 DEF ReceiptAccepted, Suspension
  <2> QED BY <1>1, <1>2, <1>3, <2>1, Receipt
<1>5. CASE ReceiptUncertain(e) \/ Ambiguous(e)
  <2> DEFINE st == "delivery_uncertain"
  <2>1. \/ Done(e) /\ \E res \in {None, "error"} : Return(e, res)
        \/ /\ Legal(call, st) /\ Suspension(e)
           /\ \E due \in BOOLEAN : \/ Last(Moved(call, st, due))
                                   \/ Last([Moved(call, st, due) EXCEPT !.task = TRUE])
    BY <1>5 DEF ReceiptUncertain, Ambiguous, Suspension
  <2> QED BY <1>1, <1>2, <1>3, <2>1, Receipt
<1> QED BY <1>4, <1>5

LEMMA StepRejected ==
    ASSUME IInv, NEW e \in Executors, ReceiptRejected(e)
    PROVE  IInv' /\ Promised
<1>1. e \in Procs /\ e # Canceller /\ proc[e].pc = "streaming"
  BY Executes DEF ReceiptRejected, At
<1>2. proc[e].pc \notin Accepting \cup {"idle"} /\ "rejected" \in Rows /\ call.st # "absent"
  BY <1>1, Known DEF Accepting, Rows, PlaceOK
<1>3. UNCHANGED <<run, entry, told, remote, room, age>> /\ Event
  BY Untouched DEF ReceiptRejected, runVars, world
<1>4. CASE Record("rejected") /\ GoOn(e, "applying", "rejected") /\ UNCHANGED ledger
  <2>1. call' = call /\ fresh' = fresh
    BY <1>4, Untouched
  <2> QED BY <1>1, <1>2, <1>3, <1>4, <2>1, RuleStep
<1>5. CASE Suspension(e) /\ Done(e) /\ UNCHANGED inbox
  <2>1. LedgerStep(e) /\ call' = call /\ Return(e, None)
    BY <1>1, <1>5, Finishes DEF Suspension
  <2>2. InboxStep /\ rowFresh' \in [Rows -> SUBSET Procs]
    BY <1>5, Untouched
  <2> QED BY <1>1, <1>2, <1>3, <2>1, <2>2, LastStep
<1> QED BY <1>4, <1>5 DEF ReceiptRejected

\* The turn is given back: the message did not leave, and nobody else has it.
LEMMA StepRetry ==
    ASSUME IInv, NEW e \in Executors, Retry(e)
    PROVE  IInv' /\ Promised
<1>1. e \in Procs /\ e # Canceller /\ proc[e].pc = "retrying"
  BY Executes DEF Retry, At
<1>2. /\ proc[e].pc \notin Accepting \cup {"idle"}
      /\ proc[e].pc \in Out /\ proc[e].pc \in Unsent
  BY <1>1 DEF Accepting, Out, Unsent
<1>3. UNCHANGED <<row, rowFresh, run, entry, told, remote, room, age, events>> /\ InboxStep
      /\ rowFresh' \in [Rows -> SUBSET Procs]
  BY Untouched DEF Retry, inbox, runVars, world
<1>4. CASE Done(e) /\ \E res \in {None, "error"} : Return(e, res)
  <2>1. LedgerStep(e) /\ call' = call
    BY <1>1, <1>4, Finishes
  <2> QED BY <1>1, <1>2, <1>3, <1>4, <2>1, LastStep
<1>5. CASE /\ StillOwner /\ Legal(call, "ready_to_dispatch") /\ Suspension(e)
           /\ Last(Moved(call, "ready_to_dispatch", FALSE))
  <2> DEFINE d == Moved(call, "ready_to_dispatch", FALSE)
  <2>1. call.st \in LiveCallStates /\ call.st \notin Closing
    BY <1>5, Table
  <2>2. "ready_to_dispatch" \in LiveCallStates /\ "ready_to_dispatch" \in CallStates
    BY DEF LiveCallStates, UndispatchedStates, CallStates
  <2>3. remote.got = 0
    BY <1>1, <1>2 DEF IInv, TokenOK
  <2>4. call.tries < MaxTransportAttempts
    <3>1. ~Exhausted(call)
      BY <1>5 DEF Retry
    <3> QED BY <3>1, Untouched, Bounds DEF Exhausted, Calls
  <2>5. d \in Calls /\ d.st = "ready_to_dispatch" /\ d.result = call.result /\ d.tries = call.tries
    BY <2>2, Untouched DEF Calls, Moved, Released, Owners, None
  <2> HIDE DEF d
  <2>6. Moving(call, d, remote)
    BY <2>1, <2>2, <2>3, <2>4, <2>5 DEF Moving
  <2>7. LedgerStep(e) /\ Return(e, None)
    BY <1>1, <1>5, <2>6, Finishes DEF d, Suspension
  <2> QED BY <1>1, <1>2, <1>3, <2>7, LastStep
<1> QED BY <1>4, <1>5 DEF Retry, Suspension

LEMMA StepDispatchFailed ==
    ASSUME IInv, NEW e \in Executors, DispatchFailed(e)
    PROVE  IInv' /\ Promised
<1>1. e \in Procs /\ e # Canceller /\ proc[e].pc \in {"contract", "retrying"}
  BY Executes DEF DispatchFailed, At
<1>2. proc[e].pc \notin Accepting \cup {"idle"} /\ "failed" \in Rows /\ call.st # "absent"
  BY <1>1, Known DEF Accepting, Rows, PlaceOK
<1>3. UNCHANGED <<run, entry, told, remote, room, age, events>>
  BY Untouched DEF DispatchFailed, runVars, world
<1>4. CASE /\ Write(e, Claimed(call, "runtime"))
           /\ Record("failed") /\ GoOn(e, "applying", "failed")
  <2>1. Claiming(call, Claimed(call, "runtime"))
    BY Untouched, Claims DEF Owners
  <2>2. Claiming(call, call') /\ fresh' \subseteq {e}
    BY <1>4, <2>1 DEF Write
  <2> QED BY <1>1, <1>2, <1>3, <1>4, <2>2, RuleStep
<1>5. CASE Suspension(e) /\ Done(e) /\ UNCHANGED inbox
  <2>1. LedgerStep(e) /\ call' = call /\ Return(e, None)
    BY <1>1, <1>5, Finishes DEF Suspension
  <2>2. InboxStep /\ rowFresh' \in [Rows -> SUBSET Procs]
    BY <1>5, Untouched
  <2> QED BY <1>1, <1>2, <1>3, <2>1, <2>2, LastStep
<1> QED BY <1>4, <1>5 DEF DispatchFailed

\* The verdict, whose evidence is in the inbox.
LEMMA StepApply ==
    ASSUME IInv, NEW e \in Executors, ApplyVerdict(e)
    PROVE  IInv' /\ Promised
<1> DEFINE o == proc[e].on
<1>1. e \in Procs /\ e # Canceller /\ proc[e].pc = "applying"
  BY Executes DEF ApplyVerdict, At
<1>2. /\ proc[e].pc \notin Accepting \cup {"idle"}
      /\ o \in Rows /\ o # "working" /\ row[o].st # "absent" /\ call.st # "absent"
  BY <1>1, Known DEF Accepting, PlaceOK, Ruling
<1>3. UNCHANGED <<row, rowFresh, run, entry, told, remote, room, age, events>> /\ InboxStep
      /\ rowFresh' \in [Rows -> SUBSET Procs]
  BY Untouched DEF ApplyVerdict, inbox, runVars, world
<1>4. CASE Legal(call, Outcome(o)) /\ Last(Ended(call, o)) /\ Go(e, "marking")
  <2>1. Ending(call, Ended(call, o), row)
    BY <1>2, <1>4, Ends, Untouched
  <2>2. LedgerStep(e) /\ call'.st \in TerminalCallStates /\ fresh' = {}
    BY <1>1, <1>4, <2>1, Finishes DEF Ending, Last
  <2>3. call'.st \notin Early /\ "marking" \notin Out /\ "marking" \notin Unsent
        /\ "marking" \notin Accepting /\ "marking" \in Pcs
    BY <2>2, States DEF Out, Unsent, Accepting, Pcs
  <2>4. PlaceOK(call', row', entry', "marking", o, proc[e].res)
    BY <1>2, <1>3, <2>2, <2>3 DEF PlaceOK, Early
  <2>5. Turns(e, "marking")
    BY <1>3, <2>3 DEF Turns
  <2>6. Moves(e, "marking", o, proc[e].res)
    BY <1>1, <1>4, <2>3, GoMoves
  <2>7. e \in fresh' => CopyOK(call', "marking")
    BY <2>2
  <2> HIDE DEF o
  <2> QED BY <1>1, <1>2, <1>3, <2>2, <2>3, <2>4, <2>5, <2>6, <2>7, QuietStep
<1>5. CASE Done(e) /\ \E res \in {None, "error", call.result} : Return(e, res)
  <2>1. LedgerStep(e) /\ call' = call
    BY <1>1, <1>5, Finishes
  <2> QED BY <1>1, <1>2, <1>3, <1>5, <2>1, LastStep
<1> QED BY <1>4, <1>5 DEF ApplyVerdict, PersistedOutcome, Suspension

LEMMA StepMarkLoad ==
    ASSUME IInv, NEW e \in Executors, MarkLoad(e)
    PROVE  IInv' /\ Promised
<1> DEFINE o == proc[e].on
<1>1. e \in Procs /\ e # Canceller /\ proc[e].pc = "marking"
  BY Executes DEF MarkLoad, At
<1>2. /\ proc[e].pc \notin Accepting \cup {"idle"} /\ o \in Rows
      /\ PlaceOK(call, row, entry, "marking", o, proc[e].res)
  BY <1>1, Known DEF Accepting
<1>3. UNCHANGED <<call, fresh, row, run, entry, told, remote, room, age, events>> /\ InboxStep
  BY Untouched DEF MarkLoad, ledger, runVars, world, InboxStep
<1>4. rowFresh \in [Rows -> SUBSET Procs] /\ LedgerStep(e)
  BY <1>3 DEF IInv, ProcsOK, LedgerStep
<1>5. CASE Return(e, "error") /\ UNCHANGED rowFresh
  BY <1>1, <1>2, <1>3, <1>4, <1>5, LastStep
<1>6. CASE Go(e, "marked") /\ rowFresh' = [rowFresh EXCEPT ![o] = @ \cup {e}]
  <2>1. rowFresh' \in [Rows -> SUBSET Procs]
    BY <1>1, <1>4, <1>6
  <2>2. /\ "marked" \notin Out /\ "marked" \notin Unsent /\ "marked" \notin Accepting
        /\ "marked" \in Pcs
    BY DEF Out, Unsent, Accepting, Pcs
  <2>3. PlaceOK(call', row', entry', "marked", o, proc[e].res)
    BY <1>2, <1>3 DEF PlaceOK, Ruling, Reading
  <2>4. Turns(e, "marked") /\ CopyOK(call', "marked")
    BY <1>3, <2>2 DEF Turns, CopyOK
  <2>5. Moves(e, "marked", o, proc[e].res)
    BY <1>1, <1>6, <2>2, GoMoves
  <2> HIDE DEF o
  <2> QED BY <1>1, <1>2, <1>3, <1>4, <2>1, <2>2, <2>3, <2>4, <2>5, QuietStep
<1> QED BY <1>5, <1>6 DEF MarkLoad

LEMMA StepMarkWrite ==
    ASSUME IInv, NEW e \in Executors, MarkWrite(e)
    PROVE  IInv' /\ Promised
<1> DEFINE o == proc[e].on
<1>1. e \in Procs /\ e # Canceller /\ proc[e].pc = "marked"
  BY Executes DEF MarkWrite, At
<1>2. /\ proc[e].pc \notin Accepting \cup {"idle"} /\ o \in Rows
      /\ row[o].st # "absent" /\ call.st \in TerminalCallStates /\ call.st # "absent"
  BY <1>1, Known DEF Accepting, PlaceOK, Ruling
<1>3. UNCHANGED <<call, fresh, run, entry, told, remote, room, age, events>>
  BY Untouched DEF MarkWrite, ledger, runVars, world
<1>4. /\ rowFresh \in [Rows -> SUBSET Procs] /\ LedgerStep(e)
      /\ row \in [Rows -> InboxRows] /\ row[o] \in InboxRows
  BY <1>2, <1>3, Known DEF IInv, ProcsOK, LedgerStep, StoreOK, RowsOK
<1>5. CASE Return(e, "error") /\ UNCHANGED inbox
  <2>1. InboxStep /\ rowFresh' \in [Rows -> SUBSET Procs]
    BY <1>5, Untouched
  <2> QED BY <1>1, <1>2, <1>3, <1>4, <1>5, <2>1, LastStep
<1>6. CASE /\ row' = [row EXCEPT ![o].st = "outcome_pending", ![o].route = "executor",
                                 ![o].digest = TRUE]
           /\ rowFresh' = [rowFresh EXCEPT ![o] = {}]
           /\ Return(e, call.result)
  <2> DEFINE r == [row[o] EXCEPT !.st = "outcome_pending", !.route = "executor", !.digest = TRUE]
  <2>1. row' = [row EXCEPT ![o] = r]
    BY <1>4, <1>6
  <2>2. r \in InboxRows /\ r.st = "outcome_pending"
    BY <1>4 DEF InboxRows, RowStates, Routes
  <2> HIDE DEF r
  <2>3. RowWritten(call', row, run, entry, remote, room, o, r)
    BY <1>2, <1>3, <2>2 DEF RowWritten
  <2>4. InboxStep
    BY <1>2, <2>1, <2>2, <2>3 DEF InboxStep
  <2>5. rowFresh' \in [Rows -> SUBSET Procs]
    BY <1>4, <1>6
  <2> QED BY <1>1, <1>2, <1>3, <1>4, <1>6, <2>4, <2>5, LastStep
<1> QED BY <1>5, <1>6 DEF MarkWrite

LEMMA StepExec ==
    ASSUME IInv, NEW e \in Executors, ExecStep(e)
    PROVE  IInv' /\ Promised
BY StepExecStart, StepNotMine, StepVerdict, StepTransient, StepReady, StepDispatching, StepFence,
   StepDeliver, StepSendFails, StepHeartbeat, StepAborted, StepStreamWorking,
   StepReceiptTerminal, StepReceipts, StepRejected, StepRetry, StepDispatchFailed, StepApply,
   StepMarkLoad, StepMarkWrite DEF ExecStep
-----------------------------------------------------------------------------
(* Call recovery                                                           *)

LEMMA StepRecClaim ==
    ASSUME IInv, NEW r \in Recoverers, RecClaim(r)
    PROVE  IInv' /\ Promised
<1>1. r \in Procs /\ r # Canceller /\ r # Kernel /\ proc[r].pc = "idle"
  BY Recovers DEF RecClaim, At
<1>2. /\ proc[r].pc \notin Accepting /\ "expired" \in Rows
      /\ call.st \in LiveCallStates /\ call.st # "absent"
  BY <1>1, States DEF Accepting, Rows, RecClaim, Claimable, Live
<1>3. UNCHANGED <<run, entry, told, remote, room, age, events>>
  BY Untouched DEF RecClaim, runVars, world
<1>4. Claiming(call, call') /\ fresh' = {r}
  <2>1. Claiming(call, Claimed(call, "recovery"))
    BY Untouched, Claims DEF Owners
  <2> QED BY <2>1 DEF RecClaim, Write
<1>5. CASE Record("expired") /\ GoOn(r, "expiring", "expired")
  BY <1>1, <1>2, <1>3, <1>4, <1>5, RuleStep
<1>6. CASE Go(r, "recovering") /\ UNCHANGED inbox
  <2>1. InboxStep /\ rowFresh' \in [Rows -> SUBSET Procs]
    BY <1>6, Untouched
  <2>2. LedgerStep(r) /\ call'.st # "absent" /\ call'.st = call.st
    BY <1>2, <1>4 DEF LedgerStep, Claiming
  <2>3. /\ "recovering" \notin Out /\ "recovering" \notin Unsent /\ "recovering" \in Pcs
    BY DEF Out, Unsent, Pcs
  <2>4. Turns(r, "recovering") /\ CopyOK(call', "recovering")
    BY <1>3, <2>2, <2>3 DEF Turns, CopyOK
  <2>5. PlaceOK(call', row', entry', "recovering", proc[r].on, proc[r].res)
    BY <2>2 DEF PlaceOK, Ruling, Reading
  <2>6. Moves(r, "recovering", proc[r].on, proc[r].res)
    BY <1>1, <1>6, <2>3, GoMoves
  <2> QED BY <1>1, <1>3, <2>1, <2>2, <2>4, <2>5, <2>6, QuietStep
<1> QED BY <1>5, <1>6 DEF RecClaim

\* A recovery pass ends with a claim given up or postponed, or with nothing.
LEMMA Passed ==
    ASSUME IInv, NEW r \in Recoverers, proc[r].pc \in {"recovering", "inspecting", "starting"},
           UNCHANGED <<row, rowFresh, run, entry, told, remote, room, age>>,
           Event \/ UNCHANGED events, Stop(r),
           \/ call' = call /\ fresh' = fresh
           \/ \E d : Last(d) /\ Claiming(call, d)
           \/ \E st \in LiveCallStates \ Early, due \in BOOLEAN :
                 /\ call.st \in LiveCallStates \ Closing
                 /\ Last(Moved(call, st, due))
    PROVE  IInv' /\ Promised
<1>1. r \in Procs /\ r # Canceller /\ proc[r].pc \notin Accepting \cup {"idle"}
  BY Recovers DEF Accepting
<1>2. InboxStep /\ rowFresh' \in [Rows -> SUBSET Procs]
  BY DEF InboxStep, IInv, ProcsOK
<1>3. LedgerStep(r) /\ (call'.st \in Early => call.st \in Early)
  <2>1. CASE call' = call /\ fresh' = fresh
    BY <2>1 DEF LedgerStep
  <2>2. ASSUME NEW d, Last(d), Claiming(call, d)
        PROVE  LedgerStep(r) /\ call'.st = call.st
    BY <1>1, <2>2, Finishes DEF Claiming
  <2>3. ASSUME NEW st \in LiveCallStates \ Early, NEW due \in BOOLEAN,
               call.st \in LiveCallStates \ Closing, Last(Moved(call, st, due))
        PROVE  LedgerStep(r) /\ call'.st = st
    <3>1. Moving(call, Moved(call, st, due), remote)
      BY <2>3, Movements, Untouched
    <3>2. call'.st = st
      BY <2>3, Untouched DEF Last, Moved, Released, Calls
    <3> QED BY <1>1, <2>3, <3>1, <3>2, Finishes
  <2> QED BY <2>1, <2>2, <2>3
<1> QED BY <1>1, <1>2, <1>3, LastStep

LEMMA StepRecPasses ==
    ASSUME IInv, NEW r \in Recoverers,
           RecLost(r) \/ RecReschedule(r) \/ RecUncertain(r) \/ InspectWorking(r)
    PROVE  IInv' /\ Promised
<1>1. /\ proc[r].pc \in {"recovering", "inspecting", "starting"} /\ Stop(r)
      /\ UNCHANGED <<row, rowFresh, run, entry, told, remote, room, age>>
      /\ Event \/ UNCHANGED events
  BY Untouched DEF RecLost, RecReschedule, RecUncertain, InspectWorking, At, inbox, runVars, world
<1>2. {"delivery_uncertain", "working"} \subseteq LiveCallStates \ Early
  BY DEF LiveCallStates, Early, UndispatchedStates
<1>3. CASE RecLost(r)
  BY <1>1, <1>3, Untouched, Passed DEF RecLost
<1>4. CASE RecReschedule(r)
  <2>1. Claiming(call, [call EXCEPT !.due = FALSE])
    BY Untouched, Claims
  <2>2. Last([call EXCEPT !.due = FALSE]) \/ (call' = call /\ fresh' = fresh)
    BY <1>4, Untouched DEF RecReschedule
  <2> QED BY <1>1, <2>1, <2>2, Passed
<1>5. CASE RecUncertain(r)
  <2>1. call.st \in LiveCallStates \ Closing
    BY <1>5 DEF RecUncertain, LiveCallStates, Closing
  <2>2. Last(Moved(call, "delivery_uncertain", TRUE))
    BY <1>5 DEF RecUncertain
  <2> QED BY <1>1, <1>2, <2>1, <2>2, Passed
<1>6. CASE InspectWorking(r)
  <2>1. call.st \in {"delivery_uncertain", "working"}
    BY <1>6, Recovers, Known DEF InspectWorking, At, CopyOK
  <2>2. call.st \in LiveCallStates \ Closing
    BY <2>1 DEF LiveCallStates, Closing
  <2>3. Last(Moved(call, "working", FALSE))
    BY <1>6 DEF InspectWorking
  <2> QED BY <1>1, <1>2, <2>2, <2>3, Passed
<1> QED BY <1>3, <1>4, <1>5, <1>6

LEMMA StepRecOrphan ==
    ASSUME IInv, NEW r \in Recoverers, RecOrphan(r)
    PROVE  IInv' /\ Promised
<1>1. r \in Procs /\ r # Canceller /\ r # Kernel /\ proc[r].pc = "recovering"
  BY Recovers DEF RecOrphan, At
<1>2. proc[r].pc \notin Accepting /\ "expired" \in Rows /\ call.st # "absent"
  BY <1>1, Known DEF Accepting, Rows, PlaceOK
<1>3. UNCHANGED <<run, entry, told, remote, room, age, events>>
  BY Untouched DEF RecOrphan, runVars, world
<1>4. Claiming(call, Claimed(call, "recovery")) /\ Claiming(call, Released(call, FALSE))
  BY Untouched, Claims DEF Owners
<1>5. CASE /\ Write(r, Claimed(call, "recovery"))
           /\ Record("expired") /\ GoOn(r, "expiring", "expired")
  <2>1. Claiming(call, call') /\ fresh' = {r}
    BY <1>4, <1>5 DEF Write
  <2> QED BY <1>1, <1>2, <1>3, <1>5, <2>1, RuleStep
<1>6. CASE Last(Released(call, FALSE)) /\ Stop(r) /\ UNCHANGED inbox
  BY <1>1, <1>3, <1>4, <1>6, Untouched, Passed DEF inbox
<1> QED BY <1>5, <1>6 DEF RecOrphan

LEMMA StepRecGoes ==
    ASSUME IInv, NEW r \in Recoverers, RecDispatch(r) \/ RecInspect(r)
    PROVE  IInv' /\ Promised
<1>1. r \in Procs /\ r # Canceller /\ proc[r].pc = "recovering"
  BY Recovers DEF RecDispatch, RecInspect, At
<1>2. proc[r].pc \notin Accepting \cup {"idle", "closing"}
  BY <1>1 DEF Accepting
<1>3. UNCHANGED <<row, rowFresh, run, entry, told, remote, room, age, events>> /\ InboxStep
      /\ rowFresh' \in [Rows -> SUBSET Procs]
  BY Untouched DEF RecDispatch, RecInspect, inbox, runVars, world
<1>4. Claiming(call, Claimed(call, "recovery")) /\ Claiming(call, Released(call, TRUE))
  BY Untouched, Claims DEF Owners
<1>5. CASE Last(Released(call, TRUE)) /\ Stop(r)
  BY <1>1, <1>3, <1>4, <1>5, Passed
<1>6. ASSUME NEW pc \in {"starting", "inspecting"}, NEW d, Claiming(call, d),
             Write(r, d), Go(r, pc),
             pc = "inspecting" => call.st \in {"delivery_uncertain", "working"}
      PROVE  IInv' /\ Promised
  <2>1. LedgerStep(r) /\ call'.st = call.st
    BY <1>1, <1>6, Finishes DEF Claiming
  <2>2. pc \in Busy /\ pc \notin Out /\ pc \notin Unsent
    BY DEF Busy, Out, Unsent
  <2>3. Turns(r, pc) /\ CopyOK(call', pc)
    BY <1>3, <1>6, <2>1, <2>2 DEF Turns, CopyOK
  <2> QED BY <1>1, <1>2, <1>3, <1>6, <2>1, <2>2, <2>3, GoStep
<1> QED BY <1>4, <1>5, <1>6 DEF RecDispatch, RecInspect

LEMMA StepInspect ==
    ASSUME IInv, NEW r \in Recoverers,
           InspectTerminal(r) \/ InspectNothing(r) \/ InspectContract(r)
    PROVE  IInv' /\ Promised
<1>1. r \in Procs /\ r # Canceller /\ r # Kernel /\ proc[r].pc = "inspecting"
  BY Recovers DEF InspectTerminal, InspectNothing, InspectContract, At
<1>2. /\ proc[r].pc \notin Accepting /\ "expired" \in Rows /\ "polled" \in Rows
      /\ call.st # "absent"
  BY <1>1, Known DEF Accepting, Rows, PlaceOK
<1>3. UNCHANGED <<run, entry, told, remote, room, age>> /\ (Event \/ UNCHANGED events)
  BY Untouched DEF InspectTerminal, InspectNothing, InspectContract, runVars, world
<1>4. Claiming(call, Claimed(call, "recovery")) /\ Claiming(call, Released(call, FALSE))
  BY Untouched, Claims DEF Owners
<1>5. CASE InspectTerminal(r)
  <2>1. Claiming(call, call') /\ fresh' = {r}
    BY <1>4, <1>5 DEF InspectTerminal, Write
  <2> QED BY <1>1, <1>2, <1>3, <1>5, <2>1, RuleStep DEF InspectTerminal
<1>6. CASE InspectContract(r)
  <2>1. call' = call /\ fresh' = fresh
    BY <1>6, Untouched DEF InspectContract
  <2> QED BY <1>1, <1>2, <1>3, <1>6, <2>1, RuleStep DEF InspectContract
<1>7. CASE InspectNothing(r)
  <2>1. CASE /\ Write(r, Claimed(call, "recovery"))
             /\ Record("expired") /\ GoOn(r, "expiring", "expired")
    <3>1. Claiming(call, call') /\ fresh' = {r}
      BY <1>4, <2>1 DEF Write
    <3> QED BY <1>1, <1>2, <1>3, <2>1, <3>1, RuleStep
  <2>2. CASE Last(Released(call, FALSE)) /\ Stop(r) /\ UNCHANGED inbox
    BY <1>1, <1>3, <1>4, <2>2, Untouched, Passed DEF inbox
  <2>3. CASE /\ ~LookedEnough(call) /\ Stop(r) /\ UNCHANGED inbox
             /\ Last([Released(call, FALSE) EXCEPT !.looks = @ + 1])
    <3>1. Claiming(call, [Released(call, FALSE) EXCEPT !.looks = @ + 1])
      BY <2>3, LooksAgain, Untouched
    <3> QED BY <1>1, <1>3, <2>3, <3>1, Untouched, Passed DEF inbox
  <2> QED BY <1>7, <2>1, <2>2, <2>3 DEF InspectNothing
<1> QED BY <1>5, <1>6, <1>7

LEMMA StepRecApply ==
    ASSUME IInv, NEW r \in Recoverers, RecApply(r)
    PROVE  IInv' /\ Promised
<1> DEFINE o == proc[r].on
<1>1. r \in Procs /\ r # Canceller /\ proc[r].pc \in {"expiring", "polled"} /\ Stop(r)
  BY Recovers DEF RecApply, At
<1>2. /\ proc[r].pc \notin Accepting \cup {"idle"}
      /\ o \in Rows /\ o # "working" /\ row[o].st # "absent"
  BY <1>1, Known DEF Accepting, PlaceOK, Ruling
<1>3. UNCHANGED <<row, rowFresh, run, entry, told, remote, room, age, events>> /\ InboxStep
      /\ rowFresh' \in [Rows -> SUBSET Procs]
  BY Untouched DEF RecApply, inbox, runVars, world
<1>4. LedgerStep(r) /\ (call'.st \in Early => call.st \in Early)
  <2>1. CASE Legal(call, Outcome(o)) /\ Last(Ended(call, o))
    <3>1. Ending(call, Ended(call, o), row)
      BY <1>2, <2>1, Ends, Untouched
    <3>2. LedgerStep(r) /\ call'.st \in TerminalCallStates
      BY <1>1, <2>1, <3>1, Finishes DEF Ending
    <3> QED BY <3>2, States
  <2>2. CASE Done(r)
    BY <1>1, <2>2, Finishes
  <2> QED BY <2>1, <2>2 DEF RecApply
<1> QED BY <1>1, <1>2, <1>3, <1>4, LastStep

LEMMA StepRec ==
    ASSUME IInv, NEW r \in Recoverers, RecStep(r)
    PROVE  IInv' /\ Promised
BY StepRecClaim, StepRecPasses, StepRecOrphan, StepRecGoes, StepInspect, StepRecApply DEF RecStep
-----------------------------------------------------------------------------
(* The observation processor                                               *)

\* A row in hand is released as r, or left to whoever has it now.
LEMMA RowReleases ==
    ASSUME IInv, NEW p \in Procs, NEW o \in Rows, o = proc[p].on, row[o].st # "absent",
           NEW r \in InboxRows, r.st # "absent",
           r.digest => call.st \in TerminalCallStates,
           r.st = "completed" => Spent(call, run, entry, room, o),
           call' = call, ReleaseRow(p, o, r)
    PROVE  InboxStep /\ rowFresh' \in [Rows -> SUBSET Procs]
<1>1. /\ row \in [Rows -> InboxRows] /\ rowFresh \in [Rows -> SUBSET Procs]
      /\ call.st # "absent"
  BY DEF IInv, StoreOK, RowsOK, ProcsOK
<1>2. rowFresh' \in [Rows -> SUBSET Procs]
  BY <1>1 DEF ReleaseRow, RowDone
<1>3. CASE p \in rowFresh[o]
  <2> DEFINE d == [r EXCEPT !.lease = FALSE, !.due = TRUE]
  <2>1. d \in InboxRows /\ d.st = r.st /\ d.digest = r.digest
    BY DEF InboxRows
  <2>2. row' = [row EXCEPT ![o] = d]
    BY <1>3 DEF ReleaseRow
  <2> HIDE DEF d
  <2>3. RowWritten(call', row, run, entry, remote, room, o, d)
    BY <1>1, <2>1 DEF RowWritten
  <2> QED BY <1>2, <2>1, <2>2, <2>3 DEF InboxStep
<1>4. CASE p \notin rowFresh[o]
  BY <1>2, <1>4 DEF ReleaseRow, RowDone, InboxStep
<1> QED BY <1>3, <1>4

LEMMA RowPoisoned ==
    ASSUME IInv, NEW p \in Procs, NEW o \in Rows, o = proc[p].on, row[o].st # "absent",
           call' = call, Poison(p, o)
    PROVE  InboxStep /\ rowFresh' \in [Rows -> SUBSET Procs]
<1>1. /\ row \in [Rows -> InboxRows] /\ rowFresh \in [Rows -> SUBSET Procs]
      /\ call.st # "absent"
      /\ row[o].digest => call.st \in TerminalCallStates
  BY DEF IInv, StoreOK, RowsOK, ProcsOK
<1>2. rowFresh' \in [Rows -> SUBSET Procs]
  BY <1>1 DEF Poison, RowDone
<1>3. CASE row[o].st = "claimed"
  <2> DEFINE d == [row[o] EXCEPT !.lease = FALSE,
                      !.st  = IF row[o].claims >= MaxTransportAttempts
                              THEN "quarantined" ELSE "pending",
                      !.due = row[o].claims >= MaxTransportAttempts]
  <2>1. /\ d \in InboxRows /\ d.st \in {"quarantined", "pending"}
        /\ d.digest = row[o].digest
    <3>1. row[o] \in InboxRows /\ (row[o].claims >= MaxTransportAttempts) \in BOOLEAN
      BY <1>1
    <3> QED BY <3>1 DEF InboxRows, RowStates
  <2>2. row' = [row EXCEPT ![o] = d]
    BY <1>1, <1>3 DEF Poison
  <2> HIDE DEF d
  <2>3. RowWritten(call', row, run, entry, remote, room, o, d)
    BY <1>1, <2>1 DEF RowWritten
  <2> QED BY <1>2, <2>1, <2>2, <2>3 DEF InboxStep
<1>4. CASE row[o].st # "claimed"
  BY <1>2, <1>4 DEF Poison, RowDone, InboxStep
<1> QED BY <1>3, <1>4

\* A processor is done with its row.
LEMMA ProcessorStops ==
    ASSUME IInv, NEW p \in Processors, proc[p].pc \in Reading, Stop(p),
           UNCHANGED <<call, run, entry, told, remote, room, age, events>>,
           fresh' \subseteq fresh, InboxStep, rowFresh' \in [Rows -> SUBSET Procs]
    PROVE  IInv' /\ Promised
<1>1. p \in Procs /\ p # Canceller
  BY Processes
<1>2. proc[p].pc \notin Accepting \cup {"idle"}
  BY DEF Reading, Accepting
<1>3. LedgerStep(p)
  BY DEF LedgerStep
<1> QED BY <1>1, <1>2, <1>3, LastStep

\* What a processor knows of the row it has in hand.
LEMMA InHand ==
    ASSUME IInv, NEW p \in Processors, proc[p].pc \in Reading
    PROVE  /\ p \in Procs /\ proc[p].on \in Rows /\ row[proc[p].on].st # "absent"
           /\ row[proc[p].on] \in InboxRows /\ call.st # "absent"
           /\ row[proc[p].on].digest => call.st \in TerminalCallStates
<1>1. p \in Procs
  BY Processes
<1>2. proc[p].on \in Rows /\ row \in [Rows -> InboxRows] /\ row[proc[p].on].st # "absent"
  BY <1>1, Known DEF PlaceOK
<1> QED BY <1>1, <1>2 DEF IInv, StoreOK, RowsOK

LEMMA StepSkip ==
    ASSUME IInv, NEW p \in Processors, ProcSkip(p)
    PROVE  IInv' /\ Promised
<1> DEFINE o == proc[p].on
<1>1. proc[p].pc \in Reading /\ Done(p)
  BY DEF ProcSkip, At, Reading
<1>2. UNCHANGED <<call, run, entry, told, remote, room, age, events>> /\ fresh' \subseteq fresh
  BY <1>1 DEF ProcSkip, Done, runVars, world
<1>3. p \in Procs /\ o \in Rows /\ row[o].st # "absent" /\ row[o] \in InboxRows
  BY <1>1, InHand
<1>4. CASE RowDone(p) /\ Stop(p)
  <2>1. InboxStep /\ rowFresh' \in [Rows -> SUBSET Procs]
    BY <1>3, <1>4, Known DEF RowDone, InboxStep
  <2> QED BY <1>1, <1>2, <1>4, <2>1, ProcessorStops
<1>5. CASE CompleteRow(p, o) /\ (~room \/ o = "working")
  <2> DEFINE r == [row[o] EXCEPT !.st = "completed"]
  <2>1. /\ r \in InboxRows /\ r.st = "completed" /\ r.digest = row[o].digest
    BY <1>3 DEF InboxRows, RowStates
  <2>2. ReleaseRow(p, o, r) /\ Stop(p)
    BY <1>5 DEF CompleteRow, ReleaseRow
  <2>3. Spent(call, run, entry, room, o)
    BY <1>5 DEF Spent
  <2> HIDE DEF r
  <2>4. InboxStep /\ rowFresh' \in [Rows -> SUBSET Procs]
    BY <1>1, <1>2, <1>3, <2>1, <2>2, <2>3, InHand, RowReleases
  <2> QED BY <1>1, <1>2, <2>2, <2>4, ProcessorStops
<1> QED BY <1>4, <1>5 DEF ProcSkip

\* The suspended Run hears the verdict of the call.
LEMMA HearStep ==
    ASSUME IInv, NEW p \in Processors, proc[p].pc \in Reading, entry = "waiting",
           call.st \in TerminalCallStates, Hear(call.result), Go(p, "delivered"),
           UNCHANGED <<call, fresh, row, remote, room, age, events>>,
           rowFresh' \in [Rows -> SUBSET Procs]
    PROVE  IInv' /\ Promised
<1>1. /\ p \in Procs /\ p # Kernel /\ p # Canceller
      /\ "delivered" \in Pcs /\ "delivered" \notin Out /\ "delivered" \notin Unsent
  BY Processes DEF Pcs, Out, Unsent
<1>2. /\ run' = "running" /\ entry' = "terminal" /\ told' = call.result
      /\ call.result \in TerminalCallStates /\ call.result # None /\ call.result # "refused"
  <2>1. call.result = call.st
    BY DEF IInv, StoreOK, CallOK
  <2> QED BY <2>1 DEF Hear, TerminalCallStates, None
<1>3. told = None
  BY DEF IInv, StoreOK, RunOK
<1>4. StoreOK(call', row', run', entry', told', remote', room')
  <2>1. RunOK(call, "running", "terminal", call.result)
    BY <1>2 DEF RunOK
  <2>2. SpentOK(call, row, "running", "terminal", room)
    BY DEF SpentOK, Spent
  <2> QED BY <1>2, <2>1, <2>2 DEF IInv, StoreOK
<1>5. CallOnward(call, call') /\ RowsOnward(row, row') /\ Single
  BY <1>2, <1>3 DEF CallOnward, RowsOnward, Single
<1>6. Copies(p, "delivered") /\ Turns(p, "delivered")
  BY <1>1 DEF Copies, Turns, CopyOK, IInv, ProcsOK
<1>7. Moves(p, "delivered", proc[p].on, proc[p].res)
  BY <1>1, GoMoves
<1>8. PlaceOK(call', row', entry', "delivered", proc[p].on, proc[p].res)
  <2>1. call.st # "absent" /\ row[proc[p].on].st # "absent"
    BY InHand
  <2> QED BY <1>2, <2>1 DEF PlaceOK, Ruling
<1>9. /\ KernelOK(call', entry', Place(Kernel, p, "delivered"))
      /\ ClosedOK(call', run', entry', told', Place(Kernel, p, "delivered"),
                  Place(Canceller, p, "delivered"))
  <2>1. KernelOK(call, entry, proc[Kernel].pc)
    BY DEF IInv, ProcsOK
  <2>2. proc[Kernel].pc = "idle" /\ Place(Kernel, p, "delivered") = "idle"
    BY <1>1, <2>1 DEF KernelOK, Place
  <2>3. KernelOK(call', entry', "idle")
    BY DEF KernelOK, Accepting
  <2>4. call'.st \notin LiveCallStates \cup {"absent"}
    BY States
  <2> QED BY <2>2, <2>3, <2>4 DEF ClosedOK
<1>10. CountersOK'
  BY DEF IInv, CountersOK
<1> QED BY <1>1, <1>4, <1>5, <1>6, <1>7, <1>8, <1>9, <1>10, ProcessStep

LEMMA StepSettle ==
    ASSUME IInv, NEW p \in Processors, ProcSettle(p)
    PROVE  IInv' /\ Promised
<1> DEFINE o == proc[p].on
<1>1. proc[p].pc = "settling" /\ proc[p].pc \in Reading
  BY DEF ProcSettle, At, Reading
<1>2. UNCHANGED <<call, fresh, remote, room, age, events>>
  BY DEF ProcSettle, ledger, world
<1>3. p \in Procs /\ o \in Rows /\ row[o].st # "absent" /\ row[o] \in InboxRows
  BY <1>1, InHand
<1>4. call.st \in TerminalCallStates /\ call.result # None
  <2>1. call.st \in TerminalCallStates
    BY <1>1, <1>3, Known DEF PlaceOK
  <2> QED BY <2>1, States DEF IInv, StoreOK, CallOK
<1>5. ASSUME NEW st \in {"completed", "outcome_pending"},
             ReleaseRow(p, o, [row[o] EXCEPT !.st = st]), UNCHANGED runVars,
             st = "completed" => run = "ended" \/ told = call.result
      PROVE  IInv' /\ Promised
  <2> DEFINE r == [row[o] EXCEPT !.st = st]
  <2>1. r \in InboxRows /\ r.st = st /\ r.st # "absent"
    BY <1>3 DEF InboxRows, RowStates
  <2>2. st = "completed" => Spent(call, run, entry, room, o)
    BY <1>4, <1>5 DEF Spent, IInv, StoreOK, RunOK
  <2>3. ReleaseRow(p, o, r) /\ Stop(p)
    BY <1>5 DEF ReleaseRow
  <2> HIDE DEF r
  <2>4. InboxStep /\ rowFresh' \in [Rows -> SUBSET Procs]
    BY <1>2, <1>3, <1>4, <2>1, <2>2, <2>3, RowReleases
  <2> QED BY <1>1, <1>2, <1>5, <2>3, <2>4, ProcessorStops DEF runVars
<1>6. CASE entry = "waiting" /\ Hear(call.result) /\ Go(p, "delivered") /\ UNCHANGED inbox
  BY <1>1, <1>2, <1>4, <1>6, HearStep, Untouched DEF inbox
<1>7. CASE Poison(p, o) /\ UNCHANGED runVars
  <2>1. InboxStep /\ rowFresh' \in [Rows -> SUBSET Procs] /\ Stop(p)
    BY <1>2, <1>3, <1>7, RowPoisoned DEF Poison
  <2> QED BY <1>1, <1>2, <1>7, <2>1, ProcessorStops DEF runVars
<1> QED BY <1>5, <1>6, <1>7 DEF ProcSettle, CompleteRow

\* The observation that is applied to the ledger.
LEMMA Applies ==
    ASSUME IInv, NEW o \in Rows, row[o].st # "absent", call.st # "absent",
           ~Conflicting(call, o), ~Bad(call, o)
    PROVE  /\ Ignored(call, o) => Applied(call, o) = call
           /\ ~Ignored(call, o) => \/ Moving(call, Applied(call, o), remote)
                                   \/ Ending(call, Applied(call, o), row)
           /\ Applied(call, o).st \in Early => call.st \in Early
           /\ o # "working" => Applied(call, o).result # None \/ Applied(call, o).st \in Closing
<1>1. call \in Calls /\ CallOK(call) /\ (call.st \in LiveCallStates \/ call.st \in TerminalCallStates)
  BY Untouched DEF Calls, CallStates
<1>2. CASE Ignored(call, o)
  <2>1. Applied(call, o) = call
    BY <1>2 DEF Applied
  <2>2. o # "working" => call.result # None \/ call.st \in Closing
    BY <1>1, <1>2, States DEF Ignored, Closing, Terminal, CallOK
  <2> QED BY <1>2, <2>1, <2>2
<1>3. CASE ~Ignored(call, o) /\ o # "working"
  <2>1. Legal(call, Outcome(o))
    BY <1>1, <1>3 DEF Bad, Conflicting, Ignored, Terminal, Live
  <2>2. Ending(call, Ended(call, o), row) /\ Applied(call, o) = Ended(call, o)
    BY <1>1, <1>3, <2>1, Ends DEF Applied
  <2> QED BY <1>3, <2>2, States DEF Ending
<1>4. CASE ~Ignored(call, o) /\ o = "working"
  <2> DEFINE st == IF call.st \in {"dispatching", "delivery_uncertain"} THEN "working" ELSE call.st
             d  == [call EXCEPT !.seen = TRUE, !.task = TRUE, !.st = st]
  <2>1. /\ call.st \in LiveCallStates /\ call.st \notin Early /\ call.st \notin Closing
    BY <1>1, <1>4, States DEF Ignored, Terminal, Early, Closing
  <2>2. /\ st \in LiveCallStates /\ st \in CallStates /\ st \notin Early
    BY <2>1 DEF LiveCallStates, CallStates, Early, UndispatchedStates
  <2> HIDE DEF st
  <2>3. d \in Calls /\ d.st = st /\ d.result = call.result
    BY <1>1, <2>2 DEF Calls
  <2>4. Applied(call, o) = d
    BY <1>1, <1>4 DEF Applied, st, Calls
  <2> HIDE DEF d
  <2>5. Moving(call, d, remote)
    BY <2>1, <2>2, <2>3 DEF Moving, Early
  <2> QED BY <1>4, <2>2, <2>3, <2>4, <2>5
<1> QED BY <1>2, <1>3, <1>4

\* A processor goes on to tell the Run of the call as it is now.
LEMMA ProceedStep ==
    ASSUME IInv, NEW p \in Processors, proc[p].pc \in Reading, LedgerStep(p),
           p \notin fresh' \/ call' = call,
           UNCHANGED <<run, entry, told, remote, room, age, events>>, Proceed(p, call'.result),
           call'.st \in Early => call.st \in Early,
           proc[p].on # "working" => call'.result # None \/ call'.st \in Closing
    PROVE  IInv' /\ Promised
<1> DEFINE o   == proc[p].on
           res == call'.result
           m   == [proc[p] EXCEPT !.pc = "delivering", !.res = res]
<1>1. /\ p \in Procs /\ p # Kernel /\ p # Canceller
      /\ o \in Rows /\ row[o].st # "absent" /\ call.st # "absent" /\ proc[p] \in Memory
      /\ proc \in [Procs -> Memory] /\ rowFresh \in [Rows -> SUBSET Procs]
  BY Processes, InHand, Known DEF IInv, ProcsOK
<1>2. row' = row /\ rowFresh' \in [Rows -> SUBSET Procs] /\ InboxStep
  BY <1>1 DEF Proceed, InboxStep
<1>3. StoreOK(call', row', run', entry', told', remote', room') /\ CallOnward(call, call')
  BY <1>1, <1>2, DocumentsKept
<1>4. res \in Results \cup {None} /\ call'.st # "absent"
  BY <1>1, <1>3 DEF StoreOK, CallOK, Calls, CallOnward
<1>5. m \in Memory /\ m.pc = "delivering" /\ m.on = o /\ m.res = res
  BY <1>1, <1>4 DEF Memory, Pcs
<1>6. Moves(p, "delivering", o, res)
  <2>1. proc' = [proc EXCEPT ![p] = m]
    BY <1>1 DEF Proceed
  <2> HIDE DEF m, o, res
  <2> QED BY <1>1, <1>5, <2>1 DEF Moves
<1>7. PlaceOK(call', row', entry', "delivering", o, res)
  BY <1>1, <1>2, <1>4 DEF PlaceOK, Ruling
<1>8. Turns(p, "delivering") /\ CopyOK(call', "delivering")
  BY DEF Turns, CopyOK, Out, Unsent
<1> HIDE DEF m, o, res
<1> QED BY <1>1, <1>2, <1>6, <1>7, <1>8, QuietStep

LEMMA StepObserve ==
    ASSUME IInv, NEW p \in Processors, ProcObserve(p)
    PROVE  IInv' /\ Promised
<1> DEFINE o == proc[p].on
<1>1. proc[p].pc \in Reading
  BY DEF ProcObserve, At, Reading
<1>2. UNCHANGED <<run, entry, told, remote, room, age, events>>
  BY DEF ProcObserve, runVars, world
<1>3. /\ p \in Procs /\ o \in Rows /\ row[o].st # "absent" /\ row[o] \in InboxRows
      /\ call.st # "absent" /\ (row[o].digest => call.st \in TerminalCallStates)
  BY <1>1, InHand
<1>4. ASSUME NEW r \in InboxRows, ReleaseRow(p, o, r), r.st # "absent",
             r.digest => call.st \in TerminalCallStates,
             r.st = "completed" => Spent(call, run, entry, room, o),
             call' = call, fresh' \subseteq fresh
      PROVE  IInv' /\ Promised
  <2>1. InboxStep /\ rowFresh' \in [Rows -> SUBSET Procs] /\ Stop(p)
    BY <1>3, <1>4, RowReleases DEF ReleaseRow
  <2> QED BY <1>1, <1>2, <1>4, <2>1, ProcessorStops
<1>5. CASE /\ Conflicting(call, o) /\ Done(p)
           /\ ReleaseRow(p, o, [row[o] EXCEPT !.st = "completed", !.route = "executor",
                                              !.digest = TRUE])
  <2> DEFINE r == [row[o] EXCEPT !.st = "completed", !.route = "executor", !.digest = TRUE]
  <2>1. r \in InboxRows /\ r.st = "completed"
    BY <1>3 DEF InboxRows, RowStates, Routes
  <2>2. call.st \in TerminalCallStates /\ Spent(call, run, entry, room, o)
    BY <1>5 DEF Conflicting, Terminal, Spent
  <2>3. ReleaseRow(p, o, r) /\ call' = call /\ fresh' \subseteq fresh
    BY <1>5 DEF Done
  <2> HIDE DEF r
  <2> QED BY <1>4, <2>1, <2>2, <2>3
<1>6. CASE Poison(p, o) /\ Done(p)
  <2>1. call' = call /\ fresh' \subseteq fresh /\ Stop(p)
    BY <1>6 DEF Done, Poison
  <2>2. InboxStep /\ rowFresh' \in [Rows -> SUBSET Procs]
    BY <1>3, <1>6, <2>1, RowPoisoned
  <2> QED BY <1>1, <1>2, <2>1, <2>2, ProcessorStops
<1>7. CASE /\ ~Conflicting(call, o) /\ ~Bad(call, o)
           /\ IF Ignored(call, o) THEN Done(p) ELSE Last(Applied(call, o))
           /\ Proceed(p, Applied(call, o).result)
  <2>1. call' = Applied(call, o) /\ LedgerStep(p) /\ (p \notin fresh' \/ call' = call)
    BY <1>3, <1>7, Applies DEF Done, Last, LedgerStep
  <2>2. /\ call'.st \in Early => call.st \in Early
        /\ o # "working" => call'.result # None \/ call'.st \in Closing
    BY <1>3, <1>7, <2>1, Applies
  <2> QED BY <1>1, <1>2, <1>7, <2>1, <2>2, ProceedStep
<1>8. CASE Terminal(call) /\ Proceed(p, call.result) /\ UNCHANGED ledger
  <2>1. call' = call /\ LedgerStep(p)
    BY <1>8 DEF ledger, LedgerStep
  <2>2. call.result # None
    BY <1>8, States DEF Terminal, IInv, StoreOK, CallOK
  <2> QED BY <1>1, <1>2, <1>8, <2>1, <2>2, ProceedStep
<1>9. CASE ReleaseRow(p, o, [row[o] EXCEPT !.st = "pending"]) /\ UNCHANGED ledger
  <2> DEFINE r == [row[o] EXCEPT !.st = "pending"]
  <2>1. r \in InboxRows /\ r.st = "pending" /\ r.digest = row[o].digest
    BY <1>3 DEF InboxRows, RowStates
  <2>2. ReleaseRow(p, o, r) /\ call' = call /\ fresh' \subseteq fresh
    BY <1>9 DEF ledger
  <2> HIDE DEF r
  <2> QED BY <1>3, <1>4, <2>1, <2>2
<1> QED BY <1>5, <1>6, <1>7, <1>8, <1>9 DEF ProcObserve

LEMMA StepTells ==
    ASSUME IInv, NEW p \in Processors, ProcDeliver(p)
    PROVE  IInv' /\ Promised
<1> DEFINE o   == proc[p].on
           res == proc[p].res
<1>1. proc[p].pc = "delivering" /\ proc[p].pc \in Reading
  BY DEF ProcDeliver, At, Reading
<1>2. UNCHANGED <<call, fresh, remote, room, age, events>>
  BY DEF ProcDeliver, ledger, world
<1>3. /\ p \in Procs /\ o \in Rows /\ row[o].st # "absent" /\ row[o] \in InboxRows
      /\ call.st # "absent" /\ (row[o].digest => call.st \in TerminalCallStates)
  BY <1>1, InHand
<1>4. /\ res \in {None, call.result}
      /\ res = None /\ o # "working" => call.st \in Closing
  BY <1>1, <1>3, Known DEF PlaceOK
<1>5. res # None => call.st \in TerminalCallStates /\ res = call.result
  BY <1>4 DEF IInv, StoreOK, CallOK
<1>6. ASSUME NEW r \in InboxRows, ReleaseRow(p, o, r), r.st # "absent", UNCHANGED runVars,
             r.digest => call.st \in TerminalCallStates,
             r.st = "completed" => Spent(call, run, entry, room, o)
      PROVE  IInv' /\ Promised
  <2>1. InboxStep /\ rowFresh' \in [Rows -> SUBSET Procs] /\ Stop(p)
    BY <1>2, <1>3, <1>6, RowReleases DEF ReleaseRow
  <2> QED BY <1>1, <1>2, <1>6, <2>1, ProcessorStops DEF runVars
<1>7. CASE /\ run = "ended" /\ UNCHANGED runVars
           /\ ReleaseRow(p, o, [row[o] EXCEPT !.st = "completed", !.route = "executor"])
  <2> DEFINE r == [row[o] EXCEPT !.st = "completed", !.route = "executor"]
  <2>1. r \in InboxRows /\ r.st = "completed" /\ r.digest = row[o].digest
    BY <1>3 DEF InboxRows, RowStates, Routes
  <2>2. ReleaseRow(p, o, r) /\ Spent(call, run, entry, room, o)
    BY <1>7 DEF Spent
  <2> HIDE DEF r
  <2> QED BY <1>3, <1>6, <1>7, <2>1, <2>2
<1>8. CASE Stop(p) /\ RowDone(p) /\ UNCHANGED runVars
  <2>1. InboxStep /\ rowFresh' \in [Rows -> SUBSET Procs]
    BY <1>3, <1>8, Known DEF RowDone, InboxStep
  <2> QED BY <1>1, <1>2, <1>8, <2>1, ProcessorStops DEF runVars
<1>9. CASE ~room /\ CompleteRow(p, o) /\ UNCHANGED runVars
  <2> DEFINE r == [row[o] EXCEPT !.st = "completed"]
  <2>1. r \in InboxRows /\ r.st = "completed" /\ r.digest = row[o].digest
    BY <1>3 DEF InboxRows, RowStates
  <2>2. ReleaseRow(p, o, r) /\ Spent(call, run, entry, room, o)
    BY <1>9 DEF Spent, CompleteRow
  <2> HIDE DEF r
  <2> QED BY <1>3, <1>6, <1>9, <2>1, <2>2
<1>10. CASE ReleaseRow(p, o, LeftToExecutor(row[o], res)) /\ UNCHANGED runVars
  <2> DEFINE r == LeftToExecutor(row[o], res)
  <2>1. /\ r \in InboxRows /\ r.st = "outcome_pending"
        /\ r.digest => row[o].digest \/ res # None
    BY <1>3 DEF InboxRows, RowStates, Routes, LeftToExecutor
  <2>2. ReleaseRow(p, o, r)
    BY <1>10
  <2> HIDE DEF r
  <2> QED BY <1>3, <1>5, <1>6, <1>10, <2>1, <2>2
<1>11. CASE Poison(p, o) /\ UNCHANGED runVars
  <2>1. InboxStep /\ rowFresh' \in [Rows -> SUBSET Procs] /\ Stop(p)
    BY <1>2, <1>3, <1>11, RowPoisoned DEF Poison
  <2> QED BY <1>1, <1>2, <1>11, <2>1, ProcessorStops DEF runVars
<1>12. CASE /\ entry = "waiting" /\ (IF res = None THEN UNCHANGED runVars ELSE Hear(res))
            /\ Go(p, "delivered") /\ UNCHANGED row
            /\ rowFresh' = [rowFresh EXCEPT ![o] = {p}]
  <2>1. rowFresh' \in [Rows -> SUBSET Procs]
    BY <1>3, <1>12, Known
  <2>2. CASE res # None
    BY <1>1, <1>2, <1>5, <1>12, <2>1, <2>2, HearStep
  <2>3. CASE res = None
    <3>1. /\ p # Kernel /\ p # Canceller /\ "delivered" \in Pcs
          /\ "delivered" \notin Out /\ "delivered" \notin Unsent
      BY Processes DEF Pcs, Out, Unsent
    <3>2. Moves(p, "delivered", o, res)
      BY <1>3, <1>12, <3>1, GoMoves
    <3>3. LedgerStep(p) /\ InboxStep
      BY <1>2, <1>12 DEF LedgerStep, InboxStep
    <3>4. Turns(p, "delivered") /\ CopyOK(call', "delivered")
      BY <1>2, <3>1 DEF Turns, CopyOK
    <3>5. PlaceOK(call', row', entry', "delivered", o, res)
      BY <1>2, <1>3, <1>4, <1>12, <2>3 DEF PlaceOK, Ruling
    <3> QED BY <1>2, <1>3, <1>12, <2>1, <2>3, <3>1, <3>2, <3>3, <3>4, <3>5, QuietStep DEF runVars
  <2> QED BY <2>2, <2>3
<1> QED BY <1>7, <1>8, <1>9, <1>10, <1>11, <1>12 DEF ProcDeliver

LEMMA StepDelivered ==
    ASSUME IInv, NEW p \in Processors, ProcDelivered(p)
    PROVE  IInv' /\ Promised
<1> DEFINE o == proc[p].on
           r == [row[o] EXCEPT !.st = "completed", !.route = "observation_sink"]
<1>1. proc[p].pc = "delivered" /\ proc[p].pc \in Reading
  BY DEF ProcDelivered, At, Reading
<1>2. UNCHANGED <<call, fresh, run, entry, told, remote, room, age, events>>
  BY DEF ProcDelivered, ledger, runVars, world
<1>3. /\ p \in Procs /\ o \in Rows /\ row[o].st # "absent" /\ row[o] \in InboxRows
      /\ row[o].digest => call.st \in TerminalCallStates
  BY <1>1, InHand
<1>4. Spent(call, run, entry, room, o)
  BY <1>1, <1>3, Known DEF PlaceOK, Spent
<1>5. r \in InboxRows /\ r.st = "completed" /\ r.digest = row[o].digest
  BY <1>3 DEF InboxRows, RowStates, Routes
<1>6. ReleaseRow(p, o, r) \/ (Stop(p) /\ RowDone(p))
  BY DEF ProcDelivered
<1> HIDE DEF r
<1>7. CASE ReleaseRow(p, o, r)
  <2>1. InboxStep /\ rowFresh' \in [Rows -> SUBSET Procs] /\ Stop(p)
    BY <1>2, <1>3, <1>4, <1>5, <1>7, RowReleases DEF ReleaseRow
  <2> QED BY <1>1, <1>2, <2>1, ProcessorStops
<1>8. CASE Stop(p) /\ RowDone(p)
  <2>1. InboxStep /\ rowFresh' \in [Rows -> SUBSET Procs]
    BY <1>3, <1>8, Known DEF RowDone, InboxStep
  <2> QED BY <1>1, <1>2, <1>8, <2>1, ProcessorStops
<1> QED BY <1>6, <1>7, <1>8

LEMMA StepProcClaim ==
    ASSUME IInv, NEW p \in Processors, NEW o \in Rows, ProcClaim(p, o)
    PROVE  IInv' /\ Promised
<1> DEFINE pc == IF row[o].route = "executor" /\ row[o].digest THEN "settling" ELSE "observing"
           r  == [row[o] EXCEPT !.st = "claimed", !.lease = TRUE,
                     !.claims = IF @ < MaxTransportAttempts THEN @ + 1 ELSE @]
<1>1. /\ p \in Procs /\ p # Kernel /\ p # Canceller
      /\ UNCHANGED <<call, run, entry, told, remote, room, age, events>>
      /\ GoOn(p, pc, o) /\ fresh' \subseteq fresh \cup {p}
      /\ row[o].st # "absent" /\ rowFresh' = [rowFresh EXCEPT ![o] = {p}]
      /\ row' = [row EXCEPT ![o].st = "claimed", ![o].lease = TRUE,
                 ![o].claims = IF @ < MaxTransportAttempts THEN @ + 1 ELSE @]
  BY Processes DEF ProcClaim, runVars, world
<1>2. /\ row \in [Rows -> InboxRows] /\ rowFresh \in [Rows -> SUBSET Procs] /\ fresh \subseteq Procs
      /\ row[o] \in InboxRows /\ call.st # "absent"
      /\ row[o].digest => call.st \in TerminalCallStates
      /\ StoreOK(call, row, run, entry, told, remote, room)
  BY <1>1 DEF IInv, StoreOK, RowsOK, ProcsOK
<1>3. /\ pc \in {"settling", "observing"} /\ pc \in Pcs
      /\ pc = "settling" => call.st \in TerminalCallStates
      /\ pc \notin Out /\ pc \notin Unsent /\ pc \notin Ruling
  BY <1>2 DEF Pcs, Out, Unsent, Ruling
<1>4. r \in InboxRows /\ r.st = "claimed" /\ r.digest = row[o].digest
  <2>1. (IF row[o].claims < MaxTransportAttempts THEN row[o].claims + 1 ELSE row[o].claims)
           \in 0 .. MaxTransportAttempts
    BY <1>2, Bounds DEF InboxRows
  <2> QED BY <1>2, <2>1 DEF InboxRows, RowStates
<1>5. row' = [row EXCEPT ![o] = r]
  BY <1>1, <1>2
<1> HIDE DEF pc, r
<1>6. RowWritten(call, row, run, entry, remote, room, o, r)
  BY <1>1, <1>2, <1>4 DEF RowWritten
<1>7. StoreOK(call', row', run', entry', told', remote', room') /\ RowsOnward(row, row')
  <2>1. StoreOK(call, row', run, entry, told, remote, room) /\ RowsOnward(row, row')
    BY <1>2, <1>4, <1>5, <1>6, RowWrites
  <2> QED BY <1>1, <2>1
<1>8. CallOnward(call, call') /\ Single
  BY <1>1 DEF CallOnward, Single
<1>9. Copies(p, pc) /\ Turns(p, pc)
  BY <1>1, <1>2, <1>3 DEF Copies, Turns, CopyOK
<1>10. Moves(p, pc, o, proc[p].res)
  BY <1>1, <1>3, GoOnMoves
<1>11. PlaceOK(call', row', entry', pc, o, proc[p].res)
  BY <1>1, <1>2, <1>3, <1>4, <1>5 DEF PlaceOK
<1>12. /\ KernelOK(call', entry', Place(Kernel, p, pc))
       /\ ClosedOK(call', run', entry', told', Place(Kernel, p, pc), Place(Canceller, p, pc))
  BY <1>1, <1>8, RolesKept
<1>13. CountersOK' /\ rowFresh' \in [Rows -> SUBSET Procs]
  BY <1>1, <1>2 DEF IInv, CountersOK
<1> QED BY <1>1, <1>7, <1>8, <1>9, <1>10, <1>11, <1>12, <1>13, ProcessStep

LEMMA StepProc ==
    ASSUME IInv, NEW p \in Processors, ProcStep(p)
    PROVE  IInv' /\ Promised
BY StepSettle, StepSkip, StepObserve, StepTells, StepDelivered, StepProcClaim DEF ProcStep
-----------------------------------------------------------------------------
(* The kernel                                                              *)

\* The Run changes; what it has no use for stays so.
LEMMA RunChanges ==
    ASSUME NEW c, NEW rw, NEW rn, NEW en, NEW td, NEW rm, NEW ro, NEW sn, NEW ep, NEW tp,
           NEW rp \in BOOLEAN, StoreOK(c, rw, rn, en, td, rm, ro), RunOK(c, sn, ep, tp),
           rn = "ended" => sn = "ended", en = "terminal" => ep = "terminal", rp => ro
    PROVE  StoreOK(c, rw, sn, ep, tp, rm, rp)
<1>1. SpentOK(c, rw, sn, ep, rp)
  BY DEF StoreOK, SpentOK, Spent
<1> QED BY <1>1 DEF StoreOK

\* A step of the kernel, or of the canceller, by which only the Run changes.
LEMMA RunStep ==
    ASSUME IInv, NEW p \in Procs, NEW pc, NEW on, NEW res, Moves(p, pc, on, res),
           pc \notin Out \cup Unsent \cup Reading \cup {"claimed", "ready", "late", "inspecting"},
           UNCHANGED <<call, fresh, row, rowFresh, remote, room, age, events>>,
           RunOK(call, run', entry', told'),
           run = "ended" => run' = "ended", entry = "terminal" => entry' = "terminal",
           told # None => told' = told,
           PlaceOK(call, row, entry', pc, on, res),
           KernelOK(call, entry', Place(Kernel, p, pc)),
           ClosedOK(call, run', entry', told', Place(Kernel, p, pc), Place(Canceller, p, pc))
    PROVE  IInv' /\ Promised
<1>1. StoreOK(call, row, run, entry, told, remote, room) /\ room \in BOOLEAN
  BY DEF IInv, StoreOK
<1>2. StoreOK(call, row, run', entry', told', remote, room)
  BY <1>1, RunChanges
<1>3. CallOnward(call, call') /\ RowsOnward(row, row') /\ Single
  BY DEF CallOnward, RowsOnward, Single
<1>4. Copies(p, pc) /\ Turns(p, pc)
  BY DEF Copies, Turns, CopyOK, IInv, ProcsOK
<1>5. CountersOK' /\ rowFresh' \in [Rows -> SUBSET Procs]
  BY DEF IInv, CountersOK, ProcsOK
<1> QED BY <1>2, <1>3, <1>4, <1>5, ProcessStep

LEMMA Kernels ==
    ASSUME IInv
    PROVE  /\ Kernel \in Procs
           /\ \A pc : Place(Kernel, Kernel, pc) = pc
           /\ \A pc : Place(Canceller, Kernel, pc) = proc[Canceller].pc
           /\ KernelOK(call, entry, proc[Kernel].pc)
           /\ ClosedOK(call, run, entry, told, proc[Kernel].pc, proc[Canceller].pc)
           /\ RunOK(call, run, entry, told)
           /\ PlaceOK(call, row, entry, proc[Kernel].pc, proc[Kernel].on, proc[Kernel].res)
BY Bounds DEF Place, IInv, ProcsOK, StoreOK

\* The places of the kernel before it executes the entry.
LEMMA KernelGoes ==
    ASSUME IInv, NEW pc \in {"accepting", "accepted", "canceling", "starting"}, Go(Kernel, pc),
           UNCHANGED <<call, fresh, row, rowFresh, remote, room, age, events>>,
           RunOK(call, run', entry', told'),
           run = "ended" => run' = "ended", entry = "terminal" => entry' = "terminal",
           told # None => told' = told,
           pc = "accepting" \/ call.st # "absent", KernelOK(call, entry', pc),
           ClosedOK(call, run', entry', told', pc, proc[Canceller].pc)
    PROVE  IInv' /\ Promised
<1>1. /\ pc \in Pcs /\ pc \notin Out \cup Unsent \cup Reading \cup Ruling
      /\ pc \notin {"claimed", "ready", "late", "inspecting", "returning"}
  BY DEF Pcs, Out, Unsent, Reading, Ruling
<1>2. Moves(Kernel, pc, proc[Kernel].on, proc[Kernel].res)
  BY <1>1, Kernels, GoMoves
<1>3. PlaceOK(call, row, entry', pc, proc[Kernel].on, proc[Kernel].res)
  BY <1>1 DEF PlaceOK, Reading, Ruling
<1> QED BY <1>1, <1>2, <1>3, Kernels, RunStep

\* The kernel is done.
LEMMA KernelStops ==
    ASSUME IInv, Stop(Kernel),
           UNCHANGED <<call, fresh, row, rowFresh, remote, room, age, events>>,
           RunOK(call, run', entry', told'),
           run = "ended" => run' = "ended", entry = "terminal" => entry' = "terminal",
           told # None => told' = told,
           ClosedOK(call, run', entry', told', "idle", proc[Canceller].pc)
    PROVE  IInv' /\ Promised
<1>1. Moves(Kernel, "idle", "working", None)
  BY Kernels, StopMoves
<1>2. PlaceOK(call, row, entry', "idle", "working", None) /\ KernelOK(call, entry', "idle")
  BY DEF PlaceOK, KernelOK, Reading, Ruling, Accepting
<1>3. "idle" \notin Out \cup Unsent \cup Reading
  BY DEF Out, Unsent, Reading
<1> QED BY <1>1, <1>2, <1>3, Kernels, RunStep

LEMMA StepAcceptCheck ==
    ASSUME IInv, AcceptCheck
    PROVE  IInv' /\ Promised
<1>1. /\ proc[Kernel].pc = "idle" /\ run = "running" /\ entry = "pending" /\ call.st = "absent"
      /\ UNCHANGED <<call, fresh, row, rowFresh, remote, room, age, events>>
  BY DEF AcceptCheck, At, ledger, inbox, world
<1>2. told = None /\ "absent" \notin LiveCallStates
  BY <1>1, Kernels, States DEF RunOK
<1>3. CASE Go(Kernel, "accepting") /\ UNCHANGED runVars
  <2>1. KernelOK(call, entry, "accepting")
    BY <1>1 DEF KernelOK, Accepting
  <2>2. ClosedOK(call, run, entry, told, "accepting", proc[Canceller].pc)
    BY <1>1, <1>2, Kernels DEF ClosedOK
  <2> QED BY <1>1, <1>3, <2>1, <2>2, Kernels, KernelGoes DEF runVars
<1>4. CASE entry' = "terminal" /\ told' = "refused" /\ UNCHANGED <<run, proc>>
  <2>1. RunOK(call, run', entry', told')
    BY <1>1, <1>4, Kernels DEF RunOK, KernelFailures, None
  <2>2. ClosedOK(call, run', entry', told', "idle", proc[Canceller].pc)
    BY <1>1, <1>2, <1>4, Kernels DEF ClosedOK
  <2>3. Moves(Kernel, "idle", proc[Kernel].on, proc[Kernel].res)
    BY <1>1, <1>4 DEF Moves, IInv, ProcsOK
  <2>4. PlaceOK(call, row, entry', "idle", proc[Kernel].on, proc[Kernel].res)
      /\ KernelOK(call, entry', "idle")
    BY DEF PlaceOK, KernelOK, Reading, Ruling, Accepting
  <2>5. "idle" \notin Out \cup Unsent \cup Reading
    BY DEF Out, Unsent, Reading
  <2> QED BY <1>1, <1>2, <1>4, <2>1, <2>2, <2>3, <2>4, <2>5, Kernels, RunStep
<1> QED BY <1>3, <1>4 DEF AcceptCheck

\* The call comes to be.  Nobody knew of it, so nobody is at a place that speaks
\* of a call.
LEMMA StepAcceptInsert ==
    ASSUME IInv, AcceptInsert
    PROVE  IInv' /\ Promised
<1> DEFINE d == [NoCall EXCEPT !.st = "accepted"]
<1>1. /\ proc[Kernel].pc = "accepting" /\ call' = d /\ fresh' = {}
      /\ Go(Kernel, "fencing")
      /\ UNCHANGED <<row, rowFresh, run, entry, told, remote, room, age, events>>
  BY DEF AcceptInsert, At, Last, inbox, runVars, world
<1>2. call.st = "absent" /\ entry = "pending" /\ told = None
  BY <1>1, Kernels DEF KernelOK, Accepting, RunOK
<1>3. /\ call.result = None /\ remote.got = 0
      /\ \A o \in Rows : row[o].st = "absent" /\ ~row[o].digest
  BY <1>2, States DEF IInv, StoreOK, CallOK, RemoteOK, RowsOK, Early, InboxRows
<1>4. /\ d \in Calls /\ d.st = "accepted" /\ d.result = None /\ d.tries = 0
      /\ "accepted" \in UndispatchedStates /\ "accepted" \in LiveCallStates
      /\ "accepted" \in Early /\ "accepted" \notin TerminalCallStates
  <2>1. /\ d.st = "accepted" /\ d.result = None /\ d.tries = 0
    BY DEF NoCall
  <2>2. /\ "accepted" \in UndispatchedStates /\ "accepted" \in LiveCallStates
        /\ "accepted" \in Early /\ "accepted" \notin TerminalCallStates
    BY DEF LiveCallStates, UndispatchedStates, Early, TerminalCallStates
  <2>3. d \in Calls
    <3>1. 0 \in 0 .. MaxTransportAttempts /\ 0 \in 0 .. MaxInspections
      BY Bounds
    <3>2. NoCall \in Calls
      BY <3>1 DEF NoCall, Calls, Owners, None
    <3>3. "accepted" \in CallStates
      BY <2>2 DEF CallStates
    <3> QED BY <3>2, <3>3 DEF Calls
  <2> QED BY <2>1, <2>2, <2>3
<1> HIDE DEF d
<1>5. StoreOK(call', row', run', entry', told', remote', room')
  <2>1. CallOK(d)
    BY <1>4, Bounds DEF CallOK
  <2>2. RemoteOK(d, remote)
    BY <1>3 DEF RemoteOK, IInv, StoreOK
  <2>3. RowsOK(d, row, remote) /\ EvidenceOK(d, row) /\ SpentOK(d, row, run, entry, room)
    BY <1>3, <1>4 DEF RowsOK, EvidenceOK, SpentOK, IInv, StoreOK
  <2>4. RunOK(d, run, entry, told)
    BY <1>2, <1>4, Kernels DEF RunOK, None
  <2> QED BY <1>1, <2>1, <2>2, <2>3, <2>4 DEF StoreOK, IInv
<1>6. \A q \in Procs : proc[q].pc \in {"idle", "accepting", "closing"}
  BY <1>2, Known DEF PlaceOK
<1>7. Moves(Kernel, "fencing", proc[Kernel].on, proc[Kernel].res)
  BY <1>1, Kernels, GoMoves DEF Pcs
<1>8. /\ proc' \in [Procs -> Memory] /\ proc'[Kernel].pc = "fencing"
      /\ \A q \in Procs : q # Kernel => proc'[q].pc \in {"idle", "accepting", "closing"}
      /\ proc'[Canceller].pc = proc[Canceller].pc
  BY <1>6, <1>7, Bounds DEF Moves
<1>9. \A q \in Procs : PlaceOK(d, row, entry, proc'[q].pc, proc'[q].on, proc'[q].res)
  BY <1>4, <1>8 DEF PlaceOK, Ruling, Reading
<1>10. KernelOK(d, entry, "fencing")
  BY <1>2 DEF KernelOK, Accepting
<1>11. ClosedOK(d, run, entry, told, "fencing", proc[Canceller].pc)
  BY <1>2, Kernels DEF ClosedOK, Excused
<1>12. ProcsOK'
  BY <1>1, <1>8, <1>9, <1>10, <1>11 DEF ProcsOK, IInv
<1>13. TokenOK'
  <2>1. \A q \in Procs : proc'[q].pc \notin Out \cup Unsent
    BY <1>8 DEF Out, Unsent
  <2> QED BY <2>1 DEF TokenOK
<1>14. CountersOK'
  BY <1>1 DEF IInv, CountersOK
<1>15. Promised
  BY <1>1, <1>3, <1>4 DEF Promised
<1> QED BY <1>5, <1>12, <1>13, <1>14, <1>15 DEF IInv

LEMMA StepAcceptFence ==
    ASSUME IInv, AcceptFence
    PROVE  IInv' /\ Promised
<1>1. /\ proc[Kernel].pc = "fencing"
      /\ UNCHANGED <<call, fresh, row, rowFresh, run, entry, told, remote, room, age, events>>
  BY DEF AcceptFence, At, ledger, inbox, runVars, world
<1>2. call.st # "absent" /\ entry = "pending"
  BY <1>1, Kernels DEF PlaceOK, KernelOK, Accepting
<1>3. ASSUME NEW pc \in {"canceling", "accepted"}, Go(Kernel, pc),
             pc = "canceling" \/ run \notin {"canceling", "ended"}
      PROVE  IInv' /\ Promised
  <2>1. KernelOK(call, entry, pc)
    BY <1>2 DEF KernelOK, Accepting
  <2>2. ClosedOK(call, run, entry, told, pc, proc[Canceller].pc)
    BY <1>2, <1>3, Kernels DEF ClosedOK, Excused
  <2> QED BY <1>1, <1>2, <1>3, <2>1, <2>2, Kernels, KernelGoes
<1> QED BY <1>3 DEF AcceptFence, RunBlocks

LEMMA StepAcceptReplay ==
    ASSUME IInv, AcceptReplay \/ Reenter
    PROVE  IInv' /\ Promised
<1>1. /\ proc[Kernel].pc = "idle" /\ run = "running"
      /\ UNCHANGED <<call, fresh, row, rowFresh, run, entry, told, remote, room, age, events>>
  BY DEF AcceptReplay, Reenter, At, ledger, inbox, runVars, world
<1>2. ASSUME NEW pc \in {"accepted", "starting"}, Go(Kernel, pc), call.st # "absent",
             entry = IF pc = "accepted" THEN "pending" ELSE "accepted"
      PROVE  IInv' /\ Promised
  <2>1. KernelOK(call, entry, pc)
    BY <1>2 DEF KernelOK, Accepting
  <2>2. ClosedOK(call, run, entry, told, pc, proc[Canceller].pc)
    BY <1>1, <1>2, Kernels DEF ClosedOK
  <2> QED BY <1>1, <1>2, <2>1, <2>2, Kernels, KernelGoes
<1>3. CASE AcceptReplay
  BY <1>2, <1>3 DEF AcceptReplay
<1>4. CASE Reenter
  BY <1>2, <1>4, Kernels DEF Reenter, RunOK
<1> QED BY <1>3, <1>4

LEMMA StepCheckpointAcceptance ==
    ASSUME IInv, CheckpointAcceptance
    PROVE  IInv' /\ Promised
<1>1. /\ proc[Kernel].pc = "accepted" /\ entry = "pending"
      /\ UNCHANGED <<call, fresh, row, rowFresh, run, told, remote, room, age, events>>
  BY Kernels DEF CheckpointAcceptance, At, KernelOK, Accepting, ledger, inbox, world
<1>2. call.st # "absent"
  BY <1>1, Kernels DEF PlaceOK
<1>3. CASE run = "running" /\ Go(Kernel, "starting") /\ entry' = "accepted"
  <2>1. RunOK(call, run, "accepted", told) /\ KernelOK(call, "accepted", "starting")
    BY <1>1, <1>2, Kernels DEF RunOK, KernelOK, Accepting
  <2>2. ClosedOK(call, run, "accepted", told, "starting", proc[Canceller].pc)
    BY <1>2, <1>3, Kernels DEF ClosedOK
  <2> QED BY <1>1, <1>2, <1>3, <2>1, <2>2, KernelGoes
<1>4. CASE Stop(Kernel) /\ UNCHANGED entry
  <2>1. ClosedOK(call, run, entry, told, "idle", proc[Canceller].pc)
    BY <1>1, <1>2, Kernels DEF ClosedOK, Excused
  <2> QED BY <1>1, <1>4, <2>1, Kernels, KernelStops
<1> QED BY <1>3, <1>4 DEF CheckpointAcceptance

LEMMA StepCheckpoint ==
    ASSUME IInv, Checkpoint
    PROVE  IInv' /\ Promised
<1> DEFINE res == proc[Kernel].res
<1>1. /\ proc[Kernel].pc = "returning" /\ Stop(Kernel)
      /\ UNCHANGED <<call, fresh, row, rowFresh, remote, room, age, events>>
  BY DEF Checkpoint, At, ledger, inbox, world
<1>2. /\ entry = "accepted" /\ told = None /\ call.st # "absent"
      /\ res \in {None, "error", call.result}
  BY <1>1, Kernels DEF KernelOK, Accepting, RunOK, PlaceOK
<1>3. call.st \in LiveCallStates => run # "ended" /\ proc[Canceller].pc # "closing"
  BY <1>1, <1>2, Kernels DEF ClosedOK, Excused, None
<1>4. CASE UNCHANGED runVars
  <2>1. ClosedOK(call, run, entry, told, "idle", proc[Canceller].pc)
    BY <1>2, <1>3 DEF ClosedOK
  <2> QED BY <1>1, <1>4, <2>1, Kernels, KernelStops DEF runVars
<1>5. CASE run = "running" /\ entry' = "waiting" /\ run' = "suspended" /\ UNCHANGED told
  <2>1. RunOK(call, "suspended", "waiting", told)
    BY <1>2, Kernels DEF RunOK
  <2>2. ClosedOK(call, "suspended", "waiting", told, "idle", proc[Canceller].pc)
    BY <1>2, <1>3 DEF ClosedOK
  <2> QED BY <1>1, <1>2, <1>5, <2>1, <2>2, KernelStops
<1>6. CASE run = "running" /\ res # None /\ entry' = "terminal" /\ told' = res /\ UNCHANGED run
  <2>1. res \in {"error", call.result} /\ res # "refused"
    <3>1. call.result \in TerminalCallStates \cup {None}
      BY DEF IInv, StoreOK, CallOK
    <3> QED BY <1>2, <1>6, <3>1 DEF TerminalCallStates, None
  <2>2. RunOK(call, run, "terminal", res)
    BY <1>2, <1>6, <2>1, Kernels DEF RunOK, KernelFailures
  <2>3. ClosedOK(call, run, "terminal", res, "idle", proc[Canceller].pc)
    BY <1>2, <1>3 DEF ClosedOK
  <2> QED BY <1>1, <1>2, <1>6, <2>2, <2>3, KernelStops
<1>7. \/ UNCHANGED runVars
      \/ run = "running" /\ entry' = "waiting" /\ run' = "suspended" /\ UNCHANGED told
      \/ run = "running" /\ res # None /\ entry' = "terminal" /\ told' = res /\ UNCHANGED run
  BY DEF Checkpoint
<1> QED BY <1>4, <1>5, <1>6, <1>7

LEMMA StepKernel ==
    ASSUME IInv, KernelStep
    PROVE  IInv' /\ Promised
BY StepAcceptCheck, StepAcceptInsert, StepAcceptFence, StepAcceptReplay,
   StepCheckpointAcceptance, StepCheckpoint DEF KernelStep
-----------------------------------------------------------------------------
(* Cancellation                                                            *)

LEMMA Cancellers ==
    ASSUME IInv
    PROVE  /\ Canceller \in Procs
           /\ \A pc : Place(Kernel, Canceller, pc) = proc[Kernel].pc
           /\ \A pc : Place(Canceller, Canceller, pc) = pc
BY Bounds DEF Place

LEMMA StepCancelStart ==
    ASSUME IInv, CancelStart
    PROVE  IInv' /\ Promised
<1> DEFINE pc == IF call.st = "absent" THEN "closing" ELSE "canceling"
<1>1. /\ Go(Canceller, pc) /\ (run = "canceling" \/ call.st = "cancel_pending")
      /\ proc[Canceller].pc = "idle"
      /\ UNCHANGED <<call, fresh, row, rowFresh, run, entry, told, remote, room, age, events>>
  BY DEF CancelStart, At, ledger, inbox, runVars, world
<1>2. /\ pc \in Pcs /\ pc \notin Out \cup Unsent \cup Reading \cup Ruling
      /\ pc \notin {"claimed", "ready", "late", "inspecting", "returning"}
      /\ pc \in {"closing", "canceling"} /\ (pc = "closing" <=> call.st = "absent")
  BY DEF Pcs, Out, Unsent, Reading, Ruling
<1> HIDE DEF pc
<1>3. Moves(Canceller, pc, proc[Canceller].on, proc[Canceller].res)
  BY <1>1, <1>2, Cancellers, GoMoves
<1>4. PlaceOK(call, row, entry, pc, proc[Canceller].on, proc[Canceller].res)
  BY <1>2 DEF PlaceOK, Reading, Ruling
<1>5. ClosedOK(call, run, entry, told, proc[Kernel].pc, pc)
  BY <1>1, <1>2, Kernels, States DEF ClosedOK
<1> QED BY <1>1, <1>2, <1>3, <1>4, <1>5, Cancellers, Kernels, RunStep

\* A step of a canceler by which the call changes.
LEMMA CancelerStep ==
    ASSUME IInv, NEW x \in Cancelers, proc[x].pc \in {"canceling", "canceled"},
           NEW pc \in {"idle", "canceled", "closing"}, NEW on, NEW res, Moves(x, pc, on, res),
           UNCHANGED <<row, rowFresh, run, entry, told, remote, room, age, events>>,
           LedgerStep(x), x \notin fresh' \/ call' = call,
           call'.st \in Early => call.st \in Early,
           pc = "canceled" \/ call'.st \notin LiveCallStates \cup {"absent"},
           pc = "closing" => x = Canceller
    PROVE  IInv' /\ Promised
<1>1. x \in Procs /\ x \in {Canceller, Kernel}
  BY Kernels, Cancellers DEF Cancelers
<1>2. InboxStep /\ rowFresh' \in [Rows -> SUBSET Procs]
  BY DEF InboxStep, IInv, ProcsOK
<1>3. /\ StoreOK(call', row', run', entry', told', remote', room')
      /\ CallOnward(call, call') /\ RowsOnward(row, row')
  BY <1>1, <1>2, DocumentsKept
<1>4. /\ Single /\ CountersOK'
  BY DEF Single, IInv, CountersOK
<1>5. /\ call.st # "absent" /\ call'.st # "absent"
      /\ call'.st \in LiveCallStates => call.st \in LiveCallStates
  BY <1>1, <1>3, Known DEF PlaceOK, CallOnward
<1>6. Copies(x, pc) /\ Turns(x, pc)
  <2>1. pc \notin Out \cup Unsent /\ CopyOK(call', pc)
    BY DEF Out, Unsent, CopyOK
  <2>2. fresh \subseteq Procs
    BY DEF IInv, ProcsOK
  <2> QED BY <1>1, <2>1, <2>2 DEF Copies, Turns, LedgerStep
<1>7. PlaceOK(call', row', entry', pc, on, res)
  BY <1>5 DEF PlaceOK, Ruling, Reading
<1>8. /\ KernelOK(call', entry', Place(Kernel, x, pc))
      /\ ClosedOK(call', run', entry', told', Place(Kernel, x, pc), Place(Canceller, x, pc))
  <2>1. CASE x = Canceller
    <3>1. KernelOK(call', entry', proc[Kernel].pc)
      BY <1>5, Kernels DEF KernelOK
    <3>2. ClosedOK(call', run', entry', told', proc[Kernel].pc, pc)
      BY <1>5, Kernels DEF ClosedOK
    <3> QED BY <2>1, <3>1, <3>2, Cancellers
  <2>2. CASE x = Kernel
    <3>1. entry = "pending" /\ pc \in {"idle", "canceled"}
      BY <2>2, Kernels, Bounds DEF KernelOK, Accepting
    <3>2. KernelOK(call', entry', pc)
      BY <3>1 DEF KernelOK, Accepting
    <3>3. ClosedOK(call', run', entry', told', pc, proc[Canceller].pc)
      BY <1>5, <3>1, Kernels DEF ClosedOK, Excused
    <3> QED BY <2>2, <3>2, <3>3, Kernels
  <2> QED BY <1>1, <2>1, <2>2
<1> QED BY <1>1, <1>2, <1>3, <1>4, <1>6, <1>7, <1>8, ProcessStep

LEMMA StepCancelPending ==
    ASSUME IInv, NEW x \in Cancelers, CancelPending(x)
    PROVE  IInv' /\ Promised
<1>1. /\ x \in Procs /\ proc[x].pc = "canceling" /\ Go(x, "canceled")
      /\ UNCHANGED <<row, rowFresh, run, entry, told, remote, room, age, events>>
  BY Kernels, Cancellers DEF Cancelers, CancelPending, At, inbox, runVars, world
<1>2. Moves(x, "canceled", proc[x].on, proc[x].res)
  BY <1>1, GoMoves DEF Pcs
<1>3. CASE Live(call) /\ call.st # "cancel_pending" /\ Last([call EXCEPT !.st = "cancel_pending"])
  <2>1. /\ "cancel_pending" \in LiveCallStates /\ "cancel_pending" \in Closing
        /\ "cancel_pending" \notin Early
    BY DEF LiveCallStates, Closing, Early, UndispatchedStates
  <2>2. Moving(call, [call EXCEPT !.st = "cancel_pending"], remote)
    BY <1>3, <2>1, Untouched, Movements DEF Live
  <2>3. LedgerStep(x) /\ x \notin fresh' /\ call'.st = "cancel_pending"
    BY <1>1, <1>3, <2>2, Finishes, Untouched DEF Last, Calls
  <2> QED BY <1>1, <1>2, <2>1, <2>3, CancelerStep
<1>4. CASE Done(x)
  <2>1. LedgerStep(x) /\ call' = call
    BY <1>1, <1>4, Finishes
  <2> QED BY <1>1, <1>2, <2>1, CancelerStep
<1> QED BY <1>3, <1>4 DEF CancelPending

LEMMA StepCanceled ==
    ASSUME IInv, NEW x \in Cancelers, Canceled(x)
    PROVE  IInv' /\ Promised
<1>1. /\ x \in Procs /\ proc[x].pc = "canceled"
      /\ UNCHANGED <<row, rowFresh, run, entry, told, remote, room, age, events>>
  BY Kernels, Cancellers DEF Cancelers, Canceled, At, inbox, runVars, world
<1>2. /\ LedgerStep(x) /\ (x \notin fresh' \/ call' = call)
      /\ call'.st \notin LiveCallStates \cup {"absent"}
      /\ call'.st \in Early => call.st \in Early
  <2>1. CASE Live(call)
    <3> DEFINE d == [Moved(call, "canceled", TRUE) EXCEPT !.result = "canceled"]
    <3>1. Ending(call, d, row) /\ Last(d)
      BY <2>1, Cancels, Untouched DEF Canceled, Live
    <3>2. LedgerStep(x) /\ call' = d /\ fresh' = {}
      BY <1>1, <3>1, Finishes DEF Last
    <3> HIDE DEF d
    <3> QED BY <3>1, <3>2, States DEF Ending
  <2>2. CASE ~Live(call)
    <3>1. call' = call /\ LedgerStep(x)
      BY <2>2 DEF Canceled, ledger, LedgerStep
    <3>2. call.st # "absent"
      BY <1>1, Known DEF PlaceOK
    <3> QED BY <2>2, <3>1, <3>2 DEF Live
  <2> QED BY <2>1, <2>2
<1>3. CASE x = Kernel
  <2>1. Moves(x, "idle", "working", None)
    BY <1>1, <1>3, StopMoves DEF Canceled
  <2> QED BY <1>1, <1>2, <2>1, CancelerStep
<1>4. CASE x = Canceller
  <2>1. Moves(x, "closing", proc[x].on, proc[x].res)
    BY <1>1, <1>4, Bounds, GoMoves DEF Canceled, Pcs
  <2> QED BY <1>1, <1>2, <1>4, <2>1, CancelerStep
<1> QED BY <1>3, <1>4 DEF Cancelers

LEMMA StepCloseRun ==
    ASSUME IInv, CloseRun
    PROVE  IInv' /\ Promised
<1>1. /\ proc[Canceller].pc = "closing" /\ Stop(Canceller)
      /\ run' = IF run = "canceling" THEN "ended" ELSE run
      /\ UNCHANGED <<call, fresh, row, rowFresh, entry, told, remote, room, age, events>>
  BY DEF CloseRun, At, ledger, inbox, world
<1>2. Moves(Canceller, "idle", "working", None)
  BY <1>1, Cancellers, StopMoves
<1>3. PlaceOK(call, row, entry, "idle", "working", None)
  BY DEF PlaceOK, Reading, Ruling
<1>4. RunOK(call, run', entry, told)
  BY <1>1, Kernels DEF RunOK
<1>5. ClosedOK(call, run', entry, told, proc[Kernel].pc, "idle")
  BY <1>1, Kernels DEF ClosedOK
<1>6. "idle" \notin Out \cup Unsent \cup Reading
  BY DEF Out, Unsent, Reading
<1> QED BY <1>1, <1>2, <1>3, <1>4, <1>5, <1>6, Cancellers, Kernels, RunStep

LEMMA StepCancel ==
    ASSUME IInv, CancelStep
    PROVE  IInv' /\ Promised
BY StepCancelStart, StepCancelPending, StepCanceled, StepCloseRun DEF CancelStep
-----------------------------------------------------------------------------
(* The Run, the Agent, time and failures                                   *)

\* A step of no process: the call keeps its state.
LEMMA StillStep ==
    ASSUME IInv, proc' = proc,
           StoreOK(call', row', run', entry', told', remote', room'),
           RowsOnward(row, row'), call'.st = call.st, call'.result = call.result,
           UNCHANGED <<entry, told>>, remote'.got = remote.got,
           fresh' \subseteq fresh, rowFresh' \in [Rows -> SUBSET Procs], CountersOK',
           ClosedOK(call, run', entry, told, proc[Kernel].pc, proc[Canceller].pc)
    PROVE  IInv' /\ Promised
<1> DEFINE pc == proc[Kernel].pc
<1>1. Kernel \in Procs /\ Place(Kernel, Kernel, pc) = pc
      /\ Place(Canceller, Kernel, pc) = proc[Canceller].pc
  BY Kernels
<1>2. Moves(Kernel, pc, proc[Kernel].on, proc[Kernel].res)
  BY DEF Moves, IInv, ProcsOK
<1>3. CallOnward(call, call') /\ Single
  BY DEF CallOnward, Single
<1>4. Copies(Kernel, pc)
  BY <1>1, Known DEF Copies, CopyOK
<1>5. Turns(Kernel, pc)
  BY <1>1 DEF Turns, IInv, TokenOK
<1>6. PlaceOK(call', row', entry', pc, proc[Kernel].on, proc[Kernel].res)
  BY <1>1, <1>3, Known, PlaceKept
<1>7. KernelOK(call', entry', pc)
  BY Kernels DEF KernelOK
<1>8. ClosedOK(call', run', entry', told', pc, proc[Canceller].pc)
  BY DEF ClosedOK
<1> HIDE DEF pc
<1> QED BY <1>1, <1>2, <1>3, <1>4, <1>5, <1>6, <1>7, <1>8, ProcessStep

LEMMA StepRun ==
    ASSUME IInv, CancelRun \/ RunEnds \/ RunBusy \/ RunIdle
    PROVE  IInv' /\ Promised
<1>1. /\ UNCHANGED <<call, fresh, row, rowFresh, entry, told, proc, remote, room, age>>
      /\ Event \/ UNCHANGED events
  BY DEF CancelRun, RunEnds, RunBusy, RunIdle, ledger, inbox, world
<1>2. CountersOK' /\ rowFresh' \in [Rows -> SUBSET Procs] /\ RowsOnward(row, row')
  BY <1>1, CountersKept, Untouched DEF RowsOnward, inbox
<1>3. StoreOK(call, row, run, entry, told, remote, room) /\ room \in BOOLEAN
  BY DEF IInv, StoreOK
<1>4. /\ RunOK(call, run', entry, told) /\ run # "ended"
      /\ ClosedOK(call, run', entry, told, proc[Kernel].pc, proc[Canceller].pc)
  <2>1. CASE CancelRun
    BY <2>1, Kernels DEF CancelRun, RunOK, ClosedOK
  <2>2. CASE RunEnds
    <3>1. run = "running" /\ entry = "terminal" /\ run' = "ended"
      BY <2>2 DEF RunEnds
    <3>2. call.st \in LiveCallStates => told = "error"
      <4>1. call.st \in LiveCallStates => call.result = None /\ call.st # "absent"
        BY <1>3, States DEF StoreOK, CallOK
      <4> QED BY <3>1, <4>1, Kernels DEF RunOK, KernelFailures
    <3> QED BY <3>1, <3>2, Kernels DEF RunOK, ClosedOK, Excused
  <2>3. CASE RunBusy \/ RunIdle
    BY <2>3, Kernels DEF RunBusy, RunIdle, RunOK, ClosedOK
  <2> QED BY <2>1, <2>2, <2>3
<1>5. StoreOK(call, row, run', entry, told, remote, room)
  BY <1>3, <1>4, RunChanges
<1> QED BY <1>1, <1>2, <1>4, <1>5, StillStep

LEMMA StepAgentDone ==
    ASSUME IInv, AgentDone
    PROVE  IInv' /\ Promised
<1>1. /\ UNCHANGED <<call, fresh, row, rowFresh, run, entry, told, proc, room, age, events>>
      /\ remote.got > 0 /\ remote' = [remote EXCEPT !.done = TRUE]
  BY DEF AgentDone, ledger, inbox, runVars
<1>2. /\ remote' \in [got : 0 .. 2, done : BOOLEAN] /\ remote'.got = remote.got
      /\ remote.got = 1 /\ remote'.done
  <2>1. remote \in [got : 0 .. 2, done : BOOLEAN] /\ remote.got < 2
    BY Untouched DEF RemoteOK
  <2>2. remote.got \in 0 .. 2 /\ remote.got = 1
    BY <1>1, <2>1
  <2> QED BY <1>1, <2>1, <2>2
<1>3. StoreOK(call', row', run', entry', told', remote', room')
  <2>1. RemoteOK(call, remote')
    BY <1>2, Untouched DEF RemoteOK
  <2>2. RowsOK(call, row, remote')
    BY <1>2 DEF IInv, StoreOK, RowsOK
  <2> QED BY <1>1, <2>1, <2>2 DEF IInv, StoreOK
<1>4. CountersOK' /\ rowFresh' \in [Rows -> SUBSET Procs] /\ RowsOnward(row, row')
  BY <1>1 DEF RowsOnward, IInv, CountersOK, ProcsOK
<1> QED BY <1>1, <1>2, <1>3, <1>4, Kernels, StillStep

LEMMA StepPush ==
    ASSUME IInv, Push
    PROVE  IInv' /\ Promised
<1>1. /\ UNCHANGED <<run, entry, told, proc, remote, room, age>> /\ Event
      /\ remote.done /\ call.st \in LiveCallStates
  BY DEF Push, runVars, world, Live
<1>2. CountersOK' /\ call.st # "absent"
  BY <1>1, CountersKept, States
<1>3. CASE Record("polled") /\ UNCHANGED ledger
  <2>1. "polled" \in Rows /\ call' = call /\ fresh' = fresh
    BY <1>3 DEF Rows, ledger
  <2>2. InboxStep /\ rowFresh' = rowFresh /\ RowsOnward(row, row')
    BY <1>1, <1>2, <1>3, <2>1, Records
  <2>3. StoreOK(call', row', run', entry', told', remote', room')
    BY <1>1, <2>1, <2>2, Kernels, DocumentsKept DEF LedgerStep
  <2>4. rowFresh' \in [Rows -> SUBSET Procs]
    BY <2>2 DEF IInv, ProcsOK
  <2> QED BY <1>1, <1>2, <2>1, <2>2, <2>3, <2>4, Kernels, StillStep
<1>4. CASE call' = [call EXCEPT !.due = TRUE] /\ fresh' = {} /\ UNCHANGED inbox
  <2>1. Claiming(call, call')
    BY <1>4, Claims, Untouched
  <2>2. row' = row /\ rowFresh' \in [Rows -> SUBSET Procs] /\ InboxStep /\ RowsOnward(row, row')
    BY <1>4, Untouched DEF RowsOnward
  <2>3. StoreOK(call', row', run', entry', told', remote', room')
    BY <1>1, <1>4, <2>1, <2>2, Kernels, DocumentsKept DEF LedgerStep
  <2> QED BY <1>1, <1>2, <1>4, <2>1, <2>2, <2>3, Kernels, StillStep DEF Claiming
<1> QED BY <1>3, <1>4 DEF Push

LEMMA StepRoom ==
    ASSUME IInv, RoomDeleted \/ Grow
    PROVE  IInv' /\ Promised
<1>1. UNCHANGED <<call, fresh, row, rowFresh, run, entry, told, proc, remote>>
  BY DEF RoomDeleted, Grow, ledger, inbox, runVars
<1>2. rowFresh' \in [Rows -> SUBSET Procs] /\ RowsOnward(row, row')
  BY <1>1 DEF RowsOnward, IInv, ProcsOK
<1>3. StoreOK(call, row, run, entry, told, remote, room) /\ room \in BOOLEAN
  BY DEF IInv, StoreOK
<1>4. /\ room' \in BOOLEAN /\ (room' => room) /\ CountersOK'
  <2>1. CASE RoomDeleted
    BY <1>3, <2>1, CountersKept DEF RoomDeleted
  <2>2. CASE Grow
    BY <1>3, <2>2, Bounds DEF Grow, IInv, CountersOK
  <2> QED BY <2>1, <2>2
<1>5. StoreOK(call, row, run, entry, told, remote, room')
  BY <1>3, <1>4, Kernels, RunChanges
<1> QED BY <1>1, <1>2, <1>4, <1>5, Kernels, StillStep

\* A row keeps its state and its digest.
LEMMA RowsSame ==
    ASSUME NEW c, NEW rw, NEW rn, NEW en, NEW td, NEW rm, NEW ro, NEW rv \in [Rows -> InboxRows],
           StoreOK(c, rw, rn, en, td, rm, ro),
           \A o \in Rows : rv[o].st = rw[o].st /\ rv[o].digest = rw[o].digest
    PROVE  StoreOK(c, rv, rn, en, td, rm, ro) /\ RowsOnward(rw, rv)
<1>1. RowsOnward(rw, rv)
  BY DEF RowsOnward
<1>2. RowsOK(c, rv, rm)
  <2>1. {"answer", "polled"} \subseteq Rows
    BY DEF Rows
  <2> QED BY <2>1 DEF StoreOK, RowsOK
<1>3. EvidenceOK(c, rv) /\ SpentOK(c, rv, rn, en, ro)
  BY DEF StoreOK, EvidenceOK, SpentOK
<1> QED BY <1>1, <1>2, <1>3 DEF StoreOK

LEMMA StepTime ==
    ASSUME IInv, CallDue \/ CallLapses \/ \E o \in Rows : RowDue(o) \/ RowLapses(o)
    PROVE  IInv' /\ Promised
<1>1. /\ UNCHANGED <<fresh, rowFresh, run, entry, told, proc, remote, room, age>>
      /\ Event \/ UNCHANGED events
  BY DEF CallDue, CallLapses, RowDue, RowLapses, ledger, inbox, runVars, world
<1>2. CountersOK' /\ rowFresh' \in [Rows -> SUBSET Procs]
  BY <1>1, CountersKept DEF IInv, ProcsOK
<1>3. StoreOK(call, row, run, entry, told, remote, room)
  BY DEF IInv
<1>4. CASE CallDue \/ CallLapses
  <2>1. Claiming(call, call') /\ row' = row
    BY <1>4, Claims, Untouched DEF CallDue, CallLapses, inbox
  <2>2. StoreOK(call', row, run, entry, told, remote, room)
    BY <1>3, <2>1, CallClaims
  <2>3. RowsOnward(row, row')
    BY <2>1 DEF RowsOnward
  <2> QED BY <1>1, <1>2, <2>1, <2>2, <2>3, Kernels, StillStep DEF Claiming
<1>5. ASSUME NEW o \in Rows, RowDue(o) \/ RowLapses(o)
      PROVE  IInv' /\ Promised
  <2>1. call' = call /\ row \in [Rows -> InboxRows]
    BY <1>3, <1>5 DEF RowDue, RowLapses, ledger, StoreOK, RowsOK
  <2>2. PICK r \in InboxRows : row' = [row EXCEPT ![o] = r] /\ r.st = row[o].st
                               /\ r.digest = row[o].digest
    <3>1. CASE RowDue(o)
      <4> DEFINE r == [row[o] EXCEPT !.due = TRUE]
      <4>1. r \in InboxRows /\ r.st = row[o].st /\ r.digest = row[o].digest
        BY <2>1 DEF InboxRows
      <4>2. row' = [row EXCEPT ![o] = r]
        BY <2>1, <3>1 DEF RowDue
      <4> QED BY <4>1, <4>2
    <3>2. CASE RowLapses(o)
      <4> DEFINE r == [row[o] EXCEPT !.lease = FALSE]
      <4>1. r \in InboxRows /\ r.st = row[o].st /\ r.digest = row[o].digest
        BY <2>1 DEF InboxRows
      <4>2. row' = [row EXCEPT ![o] = r]
        BY <2>1, <3>2 DEF RowLapses
      <4> QED BY <4>1, <4>2
    <3> QED BY <1>5, <3>1, <3>2
  <2>3. /\ row' \in [Rows -> InboxRows]
        /\ \A q \in Rows : row'[q].st = row[q].st /\ row'[q].digest = row[q].digest
    BY <2>1, <2>2
  <2>4. StoreOK(call, row', run, entry, told, remote, room) /\ RowsOnward(row, row')
    BY <1>3, <2>3, RowsSame
  <2> QED BY <1>1, <1>2, <2>1, <2>4, Kernels, StillStep
<1> QED BY <1>4, <1>5

\* Whoever dies leaves no trace in the stores.
LEMMA StepCrash ==
    ASSUME IInv, NEW p \in Procs, Crash(p)
    PROVE  IInv' /\ Promised
<1>1. /\ UNCHANGED <<call, row, run, entry, told, remote, room, age>> /\ Event
      /\ Stop(p) /\ fresh' = fresh \ {p}
      /\ rowFresh' = [o \in Rows |-> rowFresh[o] \ {p}]
  BY DEF Crash, runVars, world
<1>2. Moves(p, "idle", "working", None)
  BY <1>1, StopMoves
<1>3. StoreOK(call', row', run', entry', told', remote', room')
  BY <1>1 DEF IInv, StoreOK
<1>4. CallOnward(call, call') /\ RowsOnward(row, row') /\ Single
  BY <1>1 DEF CallOnward, RowsOnward, Single
<1>5. Copies(p, "idle") /\ Turns(p, "idle")
  BY <1>1, Known DEF Copies, Turns, CopyOK, Out, Unsent
<1>6. rowFresh' \in [Rows -> SUBSET Procs] /\ CountersOK'
  BY <1>1, Known, CountersKept
<1>7. PlaceOK(call', row', entry', "idle", "working", None)
  BY DEF PlaceOK, Ruling, Reading
<1>8. KernelOK(call', entry', Place(Kernel, p, "idle"))
  BY <1>1, Kernels DEF KernelOK, Place, Accepting
<1>9. ClosedOK(call', run', entry', told', Place(Kernel, p, "idle"), Place(Canceller, p, "idle"))
  <2>1. Excused(entry, told, proc[Kernel].pc) => Excused(entry, told, Place(Kernel, p, "idle"))
    BY Kernels DEF Excused, KernelOK, Accepting, Place
  <2> QED BY <1>1, <2>1, Kernels DEF ClosedOK, Place
<1> QED BY <1>2, <1>3, <1>4, <1>5, <1>6, <1>7, <1>8, <1>9, ProcessStep

LEMMA StepWorld ==
    ASSUME IInv, WorldStep
    PROVE  IInv' /\ Promised
BY StepRun, StepAgentDone, StepPush, StepRoom, StepTime, StepCrash DEF WorldStep

LEMMA Step ==
    ASSUME IInv, [Next]_vars
    PROVE  IInv' /\ (Promised \/ UNCHANGED vars)
<1>1. CASE Next
  BY <1>1, StepKernel, StepExec, StepRec, StepProc, StepCancel, StepWorld DEF Next
<1>2. CASE UNCHANGED vars
  <2>1. IInv'
    BY <1>2 DEF vars, IInv, ProcsOK, TokenOK, CountersOK
  <2> QED BY <1>2, <2>1
<1> QED BY <1>1, <1>2
-----------------------------------------------------------------------------
(* Theorems                                                                *)

\* The variables of RemoteCall in terms of this module's.
LEMMA Initially == Init => IInv /\ Promise!Init
<1> SUFFICES ASSUME Init PROVE IInv /\ Promise!Init
  OBVIOUS
<1>1. /\ call = NoCall /\ row = [o \in Rows |-> NoRow] /\ fresh = {}
      /\ rowFresh = [o \in Rows |-> {}] /\ run = "running" /\ entry = "pending" /\ told = None
      /\ proc = [p \in Procs |-> Idle] /\ remote = [got |-> 0, done |-> FALSE]
      /\ age = 0 /\ room = TRUE /\ events = 0
  BY DEF Init
<1>2. 0 \in 0 .. MaxTransportAttempts /\ 0 \in 0 .. MaxInspections
  BY Bounds
<1>3. NoCall \in Calls /\ NoCall.st = "absent" /\ NoCall.result = None
  BY <1>2 DEF NoCall, Calls, Owners, None
<1>4. NoRow \in InboxRows /\ NoRow.st = "absent" /\ ~NoRow.digest
  BY <1>2 DEF NoRow, InboxRows, RowStates, Routes
<1>5. /\ Idle \in Memory /\ Idle.pc = "idle"
      /\ "idle" \notin Out \cup Unsent \cup Ruling \cup Reading \cup Accepting
  BY DEF Idle, Memory, Pcs, Rows, Out, Unsent, Ruling, Reading, Accepting
<1>6. StoreOK(call, row, run, entry, told, remote, room)
  <2>1. CallOK(call)
    BY <1>1, <1>3, States DEF CallOK, UndispatchedStates
  <2>2. RemoteOK(call, remote)
    BY <1>1 DEF RemoteOK
  <2>3. /\ RowsOK(call, row, remote) /\ EvidenceOK(call, row)
        /\ SpentOK(call, row, run, entry, room)
    BY <1>1, <1>3, <1>4, States DEF RowsOK, EvidenceOK, SpentOK, Rows
  <2>4. RunOK(call, run, entry, told)
    BY <1>1 DEF RunOK, None
  <2> QED BY <1>1, <2>1, <2>2, <2>3, <2>4 DEF StoreOK
<1>7. ProcsOK
  <2>1. \A p \in Procs : PlaceOK(call, row, entry, proc[p].pc, proc[p].on, proc[p].res)
    BY <1>1, <1>5 DEF PlaceOK
  <2>2. proc[Kernel].pc = "idle" /\ proc[Canceller].pc = "idle"
    BY <1>1, <1>5, Bounds
  <2>3. KernelOK(call, entry, "idle") /\ ClosedOK(call, run, entry, told, "idle", "idle")
    BY <1>1, <1>5 DEF KernelOK, ClosedOK
  <2> QED BY <1>1, <1>5, <2>1, <2>2, <2>3 DEF ProcsOK
<1>8. TokenOK
  BY <1>1, <1>5 DEF TokenOK
<1>9. CountersOK
  BY <1>1, Bounds DEF CountersOK
<1>10. Promise!Init
  BY <1>1, <1>3 DEF Promise!Init, Promise!Nothing, None
<1> QED BY <1>6, <1>7, <1>8, <1>9, <1>10 DEF IInv

LEMMA Invariance == Spec => []IInv
<1>1. IInv /\ [Next]_vars => IInv'
  BY Step
<1> QED BY <1>1, Initially, PTL DEF Spec

LEMMA Implied ==
    ASSUME IInv
    PROVE  TypeOK /\ WaitingRunHasEvidence /\ CanceledRunClosesItsCall
<1>1. StoreOK(call, row, run, entry, told, remote, room)
  BY DEF IInv
<1>2. TypeOK
  <2>1. told \in Results \cup KernelFailures \cup {None}
    BY <1>1 DEF StoreOK, RunOK, CallOK, Calls
  <2> QED BY <1>1, <2>1 DEF TypeOK, IInv, StoreOK, CallOK, RowsOK, RemoteOK, RunOK, ProcsOK,
                             CountersOK
<1>3. WaitingRunHasEvidence
  <2> SUFFICES ASSUME entry = "waiting", run # "ended", room, Terminal(call),
                      call.st # "canceled"
               PROVE  \E o \in Rows \ {"working"} :
                         Outcome(o) = call.result /\ row[o].st \notin {"absent", "completed"}
    BY DEF WaitingRunHasEvidence
  <2>1. PICK o \in Rows \ {"working"} : Outcome(o) = call.result /\ row[o].st # "absent"
    BY <1>1 DEF StoreOK, EvidenceOK, Terminal
  <2>2. call.st \notin Closing
    BY States DEF Terminal, Closing
  <2>3. ~Spent(call, run, entry, room, o)
    BY <2>1, <2>2 DEF Spent
  <2>4. row[o].st # "completed"
    BY <1>1, <2>3 DEF StoreOK, SpentOK
  <2> QED BY <2>1, <2>4
<1>4. CanceledRunClosesItsCall
  BY DEF IInv, ProcsOK, ClosedOK, Excused, CanceledRunClosesItsCall, Live
<1> QED BY <1>2, <1>3, <1>4

\* The documents and the memories of the processes stay within their types,
\* the Agent's count of messages and the bounds on attempts among them.
THEOREM TypeCorrect == Spec => []TypeOK
BY Invariance, Implied, PTL

\* The evidence of a verdict is in the inbox before the ledger takes it, and no
\* processor completes its row while the Run may wait for it.
THEOREM Evidence == Spec => []WaitingRunHasEvidence
BY Invariance, Implied, PTL

\* cancel_run and the acceptance fence leave no live call of a canceled Run to
\* run on, but for an orphan of a dead kernel and a call whose execution raised.
THEOREM Closed == Spec => []CanceledRunClosesItsCall
BY Invariance, Implied, PTL

\* However claims lapse and processes die, the Agent gets the message at most
\* once, the call takes one verdict, and the Run hears of it once.
THEOREM Refinement == Spec => ImplementsRemoteCall
<1>1. Promised => Promise!Next \/ UNCHANGED Promise!vars
  <2> SUFFICES ASSUME Promised PROVE Promise!Next \/ UNCHANGED Promise!vars
    OBVIOUS
  <2>1. CASE remote'.got = remote.got /\ call'.result = call.result /\ told' = told
    BY <2>1 DEF Promise!vars
  <2>2. CASE /\ remote.got = 0 /\ remote'.got = 1
             /\ call'.result = call.result /\ told' = told
    BY <2>2 DEF Promise!Next, Promise!Send
  <2>3. CASE /\ call.result = None /\ call'.result \in Results
             /\ call'.result = "completed" => remote.got = 1
             /\ remote'.got = remote.got /\ told' = told
    BY <2>3 DEF Promise!Next, Promise!Decide, Promise!Nothing, None
  <2>4. CASE /\ told = None /\ told' \in Results \cup KernelFailures
             /\ told' = call.result \/ told' \in KernelFailures
             /\ remote'.got = remote.got /\ call'.result = call.result
    BY <2>4 DEF Promise!Next, Promise!Tell, Promise!Nothing, None
  <2> QED BY <2>1, <2>2, <2>3, <2>4 DEF Promised
<1>2. IInv /\ [Next]_vars => [Promise!Next]_(Promise!vars)
  <2> SUFFICES ASSUME IInv, [Next]_vars PROVE Promise!Next \/ UNCHANGED Promise!vars
    OBVIOUS
  <2>1. Promised \/ UNCHANGED vars
    BY Step
  <2>2. UNCHANGED vars => UNCHANGED Promise!vars
    BY DEF vars, Promise!vars
  <2> QED BY <1>1, <2>1, <2>2
<1> QED BY <1>2, Initially, Invariance, PTL DEF Spec, ImplementsRemoteCall, Promise!Spec
=============================================================================
