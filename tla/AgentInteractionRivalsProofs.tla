-------------------- MODULE AgentInteractionRivalsProofs --------------------
(***************************************************************************)
(* Proof that an answer is repeated, and the attempts of its delivery pass *)
(* their limits, only after two coordinators were at work at once, for any *)
(* coordinators, recoverers and processors and any number of questions and *)
(* disturbances.                                                           *)
(*                                                                         *)
(* As long as no two coordinators have met, each one that works holds the  *)
(* invariant OnceInv of a coordinator at work alone, and hands it to the   *)
(* next one when it is idle again.                                         *)
(***************************************************************************)
EXTENDS AgentInteractionProofs, AgentInteractionRivals

\* Where a coordinator holds an answer that it has not sent, where it holds its
\* command, and where a process is about to attach the question it has applied.
Unsent    == Answering \cup Cleared \cup {"retrying"}
Commanded == {"delivering", "sending", "retrying"}
Attaching == {"attaching", "procAttaching"}

\* What the call says of the answers the Agent got: an answer that was sent
\* belongs to a question seen, and its command, if it is still there, is on
\* record as sent.  The attempts on record are within their limits.
SentOK(c, g) ==
    /\ \A i \in Rounds : g[i] <= 1 /\ (g[i] > 0 => i \in c.seen)
    /\ c.pend # 0 => c.pend \in c.seen
    /\ c.cmd # 0 => c.cmd \in c.seen
    /\ c.cmd # 0 /\ c.cst \in {None, "pending"} => g[c.cmd] = 0
    /\ c.cmd = 0 /\ c.pend # 0 => g[c.pend] = 0
    /\ c.tries <= MaxTries

\* The answer in hand was not sent, and its command is not on record before it is
\* stored nor as sent before it is delivered.
UnsentOK(c, g, pc, on) ==
    /\ pc \in Unsent => on \in c.seen /\ g[on] = 0
    /\ pc \in Commanded => c.cmd \in {0, on} /\ (c.cmd = 0 => c.pend # on)
    /\ pc = "commanding" => c.cmd = 0
    /\ pc = "delivering" => c.cst \in {None, "pending"}
    /\ pc = "sending" => (c.cmd # 0 => c.cst \notin {None, "pending"})

\* A question that is being applied is new, and nobody holds an answer to it; at
\* and in are where the coordinator is.
NewOK(c, g, pc, on, at, in) ==
    /\ pc \in Attaching => /\ c.cmd = 0 /\ on \in c.seen /\ g[on] = 0
                           /\ at \in Unsent => in # on
    /\ pc = "applying" /\ on # 0 => on \notin c.seen

OnceInv(s) ==
    /\ SentOK(call, agent.got)
    /\ \A p \in Procs : proc[p].pc \in Unsent => p = s
    /\ UnsentOK(call, agent.got, proc[s].pc, proc[s].on)
    /\ \A p \in fresh : NewOK(call, agent.got, proc[p].pc, proc[p].on, proc[s].pc, proc[s].on)
-----------------------------------------------------------------------------
(* A step of one process                                                   *)

LEMMA TriesBound ==
    /\ MaxTries \in Nat /\ MaxTransportAttempts <= MaxTries /\ MaxInspections <= MaxTries
BY Bounds DEF MaxTries

\* The ledger's part of a step of p.
Writes(p) ==
    \/ call' = call /\ fresh' \subseteq fresh \cup {p}
    \/ fresh' \subseteq {p}

LEMMA OneStep ==
    ASSUME IInv, NEW s \in Procs, OnceInv(s), NEW p \in Procs, NEW pc, NEW on, NEW out,
           Moves(p, pc, on, out), Writes(p), SentOK(call', agent'.got),
           pc \in Unsent => p = s,
           p = s => UnsentOK(call', agent'.got, pc, on),
           p # s => UnsentOK(call', agent'.got, proc[s].pc, proc[s].on),
           p \in fresh' => NewOK(call', agent'.got, pc, on, proc'[s].pc, proc'[s].on),
           \A x \in fresh \ {p} : call' = call =>
              NewOK(call, agent'.got, proc[x].pc, proc[x].on, proc'[s].pc, proc'[s].on)
    PROVE  OnceInv(s)'
<1>1. fresh \subseteq Procs
  BY DEF IInv
<1>2. UnsentOK(call', agent'.got, proc'[s].pc, proc'[s].on)
  BY DEF Moves
<1>3. \A q \in Procs : proc'[q].pc \in Unsent => q = s
  BY DEF Moves, OnceInv
<1>4. ASSUME NEW x \in fresh'
      PROVE  NewOK(call', agent'.got, proc'[x].pc, proc'[x].on, proc'[s].pc, proc'[s].on)
  <2>1. CASE x = p
    BY <2>1 DEF Moves
  <2>2. CASE x # p
    <3>1. x \in fresh /\ call' = call /\ x \in Procs
      BY <1>1, <1>4, <2>2 DEF Writes
    <3> QED BY <2>2, <3>1 DEF Moves
  <2> QED BY <2>1, <2>2
<1> QED BY <1>2, <1>3, <1>4 DEF OnceInv

\* A write that does not touch the round.
Alike(c, d) ==
    /\ d.cmd = c.cmd /\ d.cst = c.cst /\ d.pend = c.pend /\ d.seen = c.seen
    /\ d.tries = c.tries

LEMMA AlikeKept ==
    ASSUME NEW c, NEW d, NEW g, Alike(c, d)
    PROVE  /\ SentOK(c, g) => SentOK(d, g)
           /\ \A pc, on : UnsentOK(c, g, pc, on) => UnsentOK(d, g, pc, on)
           /\ \A pc, on, at, in : NewOK(c, g, pc, on, at, in) => NewOK(d, g, pc, on, at, in)
BY DEF Alike, SentOK, UnsentOK, NewOK

LEMMA AlikeWrites ==
    ASSUME call \in Calls
    PROVE  /\ Alike(call, call)
           /\ \A who : Alike(call, Claimed(call, who))
           /\ \A due : Alike(call, Released(call, due)) /\ Alike(call, [call EXCEPT !.due = due])
           /\ Alike(call, [call EXCEPT !.lease = FALSE])
           /\ \A i : Alike(call, [call EXCEPT !.applied = i])
           /\ \A v \in TerminalCallStates : Alike(call, Ended(call, v))
           /\ Alike(call, [call EXCEPT !.st = "cancel_pending"])
BY DEF Alike, Calls, Claimed, Released, Ended, TerminalCallStates

\* A place that says nothing.
Silent(pc) == pc \notin Unsent \cup Attaching \cup {"applying"}

LEMMA SilentPlace ==
    ASSUME NEW pc, Silent(pc)
    PROVE  /\ \A c, g, on : UnsentOK(c, g, pc, on)
           /\ \A c, g, on, at, in : NewOK(c, g, pc, on, at, in)
           /\ \A c, g, qc, on, at, in, m : NewOK(c, g, qc, on, at, in) => NewOK(c, g, qc, on, pc, m)
           /\ pc \notin Unsent
BY DEF Silent, UnsentOK, NewOK, Unsent, Cleared, Commanded

\* p goes to a place that says nothing, and the round stays as it is.
LEMMA SilentStep ==
    ASSUME IInv, NEW s \in Procs, OnceInv(s), NEW p \in Procs, NEW pc, NEW on, NEW out,
           Moves(p, pc, on, out), Silent(pc), Writes(p), Alike(call, call'), UNCHANGED agent
    PROVE  OnceInv(s)'
<1>1. SentOK(call', agent'.got)
  BY AlikeKept DEF OnceInv
<1>2. UnsentOK(call', agent'.got, proc[s].pc, proc[s].on)
  BY AlikeKept DEF OnceInv
<1>3. \A x \in fresh \ {p} : call' = call =>
         NewOK(call, agent'.got, proc[x].pc, proc[x].on, proc'[s].pc, proc'[s].on)
  BY SilentPlace DEF OnceInv, Moves
<1> QED BY <1>1, <1>2, <1>3, SilentPlace, OneStep

LEMMA SilentPcs ==
    /\ Silent("idle") /\ Silent("picked") /\ Silent("recovering") /\ Silent("inspecting")
    /\ Silent("contract") /\ Silent("uncertain") /\ Silent("accepting") /\ Silent("verdict")
    /\ Silent("finalizing") /\ Silent("parking") /\ Silent("activating") /\ Silent("superseding")
    /\ Silent("polling") /\ Silent("postponing") /\ Silent("procActivating")
    /\ Silent("telling") /\ Silent("canceling") /\ Silent("closing")
BY DEF Silent, Unsent, Answering, Cleared, Attaching

LEMMA WritesOf ==
    ASSUME NEW p
    PROVE  /\ Done(p) => Writes(p) /\ call' = call /\ p \notin fresh'
           /\ Read(p) => Writes(p) /\ call' = call
           /\ UNCHANGED ledger => Writes(p) /\ call' = call /\ fresh' = fresh
           /\ Reload(p) => Writes(p) /\ call' = call
           /\ \A c : Write(p, c) => Writes(p) /\ call' = c /\ fresh' = {p}
           /\ \A c : Last(c) => Writes(p) /\ call' = c /\ fresh' = {}
BY DEF Done, Read, ledger, Reload, Write, Last, Writes

LEMMA StopsOnce ==
    ASSUME IInv, NEW s \in Procs, OnceInv(s), NEW p \in Procs, Stop(p), Writes(p),
           Alike(call, call'), UNCHANGED agent
    PROVE  OnceInv(s)'
BY StopMoves, SilentStep, SilentPcs

LEMMA GivesUpOnce ==
    ASSUME IInv, NEW s \in Procs, OnceInv(s), NEW p \in Procs, UNCHANGED agent,
           GiveUp(p) \/ \E st : Raises(p, st)
    PROVE  OnceInv(s)'
<1>1. Stop(p) /\ Writes(p) /\ call' = call
  BY WritesOf DEF GiveUp, Raises
<1>2. Alike(call, call')
  BY <1>1 DEF Alike
<1> QED BY <1>1, <1>2, StopsOnce

LEMMA GoesOnce ==
    ASSUME IInv, NEW s \in Procs, OnceInv(s), NEW p \in Procs, NEW pc \in Pcs, Silent(pc), Go(p, pc),
           Writes(p), Alike(call, call'), UNCHANGED agent
    PROVE  OnceInv(s)'
BY GoMoves, SilentStep

LEMMA WithOnce ==
    ASSUME IInv, NEW s \in Procs, OnceInv(s), NEW p \in Procs, NEW pc \in Pcs, Silent(pc),
           NEW i \in 0 .. MaxRounds, NEW c \in Calls, With(p, pc, i, c),
           Writes(p), Alike(call, call'), UNCHANGED agent
    PROVE  OnceInv(s)'
BY WithMoves, SilentStep

LEMMA YieldsOnce ==
    ASSUME IInv, NEW s \in Procs, OnceInv(s), NEW p \in Procs, UNCHANGED agent,
           Yield(p) \/ Forestalled(p)
    PROVE  OnceInv(s)'
<1>1. CASE GiveUp(p)
  BY <1>1, GivesUpOnce
<1>2. CASE \E pc \in {"finalizing", "superseding"} : Go(p, pc) /\ (Read(p) \/ Done(p))
  <2>1. Writes(p) /\ Alike(call, call')
    BY <1>2, WritesOf DEF Alike
  <2> QED BY <1>2, <2>1, GoesOnce, SilentPcs, PlainPcs DEF Parkings
<1> QED BY <1>1, <1>2 DEF Yield, Forestalled
-----------------------------------------------------------------------------
(* The coordinator takes an answer up                                      *)

\* The coordinator goes on with the unsent answer it has.
LEMMA HoldsOn ==
    ASSUME IInv, NEW s \in Procs, OnceInv(s), proc[s].pc \in Unsent,
           NEW pc \in Unsent \ Commanded, pc = "commanding" => call.cmd = 0,
           NEW out, Moves(s, pc, proc[s].on, out), Writes(s),
           Alike(call, call'), UNCHANGED agent
    PROVE  OnceInv(s)'
<1> DEFINE i == proc[s].on
<1>1. SentOK(call', agent'.got)
  BY AlikeKept DEF OnceInv
<1>2. i \in call'.seen /\ agent'.got[i] = 0
  BY DEF Alike, OnceInv, UnsentOK
<1>3. UnsentOK(call', agent'.got, pc, i)
  BY <1>2 DEF UnsentOK, Commanded, Alike
<1>4. NewOK(call', agent'.got, pc, i, pc, i)
  BY DEF NewOK, Unsent, Answering, Cleared, Attaching
<1>5. proc'[s].pc = pc /\ proc'[s].on = i
  BY DEF Moves
<1>6. \A x \in fresh \ {s} : call' = call =>
         NewOK(call, agent'.got, proc[x].pc, proc[x].on, proc'[s].pc, proc'[s].on)
  BY <1>5 DEF OnceInv, NewOK
<1> QED BY <1>1, <1>3, <1>4, <1>5, <1>6, OneStep

\* It takes up an answer to the question the call is parked on.
LEMMA TakesUp ==
    ASSUME IInv, NEW s \in Procs, OnceInv(s), NEW pc \in Answering,
           NEW out, Moves(s, pc, call.pend, out), Writes(s), call' = call, UNCHANGED agent,
           call.st = "input_required"
    PROVE  OnceInv(s)'
<1> DEFINE i == call.pend
<1>1. i # 0 /\ call.cmd = 0
  BY DEF IInv, CallOK, Asking
<1>2. i \in call.seen /\ agent.got[i] = 0
  BY <1>1 DEF OnceInv, SentOK
<1>3. UnsentOK(call', agent'.got, pc, i) /\ NewOK(call', agent'.got, pc, i, pc, i)
  BY <1>2 DEF UnsentOK, NewOK, Answering, Commanded, Attaching
<1>4. ASSUME NEW x \in fresh \ {s}
      PROVE  NewOK(call, agent'.got, proc[x].pc, proc[x].on, proc'[s].pc, proc'[s].on)
  <2>1. proc[x].pc \notin Attaching
    BY DEF IInv, CopyOK, Attaching
  <2> QED BY <2>1 DEF OnceInv, NewOK
<1>5. SentOK(call', agent'.got)
  BY DEF OnceInv
<1>6. proc'[s].pc = pc /\ proc'[s].on = i
  BY DEF Moves
<1> QED BY <1>3, <1>4, <1>5, <1>6, OneStep

LEMMA SubmitOnce ==
    ASSUME IInv, NEW s \in Procs, OnceInv(s), Submit(s)
    PROVE  OnceInv(s)'
<1>1. PICK i \in Rounds :
        \/ Parked(call, i) /\ \E pc \in Answering : With(s, pc, i, call)
        \/ With(s, "finalizing", i, call) \/ With(s, "recovering", i, call)
  BY DEF Submit, Answering
<1>2. Writes(s) /\ call' = call /\ UNCHANGED agent /\ call \in Calls /\ i \in 0 .. MaxRounds
      /\ Alike(call, call')
  BY WritesOf, Bounds, InPlace DEF Submit, Alike
<1>3. CASE Parked(call, i) /\ \E pc \in Answering : With(s, pc, i, call)
  <2>1. PICK pc \in Answering : With(s, pc, i, call)
    BY <1>3
  <2>2. Moves(s, pc, i, None)
    BY <1>2, <2>1, WithMoves, PlainPcs
  <2> QED BY <1>2, <1>3, <2>2, TakesUp DEF Parked
<1> QED BY <1>1, <1>2, <1>3, WithOnce, SilentPcs, PlainPcs

LEMMA StoreOnce ==
    ASSUME IInv, NEW s \in Procs, OnceInv(s), Store(s)
    PROVE  OnceInv(s)'
<1>1. UNCHANGED agent /\ Writes(s) /\ call' = call /\ Alike(call, call') /\ proc[s].pc \in Unsent
  BY WritesOf DEF Store, Alike, At, Unsent, Answering
<1>2. CASE Go(s, "marking")
  <2>1. Moves(s, "marking", proc[s].on, proc[s].out)
    BY <1>2, GoMoves, PlainPcs DEF Answering
  <2> QED BY <1>1, <2>1, HoldsOn DEF Unsent, Answering, Commanded
<1> QED BY <1>1, <1>2, StopsOnce DEF Store

LEMMA MarkOnce ==
    ASSUME IInv, NEW s \in Procs, OnceInv(s), Mark(s)
    PROVE  OnceInv(s)'
<1> DEFINE i == proc[s].on
           marked == [call EXCEPT !.applied = i]
<1>1. /\ UNCHANGED agent /\ proc[s].pc \in Unsent /\ i \in 0 .. MaxRounds /\ call \in Calls
      /\ i # 0
  BY InPlace DEF Mark, At, Unsent, Answering, PlaceOK
<1>2. marked \in Calls /\ Alike(call, marked) /\ Alike(call, call)
  <2>1. CallOK(marked, surf)
    BY <1>1, Claims, InPlace
  <2> QED BY <1>1, <2>1, AlikeWrites DEF CallOK
<1> HIDE DEF marked
<1>3. \/ Write(s, marked) /\ With(s, "fencing", i, marked)
      \/ Read(s) /\ \E pc \in {"recovering", "fencing"} : With(s, pc, i, call)
      \/ GiveUp(s)
  BY DEF Mark, On, marked
<1>4. CASE Write(s, marked) /\ With(s, "fencing", i, marked)
  <2>1. Moves(s, "fencing", i, None)
    BY <1>1, <1>2, <1>4, WithMoves, PlainPcs DEF Answering
  <2> QED BY <1>1, <1>2, <1>4, <2>1, WritesOf, HoldsOn DEF Unsent, Answering, Commanded
<1>5. CASE Read(s) /\ With(s, "fencing", i, call)
  <2>1. Moves(s, "fencing", i, None)
    BY <1>1, <1>5, WithMoves, PlainPcs DEF Answering
  <2>2. Writes(s) /\ call' = call
    BY <1>5, WritesOf
  <2> QED BY <1>1, <1>2, <2>1, <2>2, HoldsOn DEF Unsent, Answering, Commanded
<1>6. CASE Read(s) /\ With(s, "recovering", i, call)
  <2>1. Writes(s) /\ call' = call
    BY <1>6, WritesOf
  <2> QED BY <1>1, <1>2, <1>6, <2>1, WithOnce, SilentPcs, PlainPcs
<1> QED BY <1>1, <1>3, <1>4, <1>5, <1>6, GivesUpOnce

LEMMA FenceOnce ==
    ASSUME IInv, NEW s \in Procs, OnceInv(s), Fence(s)
    PROVE  OnceInv(s)'
<1>1. UNCHANGED agent /\ Writes(s) /\ call' = call /\ Alike(call, call') /\ proc[s].pc \in Unsent
  BY WritesOf DEF Fence, Alike, At, Unsent, Answering
<1>2. CASE Go(s, "scheduling")
  <2>1. Moves(s, "scheduling", proc[s].on, proc[s].out)
    BY <1>2, GoMoves, PlainPcs DEF Cleared
  <2> QED BY <1>1, <2>1, HoldsOn DEF Unsent, Cleared, Commanded
<1> QED BY <1>1, <1>2, StopsOnce DEF Fence

LEMMA ScheduleOnce ==
    ASSUME IInv, NEW s \in Procs, OnceInv(s), Schedule(s)
    PROVE  OnceInv(s)'
<1>1. UNCHANGED agent /\ Writes(s) /\ Alike(call, call') /\ proc[s].pc \in Unsent
  <2>1. Writes(s) /\ (call' = call \/ call' = [call EXCEPT !.due = TRUE])
    BY WritesOf DEF Schedule
  <2>2. Alike(call, call')
    BY <2>1, AlikeWrites, InPlace
  <2> QED BY <2>1, <2>2 DEF Schedule, At, Unsent, Cleared
<1>2. Moves(s, "claiming", proc[s].on, proc[s].out)
  BY GoMoves, PlainPcs DEF Cleared, Schedule
<1> QED BY <1>1, <1>2, HoldsOn DEF Unsent, Cleared, Commanded

LEMMA ClaimOnce ==
    ASSUME IInv, NEW s \in Procs, OnceInv(s), Claim(s)
    PROVE  OnceInv(s)'
<1>1. UNCHANGED agent /\ Writes(s) /\ Alike(call, call') /\ proc[s].pc \in Unsent
  BY WritesOf, AlikeWrites, InPlace DEF Claim, At, Unsent, Cleared
<1>2. CASE Go(s, "authorizing")
  <2>1. Moves(s, "authorizing", proc[s].on, proc[s].out)
    BY <1>2, GoMoves, PlainPcs DEF Cleared
  <2> QED BY <1>1, <2>1, HoldsOn DEF Unsent, Cleared, Commanded
<1> QED BY <1>1, <1>2, StopsOnce DEF Claim

LEMMA AuthorizeOnce ==
    ASSUME IInv, NEW s \in Procs, OnceInv(s), Authorize(s)
    PROVE  OnceInv(s)'
<1> DEFINE c == Claimed(call, "continuation")
<1>1. UNCHANGED agent /\ call \in Calls /\ Alike(call, c) /\ proc[s].pc \in Unsent
  BY InPlace, AlikeWrites DEF Authorize, At, Unsent, Cleared
<1>2. CASE "resuming" \in Successors(call.st) /\ Write(s, c) /\ Go(s, "commanding")
  <2>1. call.cmd = 0
    BY <1>2, InPlace DEF CallOK, Asking, Successors, TerminalCallStates
  <2>2. Moves(s, "commanding", proc[s].on, proc[s].out)
    BY <1>2, GoMoves, PlainPcs DEF Cleared
  <2>3. Writes(s) /\ call' = c
    BY <1>2, WritesOf
  <2> QED BY <1>1, <2>1, <2>2, <2>3, HoldsOn DEF Unsent, Cleared, Commanded
<1> HIDE DEF c
<1>3. \/ "resuming" \in Successors(call.st) /\ Write(s, c) /\ Go(s, "commanding")
      \/ Yield(s) \/ Raises(s, "resuming")
  BY DEF Authorize, c
<1> QED BY <1>1, <1>2, <1>3, GivesUpOnce, YieldsOnce

\* Alone, the coordinator finds no other's command where it stores its own.
LEMMA ResumeOnce ==
    ASSUME IInv, NEW s \in Procs, OnceInv(s), Resume(s)
    PROVE  OnceInv(s)'
<1> DEFINE i == proc[s].on
           c == [call EXCEPT !.st = "resuming", !.cmd = i, !.cst = "pending", !.refresh = 0]
<1>1. UNCHANGED agent /\ i # 0 /\ call \in Calls /\ i \in call.seen /\ agent.got[i] = 0
      /\ call.cmd = 0
  BY InPlace DEF Resume, At, PlaceOK, Cleared, OnceInv, UnsentOK, Unsent
<1>2. CASE Write(s, c) /\ Go(s, "delivering")
  <2>1. /\ c.st = "resuming" /\ c.cmd = i /\ c.cst = "pending" /\ c.seen = call.seen
        /\ c.pend = call.pend /\ c.tries = call.tries
    BY <1>1 DEF Calls
  <2> HIDE DEF c
  <2>2. SentOK(c, agent.got)
    BY <1>1, <2>1 DEF OnceInv, SentOK
  <2>3. UnsentOK(c, agent.got, "delivering", i) /\ NewOK(c, agent.got, "delivering", i, "delivering", i)
    BY <1>1, <2>1 DEF UnsentOK, NewOK, Attaching
  <2>4. Moves(s, "delivering", i, proc[s].out) /\ proc'[s].pc = "delivering" /\ proc'[s].on = i
    <3>1. Moves(s, "delivering", i, proc[s].out)
      BY <1>2, GoMoves, PlainPcs DEF Cleared
    <3> QED BY <3>1 DEF Moves
  <2>5. call' = c /\ Writes(s) /\ fresh' = {s}
    BY <1>2, WritesOf
  <2>6. \A x \in fresh \ {s} : call' = call =>
           NewOK(call, agent'.got, proc[x].pc, proc[x].on, proc'[s].pc, proc'[s].on)
    <3>1. ASSUME NEW x \in fresh \ {s}, call' = call, proc[x].pc \in Attaching PROVE FALSE
      BY <1>1, <2>1, <2>5, <3>1 DEF OnceInv, NewOK
    <3> QED BY <1>1, <3>1 DEF OnceInv, NewOK
  <2> QED BY <1>1, <2>2, <2>3, <2>4, <2>5, <2>6, OneStep
<1> HIDE DEF c
<1>3. CASE Read(s) /\ Go(s, "finalizing")
  <2>1. Writes(s) /\ Alike(call, call')
    BY <1>3, WritesOf DEF Alike
  <2> QED BY <1>1, <1>3, <2>1, GoesOnce, SilentPcs, PlainPcs
<1>4. \/ Write(s, c) /\ Go(s, "delivering")
      \/ Read(s) /\ Go(s, "finalizing")
      \/ GiveUp(s)
  BY <1>1 DEF Resume, On, c
<1> QED BY <1>1, <1>2, <1>3, <1>4, GivesUpOnce

LEMMA DenyOnce ==
    ASSUME IInv, NEW s \in Procs, OnceInv(s), Deny(s)
    PROVE  OnceInv(s)'
<1>1. Writes(s) /\ Alike(call, call') /\ UNCHANGED agent /\ Go(s, "finalizing")
  BY WritesOf, AlikeWrites, InPlace DEF Deny, TerminalCallStates
<1> QED BY <1>1, GoesOnce, SilentPcs, PlainPcs

LEMMA DeferOnce ==
    ASSUME IInv, NEW s \in Procs, OnceInv(s), Defer(s)
    PROVE  OnceInv(s)'
<1>1. Writes(s) /\ UNCHANGED agent
  BY WritesOf DEF Defer
<1>2. Alike(call, call')
  <2>1. Alike(call, Ended(call, "failed"))
    BY AlikeWrites, InPlace DEF TerminalCallStates
  <2>2. Alike(call, [Released(call, FALSE) EXCEPT !.refresh = @ + 1])
    BY InPlace DEF Alike, Released, Calls
  <2> QED BY <2>1, <2>2, WritesOf DEF Defer
<1> QED BY <1>1, <1>2, GoesOnce, StopsOnce, SilentPcs, PlainPcs DEF Defer
-----------------------------------------------------------------------------
(* The continuation phase and _deliver                                     *)

LEMMA PickOnce ==
    ASSUME IInv, NEW s \in Procs, OnceInv(s), Pick(s)
    PROVE  OnceInv(s)'
<1>1. Writes(s) /\ call' = call /\ UNCHANGED agent /\ (Go(s, "picked") \/ Go(s, "recovering"))
  BY WritesOf DEF Pick
<1> QED BY <1>1, GoesOnce, SilentPcs, PlainPcs DEF Alike

LEMMA ReconcileOnce ==
    ASSUME IInv, NEW s \in Procs, OnceInv(s), Reconcile(s)
    PROVE  OnceInv(s)'
<1> DEFINE i == call.pend
<1>1. UNCHANGED agent /\ call \in Calls /\ i \in 0 .. MaxRounds /\ Alike(call, call)
  BY InPlace DEF Reconcile, Calls, Alike
<1>2. \/ Read(s) /\ (With(s, "finalizing", i, call) \/ With(s, "recovering", i, call))
      \/ /\ call.st = "input_required"
         /\ Read(s) /\ (With(s, "fencing", i, call) \/ With(s, "marking", i, call))
      \/ Done(s) /\ Stop(s)
  BY DEF Reconcile
<1>3. Writes(s) /\ call' = call
  BY <1>2, WritesOf
<1>4. CASE /\ call.st = "input_required"
           /\ With(s, "fencing", i, call) \/ With(s, "marking", i, call)
  <2>1. Moves(s, "fencing", i, None) \/ Moves(s, "marking", i, None)
    BY <1>1, <1>4, WithMoves, PlainPcs DEF Answering
  <2> QED BY <1>1, <1>3, <1>4, <2>1, TakesUp DEF Answering
<1> QED BY <1>1, <1>2, <1>3, <1>4, WithOnce, StopsOnce, SilentPcs, PlainPcs

LEMMA RecoverOnce ==
    ASSUME IInv, NEW s \in Procs, OnceInv(s), Recover(s)
    PROVE  OnceInv(s)'
<1> DEFINE c == Claimed(call, "continuation")
           i == call.cmd
<1>1. /\ UNCHANGED agent /\ call \in Calls /\ Alike(call, c) /\ Alike(call, call)
      /\ i \in 0 .. MaxRounds /\ SentOK(call, agent.got)
  BY InPlace, AlikeWrites DEF Recover, Calls, OnceInv
<1>2. CASE Read(s) /\ Go(s, "finalizing")
  <2>1. Writes(s) /\ call' = call
    BY <1>2, WritesOf
  <2> QED BY <1>1, <1>2, <2>1, GoesOnce, SilentPcs, PlainPcs
<1>3. CASE Done(s) /\ Stop(s)
  <2>1. Writes(s) /\ call' = call
    BY <1>3, WritesOf
  <2> QED BY <1>1, <1>3, <2>1, StopsOnce
<1>4. CASE Write(s, c) /\ With(s, "inspecting", i, call)
  <2>1. Writes(s) /\ call' = c
    BY <1>4, WritesOf
  <2> QED BY <1>1, <1>4, <2>1, WithOnce, SilentPcs, PlainPcs
<1>5. CASE i # 0 /\ ~Inspects(call) /\ Write(s, c) /\ With(s, "delivering", i, call)
  <2>1. i \in call.seen /\ agent.got[i] = 0 /\ call.cst \in {None, "pending"}
    BY <1>1, <1>5 DEF SentOK, Inspects, Calls, Continuations
  <2>2. Writes(s) /\ call' = c /\ fresh' = {s}
    BY <1>5, WritesOf
  <2>3. Moves(s, "delivering", i, None) /\ proc'[s].pc = "delivering" /\ proc'[s].on = i
    <3>1. Moves(s, "delivering", i, None)
      BY <1>1, <1>5, WithMoves, PlainPcs DEF Cleared
    <3> QED BY <3>1 DEF Moves
  <2>4. c.cmd = i /\ c.seen = call.seen /\ c.cst = call.cst
    BY <1>1 DEF Alike
  <2> HIDE DEF c
  <2>5. UnsentOK(c, agent.got, "delivering", i) /\ NewOK(c, agent.got, "delivering", i, "delivering", i)
    BY <1>5, <2>1, <2>4 DEF UnsentOK, NewOK, Attaching
  <2>6. SentOK(c, agent.got)
    BY <1>1, AlikeKept
  <2>7. \A x \in fresh \ {s} : call' = call =>
           NewOK(call, agent'.got, proc[x].pc, proc[x].on, proc'[s].pc, proc'[s].on)
    BY <1>1, <1>5 DEF OnceInv, NewOK
  <2> QED BY <1>1, <2>2, <2>3, <2>5, <2>6, <2>7, OneStep DEF Unsent, Cleared
<1> QED BY <1>2, <1>3, <1>4, <1>5 DEF Recover, Recoverable

LEMMA DeliverBlockedOnce ==
    ASSUME IInv, NEW s \in Procs, OnceInv(s), DeliverBlocked(s)
    PROVE  OnceInv(s)'
<1>1. Writes(s) /\ Alike(call, call') /\ UNCHANGED agent /\ Stop(s)
  <2>1. Writes(s) /\ (call' = call \/ call' = Released(call, TRUE))
    BY WritesOf DEF DeliverBlocked
  <2>2. Alike(call, call')
    BY <2>1, AlikeWrites, InPlace
  <2> QED BY <2>1, <2>2 DEF DeliverBlocked
<1> QED BY <1>1, StopsOnce

LEMMA AttemptOnce ==
    ASSUME IInv, NEW s \in Procs, OnceInv(s), Attempt(s)
    PROVE  OnceInv(s)'
<1> DEFINE i == proc[s].on
           c == [call EXCEPT !.cst = "dispatching", !.tries = @ + 1]
<1>1. /\ UNCHANGED agent /\ call \in Calls /\ UnsentOK(call, agent.got, proc[s].pc, i)
      /\ SentOK(call, agent.got) /\ proc[s].pc = "delivering"
  BY InPlace DEF Attempt, At, OnceInv
<1>2. CASE Write(s, c) /\ proc' = [proc EXCEPT ![s].pc = "sending", ![s].mark = call.applied]
  <2>1. /\ c.cmd = call.cmd /\ c.cst = "dispatching" /\ c.seen = call.seen
        /\ c.pend = call.pend /\ "dispatching" \notin {None, "pending"}
    BY <1>1 DEF Calls, None
  <2>7. c.tries <= MaxTries
    <3>1. call.tries < MaxTransportAttempts /\ call.tries \in Nat /\ c.tries = call.tries + 1
      BY <1>1, InPlace DEF UnsentOK, CallOK, Calls
    <3> QED BY <3>1, TriesBound, Bounds
  <2> HIDE DEF c
  <2>2. SentOK(c, agent.got)
    BY <1>1, <2>1, <2>7 DEF SentOK
  <2>3. UnsentOK(c, agent.got, "sending", i) /\ NewOK(c, agent.got, "sending", i, "sending", i)
    BY <1>1, <2>1 DEF UnsentOK, NewOK, Attaching, Unsent, Cleared, Commanded
  <2>4. Moves(s, "sending", i, proc[s].out) /\ proc'[s].pc = "sending" /\ proc'[s].on = i
    <3>1. Moves(s, "sending", i, proc[s].out)
      BY <1>2, SendingMoves
    <3> QED BY <3>1 DEF Moves
  <2>5. call' = c /\ Writes(s) /\ fresh' = {s}
    BY <1>2, WritesOf
  <2>6. \A x \in fresh \ {s} : call' = call =>
           NewOK(call, agent'.got, proc[x].pc, proc[x].on, proc'[s].pc, proc'[s].on)
    BY <1>1, <2>4 DEF OnceInv, NewOK, Unsent, Cleared
  <2> QED BY <1>1, <2>2, <2>3, <2>4, <2>5, <2>6, OneStep
<1> HIDE DEF c
<1>3. CASE Done(s) /\ Stop(s)
  <2>1. Writes(s) /\ Alike(call, call')
    BY <1>3, WritesOf DEF Alike
  <2> QED BY <1>1, <1>3, <2>1, StopsOnce
<1>4. \/ Write(s, c) /\ proc' = [proc EXCEPT ![s].pc = "sending", ![s].mark = call.applied]
      \/ Done(s) /\ Stop(s)
      \/ Yield(s)
  BY DEF Attempt, c
<1> QED BY <1>1, <1>2, <1>3, <1>4, YieldsOnce

\* What the Agent got, after it has heard the answer to question i.
LEMMA AgentHeard ==
    ASSUME IInv, NEW i \in Rounds, NEW a \in AgentMoves(Hearing(i))
    PROVE  /\ a.got[i] = agent.got[i] + 1
           /\ \A j \in Rounds : j # i => a.got[j] = agent.got[j]
<1>1. agent.got \in [Rounds -> Nat]
      /\ agent \in [asks : 0 .. MaxRounds, last : Rounds, got : [Rounds -> Nat], done : BOOLEAN]
  BY DEF IInv, AgentOK
<1> DEFINE g == [agent.got EXCEPT ![i] = @ + 1]
<1>2. g[i] = agent.got[i] + 1 /\ \A j \in Rounds : j # i => g[j] = agent.got[j]
  BY <1>1
<1>3. Hearing(i) = [agent EXCEPT !.got = g]
  BY <1>1 DEF Hearing
<1> HIDE DEF g
<1>4. a.got = g
  BY <1>1, <1>3 DEF AgentMoves
<1> QED BY <1>2, <1>4

\* The answer in hand is sent.
LEMMA SentOnceStep ==
    ASSUME IInv, NEW s \in Procs, OnceInv(s), proc[s].pc = "sending",
           NEW pc, NEW on, NEW out, Moves(s, pc, on, out), Silent(pc),
           Writes(s), call' = call,
           UNCHANGED agent \/ agent' \in AgentMoves(Hearing(proc[s].on))
    PROVE  OnceInv(s)'
<1> DEFINE i == proc[s].on
           g == agent.got
           h == agent'.got
<1>1. /\ i \in Rounds /\ i \in call.seen /\ g[i] = 0 /\ call.cmd \in {0, i}
      /\ (call.cmd = 0 => call.pend # i) /\ (call.cmd # 0 => call.cst \notin {None, "pending"})
  BY InPlace DEF OnceInv, UnsentOK, Unsent, Cleared, Commanded, PlaceOK
<1>2. h[i] \in {0, 1} /\ \A j \in Rounds : j # i => h[j] = g[j]
  BY <1>1, AgentHeard
<1> HIDE DEF g, h
<1>3. SentOK(call, h)
  <2>1. SentOK(call, g) /\ (call.pend # 0 => call.pend \in Rounds)
    BY Bounds, InPlace DEF OnceInv, Calls, g
  <2> QED BY <1>1, <1>2, <2>1 DEF SentOK
<1>4. ASSUME NEW x \in fresh \ {s}
      PROVE  NewOK(call, h, proc[x].pc, proc[x].on, proc'[s].pc, proc'[s].on)
  <2>1. NewOK(call, g, proc[x].pc, proc[x].on, proc[s].pc, proc[s].on)
    BY DEF OnceInv, g
  <2>2. proc'[s].pc \notin Unsent
    BY SilentPlace DEF Moves
  <2>3. x \in Procs /\ (proc[x].pc \in Attaching => proc[x].on \in Rounds)
    BY InPlace DEF PlaceOK, Parkings, Attaching
  <2>4. proc[x].pc \in Attaching => proc[x].on # i
    BY <2>1 DEF NewOK, Unsent, Cleared
  <2> QED BY <1>2, <2>1, <2>2, <2>3, <2>4 DEF NewOK
<1> QED BY <1>3, <1>4, SilentPlace, OneStep DEF h

LEMMA ReceivesOnce ==
    ASSUME IInv, NEW p \in Procs, NEW a, a.asks \in 0 .. MaxRounds, NEW k,
           Receipt(p, a, k) \/ RecordVerdict(p, "failed")
    PROVE  \E pc, on, out : Moves(p, pc, on, out) /\ Silent(pc)
<1>1. CASE \E v \in Verdicts : RecordVerdict(p, v)
  BY <1>1, RecordMoves, SilentPcs
<1>2. CASE a.asks # 0 /\ RecordQuestion(p, a.asks)
  BY <1>2, RecordMoves, SilentPcs
<1>3. CASE Go(p, "accepting")
  BY <1>3, GoMoves, SilentPcs, PlainPcs
<1> QED BY <1>1, <1>2, <1>3 DEF Receipt, Verdicts

LEMMA SendOnce ==
    ASSUME IInv, NEW s \in Procs, OnceInv(s), Send(s)
    PROVE  OnceInv(s)'
<1> DEFINE i == proc[s].on
<1>1. i \in Rounds /\ surf[i] = "shown" /\ proc[s].pc = "sending"
  BY InPlace DEF Send, At, PlaceOK, Cleared
<1>2. PICK a \in AgentMoves(Hearing(i)) : agent' = a /\ (Receipt(s, a, proc[s].mark) \/ RecordVerdict(s, "failed"))
  BY DEF Send, On
<1>3. a.asks \in 0 .. MaxRounds
  <2>1. AgentOK(a, surf)
    BY <1>1, <1>2, AgentHears, AgentGoesOn DEF IInv
  <2> QED BY <2>1 DEF AgentOK
<1>4. PICK pc, on, out : Moves(s, pc, on, out) /\ Silent(pc)
  BY <1>2, <1>3, ReceivesOnce
<1>5. Writes(s) /\ call' = call
  BY WritesOf DEF Send
<1> QED BY <1>1, <1>2, <1>4, <1>5, SentOnceStep

LEMMA SendLostOnce ==
    ASSUME IInv, NEW s \in Procs, OnceInv(s), SendLost(s)
    PROVE  OnceInv(s)'
<1> DEFINE i == proc[s].on
<1>1. Writes(s) /\ call' = call /\ proc[s].pc = "sending" /\ Moves(s, "uncertain", i, proc[s].out)
  BY WritesOf, GoMoves, PlainPcs DEF SendLost, At
<1>2. UNCHANGED agent \/ agent' \in AgentMoves(Hearing(i))
  BY DEF SendLost, On
<1> QED BY <1>1, <1>2, SentOnceStep, SilentPcs

LEMMA SendFailsOnce ==
    ASSUME IInv, NEW s \in Procs, OnceInv(s), SendFails(s)
    PROVE  OnceInv(s)'
<1> DEFINE i == proc[s].on
<1>1. Writes(s) /\ call' = call /\ Alike(call, call') /\ UNCHANGED agent /\ proc[s].pc = "sending"
  BY WritesOf DEF SendFails, Alike, At
<1>2. CASE Go(s, "contract")
  BY <1>1, <1>2, GoesOnce, SilentPcs, PlainPcs
<1>3. CASE Go(s, "retrying")
  <2>1. Moves(s, "retrying", i, proc[s].out) /\ proc'[s].pc = "retrying" /\ proc'[s].on = i
    <3>1. Moves(s, "retrying", i, proc[s].out)
      BY <1>3, GoMoves, PlainPcs
    <3> QED BY <3>1 DEF Moves
  <2>2. UnsentOK(call, agent.got, "retrying", i) /\ NewOK(call, agent.got, "retrying", i, "retrying", i)
    BY <1>1 DEF OnceInv, UnsentOK, NewOK, Unsent, Cleared, Commanded, Attaching
  <2>3. \A x \in fresh \ {s} :
           NewOK(call, agent'.got, proc[x].pc, proc[x].on, proc'[s].pc, proc'[s].on)
    BY <1>1, <2>1 DEF OnceInv, NewOK, Unsent, Cleared
  <2>4. SentOK(call', agent'.got)
    BY <1>1 DEF OnceInv
  <2> QED BY <1>1, <2>1, <2>2, <2>3, <2>4, OneStep
<1> QED BY <1>2, <1>3 DEF SendFails

\* The coordinator writes how far the command has come, and is done with it.
LEMMA ProgressStep ==
    ASSUME IInv, NEW s \in Procs, OnceInv(s), NEW pc, NEW on, NEW out, Moves(s, pc, on, out),
           Silent(pc), fresh' \subseteq {s}, UNCHANGED agent,
           NEW c, call' = c, c.cmd = call.cmd, c.pend = call.pend, c.seen = call.seen,
           c.tries <= MaxTries,
           c.cmd # 0 /\ c.cst \in {None, "pending"} => agent.got[c.cmd] = 0
    PROVE  OnceInv(s)'
<1>1. SentOK(call', agent'.got)
  BY DEF OnceInv, SentOK
<1>2. \A x \in fresh \ {s} : call' = call =>
         NewOK(call, agent'.got, proc[x].pc, proc[x].on, proc'[s].pc, proc'[s].on)
  BY SilentPlace DEF OnceInv, Moves
<1>3. Writes(s)
  BY DEF Writes
<1> QED BY <1>1, <1>2, <1>3, SilentPlace, OneStep

LEMMA InspectOnce ==
    ASSUME IInv, NEW s \in Procs, OnceInv(s), Inspect(s)
    PROVE  OnceInv(s)'
<1> DEFINE c == [call EXCEPT !.cst = "delivery_uncertain", !.tries = @ + 1]
<1>1. UNCHANGED agent /\ call \in Calls /\ agent.asks \in 0 .. MaxRounds
  BY InPlace DEF Inspect, IInv, AgentOK
<1>2. CASE RecordVerdict(s, "expired") /\ UNCHANGED ledger
  <2>1. Moves(s, "verdict", proc[s].on, "expired")
    BY <1>2, RecordMoves DEF Verdicts
  <2>2. Writes(s) /\ call' = call
    BY <1>2, WritesOf
  <2> QED BY <1>1, <2>1, <2>2, SilentStep, SilentPcs DEF Alike
<1>3. CASE /\ ~Exhausted(call) /\ Write(s, c)
           /\ Receipt(s, agent, call.applied) \/ Go(s, "uncertain") \/ Go(s, "contract")
  <2>1. \E pc, on, out : Moves(s, pc, on, out) /\ Silent(pc)
    BY <1>1, <1>3, ReceivesOnce, GoMoves, SilentPcs, PlainPcs
  <2>2. /\ c.cmd = call.cmd /\ c.cst = "delivery_uncertain" /\ c.seen = call.seen
        /\ c.pend = call.pend /\ "delivery_uncertain" \notin {None, "pending"}
    BY <1>1 DEF Calls, None
  <2>3. call' = c /\ fresh' = {s}
    BY <1>3, WritesOf
  <2>4. c.tries <= MaxTries
    <3>1. call.tries < MaxInspections /\ call.tries \in Nat /\ c.tries = call.tries + 1
      BY <1>1, <1>3, Bounds DEF Exhausted, Calls
    <3> QED BY <3>1, TriesBound, Bounds
  <2> HIDE DEF c
  <2> QED BY <1>1, <2>1, <2>2, <2>3, <2>4, ProgressStep
<1> HIDE DEF c
<1>4. \/ RecordVerdict(s, "expired") /\ UNCHANGED ledger
      \/ /\ ~Exhausted(call) /\ Write(s, c)
         /\ Receipt(s, agent, call.applied) \/ Go(s, "uncertain") \/ Go(s, "contract")
      \/ Yield(s)
  BY DEF Inspect, c
<1> QED BY <1>1, <1>2, <1>3, <1>4, YieldsOnce

LEMMA MarkUncertainOnce ==
    ASSUME IInv, NEW s \in Procs, OnceInv(s), MarkUncertain(s)
    PROVE  OnceInv(s)'
<1> DEFINE c == [Released(call, FALSE) EXCEPT
                   !.cst = "delivery_uncertain",
                   !.st = IF @ = "resuming" THEN "delivery_uncertain" ELSE @]
<1>1. UNCHANGED agent /\ call \in Calls
  BY InPlace DEF MarkUncertain
<1>2. CASE Last(c) /\ Stop(s)
  <2>1. /\ c.cmd = call.cmd /\ c.cst = "delivery_uncertain" /\ c.seen = call.seen
        /\ c.pend = call.pend /\ "delivery_uncertain" \notin {None, "pending"}
        /\ c.tries <= MaxTries
    BY <1>1 DEF Calls, Released, None, OnceInv, SentOK
  <2>2. call' = c /\ fresh' = {}
    BY <1>2, WritesOf
  <2> HIDE DEF c
  <2> QED BY <1>1, <1>2, <2>1, <2>2, StopMoves, ProgressStep, SilentPcs
<1> HIDE DEF c
<1>3. (Last(c) /\ Stop(s)) \/ Yield(s)
  BY DEF MarkUncertain, c
<1> QED BY <1>1, <1>2, <1>3, YieldsOnce

LEMMA FailsOnce ==
    ASSUME IInv, NEW s \in Procs, OnceInv(s), UNCHANGED agent,
           Fail(s) \/ Raises(s, "failed") \/ Yield(s)
    PROVE  OnceInv(s)'
<1>1. CASE Fail(s)
  <2>1. Writes(s) /\ Alike(call, call') /\ Go(s, "finalizing")
    BY <1>1, WritesOf, AlikeWrites, InPlace DEF Fail, TerminalCallStates
  <2> QED BY <2>1, GoesOnce, SilentPcs, PlainPcs
<1> QED BY <1>1, GivesUpOnce, YieldsOnce

LEMMA RetrySafeOnce ==
    ASSUME IInv, NEW s \in Procs, OnceInv(s), RetrySafe(s)
    PROVE  OnceInv(s)'
<1> DEFINE c == [Released(call, FALSE) EXCEPT !.cst = "pending"]
           i == proc[s].on
<1>1. UNCHANGED agent /\ call \in Calls /\ agent.got[i] = 0 /\ call.cmd \in {0, i}
  BY InPlace DEF RetrySafe, At, OnceInv, UnsentOK, Unsent, Commanded
<1>2. CASE Last(c) /\ Stop(s)
  <2>1. /\ c.cmd = call.cmd /\ c.seen = call.seen /\ c.pend = call.pend
        /\ c.tries <= MaxTries
    BY <1>1 DEF Calls, Released, OnceInv, SentOK
  <2>2. call' = c /\ fresh' = {}
    BY <1>2, WritesOf
  <2> HIDE DEF c
  <2> QED BY <1>1, <1>2, <2>1, <2>2, StopMoves, ProgressStep, SilentPcs
<1> HIDE DEF c
<1>3. (Last(c) /\ Stop(s)) \/ Fail(s) \/ Raises(s, "failed") \/ Yield(s)
  BY DEF RetrySafe, c
<1> QED BY <1>1, <1>2, <1>3, FailsOnce

LEMMA ContractOnce ==
    ASSUME IInv, NEW s \in Procs, OnceInv(s), Contract(s)
    PROVE  OnceInv(s)'
BY FailsOnce DEF Contract

LEMMA AcceptOnce ==
    ASSUME IInv, NEW s \in Procs, OnceInv(s), Accept(s)
    PROVE  OnceInv(s)'
<1> DEFINE c == [Released(call, FALSE) EXCEPT !.st = "working", !.cst = "accepted", !.tries = 0]
<1>1. UNCHANGED agent /\ call \in Calls
  BY InPlace DEF Accept
<1>2. CASE Last(c) /\ Stop(s)
  <2>1. /\ c.cmd = call.cmd /\ c.cst = "accepted" /\ c.seen = call.seen
        /\ c.pend = call.pend /\ "accepted" \notin {None, "pending"} /\ c.tries = 0
        /\ 0 <= MaxTries
    BY <1>1, TriesBound DEF Calls, Released, None
  <2>2. call' = c /\ fresh' = {}
    BY <1>2, WritesOf
  <2> HIDE DEF c
  <2> QED BY <1>1, <1>2, <2>1, <2>2, StopMoves, ProgressStep, SilentPcs
<1> HIDE DEF c
<1>3. (Last(c) /\ Stop(s)) \/ Yield(s)
  BY DEF Accept, c
<1> QED BY <1>1, <1>2, <1>3, YieldsOnce

LEMMA ConcludeOnce ==
    ASSUME IInv, NEW s \in Procs, OnceInv(s), NEW x \in Procs, Conclude(x)
    PROVE  OnceInv(s)'
<1> DEFINE v == proc[x].out
<1>1. UNCHANGED agent /\ Alike(call, call) /\ Alike(call, Ended(call, v))
  <2>1. v \in TerminalCallStates
    BY InPlace DEF Conclude, At, PlaceOK, Verdicts, TerminalCallStates
  <2> QED BY <2>1, AlikeWrites, InPlace DEF Conclude
<1>2. CASE Last(Ended(call, v)) /\ (Stop(x) \/ Go(x, "finalizing"))
  <2>1. Writes(x) /\ Alike(call, call')
    BY <1>1, <1>2, WritesOf
  <2> QED BY <1>1, <1>2, <2>1, StopsOnce, GoesOnce, SilentPcs, PlainPcs
<1>3. CASE UNCHANGED ledger /\ Go(x, "uncertain")
  <2>1. Writes(x) /\ Alike(call, call')
    BY <1>1, <1>3, WritesOf
  <2> QED BY <1>1, <1>3, <2>1, GoesOnce, SilentPcs, PlainPcs
<1> QED BY <1>1, <1>2, <1>3, YieldsOnce DEF Conclude

LEMMA FinalizeOnce ==
    ASSUME IInv, NEW s \in Procs, OnceInv(s), Finalize(s)
    PROVE  OnceInv(s)'
BY StopsOnce, WritesOf, AlikeWrites, InPlace DEF Finalize
-----------------------------------------------------------------------------
(* New questions                                                           *)

\* A question that was not seen before starts a new round.
LEMMA AskStep ==
    ASSUME IInv, NEW s \in Procs, OnceInv(s), NEW p \in Procs, NEW pc \in Attaching, NEW i \in Rounds,
           NEW out, Moves(p, pc, i, out), i \notin call.seen, NEW c, call' = c, fresh' \subseteq {p},
           c.cmd = 0, c.cst = None, c.tries = 0, c.pend = 0, c.seen = call.seen \cup {i},
           UNCHANGED agent
    PROVE  OnceInv(s)'
<1>1. pc \notin Unsent /\ pc # "applying" /\ pc \notin Commanded
  BY DEF Attaching, Unsent, Answering, Cleared, Commanded
<1>2. agent.got \in [Rounds -> Nat]
  BY DEF IInv, AgentOK
<1>3. SentOK(c, agent.got) /\ agent.got[i] = 0
  BY <1>2, TriesBound DEF OnceInv, SentOK
<1>4. 0 \notin Rounds
  BY Bounds
<1>5. call.seen \subseteq Rounds
  BY InPlace DEF Calls
<1>6. UnsentOK(c, agent.got, proc[s].pc, proc[s].on)
  <2>1. UnsentOK(call, agent.got, proc[s].pc, proc[s].on)
    BY DEF OnceInv
  <2>2. proc[s].pc \in Commanded => proc[s].on # 0
    BY <1>4, <1>5, <2>1 DEF UnsentOK, Unsent, Cleared, Commanded
  <2> QED BY <2>1, <2>2 DEF UnsentOK
<1>7. proc'[s].pc \in Unsent => proc'[s].on # i
  BY <1>1 DEF OnceInv, UnsentOK, Moves
<1>8. UnsentOK(c, agent.got, pc, i) /\ NewOK(c, agent.got, pc, i, proc'[s].pc, proc'[s].on)
  BY <1>1, <1>3, <1>7 DEF UnsentOK, NewOK, Commanded
<1>9. call' # call /\ Writes(p)
  BY DEF Writes
<1> QED BY <1>1, <1>3, <1>6, <1>8, <1>9, OneStep

LEMMA ParkOnce ==
    ASSUME IInv, NEW s \in Procs, OnceInv(s), NEW x \in Procs, Park(x)
    PROVE  OnceInv(s)'
<1> DEFINE i == proc[x].on
           c == Released(Asked(call, i), TRUE)
<1>1. i \in Rounds /\ UNCHANGED agent /\ call \in Calls
  BY InPlace DEF Park, At, PlaceOK, Parkings
<1>2. CASE i \notin call.seen /\ Write(x, c) /\ Go(x, "attaching")
  <2>1. /\ c.cmd = 0 /\ c.cst = None /\ c.tries = 0 /\ c.pend = 0
        /\ c.seen = call.seen \cup {i}
    BY <1>1 DEF Calls, Asked, Released
  <2>2. call' = c /\ fresh' = {x}
    BY <1>2, WritesOf
  <2>3. Moves(x, "attaching", i, proc[x].out)
    BY <1>2, GoMoves, PlainPcs DEF Parkings
  <2> HIDE DEF c
  <2> QED BY <1>1, <1>2, <2>1, <2>2, <2>3, AskStep DEF Attaching
<1>3. CASE Stop(x) /\ Done(x)
  <2>1. Writes(x) /\ Alike(call, call')
    BY <1>3, WritesOf DEF Alike
  <2> QED BY <1>1, <1>3, <2>1, StopsOnce
<1> HIDE DEF c
<1>4. \/ i \notin call.seen /\ Write(x, c) /\ Go(x, "attaching")
      \/ Stop(x) /\ Done(x)
      \/ Yield(x) \/ Forestalled(x)
  BY DEF Park, On, c
<1> QED BY <1>1, <1>2, <1>3, <1>4, YieldsOnce

\* The call is attached to the question that was applied to it.
LEMMA AttachOnce ==
    ASSUME IInv, NEW s \in Procs, OnceInv(s), NEW x \in Procs, proc[x].pc \in Attaching, x \in fresh,
           NEW pc \in Pcs, Silent(pc), Go(x, pc), Write(x, Attached(call, proc[x].on)),
           UNCHANGED agent
    PROVE  OnceInv(s)'
<1> DEFINE i == proc[x].on
           c == Attached(call, i)
<1>1. NewOK(call, agent.got, proc[x].pc, i, proc[s].pc, proc[s].on)
  BY DEF OnceInv
<1>2. /\ c.cmd = call.cmd /\ c.pend = i /\ c.seen = call.seen /\ c.cst = call.cst
      /\ c.tries = call.tries
  BY InPlace DEF Attached, Calls
<1>3. call' = c /\ fresh' = {x} /\ Writes(x)
  BY WritesOf
<1> HIDE DEF c
<1>4. SentOK(c, agent.got)
  BY <1>1, <1>2 DEF OnceInv, SentOK, NewOK
<1>5. UnsentOK(c, agent.got, proc[s].pc, proc[s].on)
  BY <1>1, <1>2 DEF OnceInv, UnsentOK, NewOK, Unsent, Cleared, Commanded
<1>6. Moves(x, pc, i, proc[x].out)
  BY GoMoves
<1>7. \A y \in fresh \ {x} : call' = call =>
         NewOK(call, agent'.got, proc[y].pc, proc[y].on, proc'[s].pc, proc'[s].on)
  BY <1>6, SilentPlace DEF OnceInv, Moves
<1> QED BY <1>3, <1>4, <1>5, <1>6, <1>7, SilentPlace, OneStep

LEMMA ParkAttachOnce ==
    ASSUME IInv, NEW s \in Procs, OnceInv(s), NEW x \in Procs, ParkAttach(x)
    PROVE  OnceInv(s)'
<1>1. proc[x].pc \in Attaching /\ UNCHANGED agent /\ "activating" \in Pcs
  BY PlainPcs DEF ParkAttach, At, Attaching, Parkings
<1>2. CASE x \in fresh /\ Write(x, Attached(call, On(x))) /\ Go(x, "activating")
  BY <1>1, <1>2, AttachOnce, SilentPcs DEF On
<1> QED BY <1>1, <1>2, YieldsOnce DEF ParkAttach

LEMMA ParkActivateOnce ==
    ASSUME IInv, NEW s \in Procs, OnceInv(s), NEW x \in Procs, ParkActivate(x)
    PROVE  OnceInv(s)'
<1>1. Writes(x) /\ Alike(call, call') /\ UNCHANGED agent /\ "superseding" \in Pcs
  BY WritesOf, PlainPcs DEF ParkActivate, Alike, Parkings
<1> QED BY <1>1, StopsOnce, GoesOnce, SilentPcs DEF ParkActivate

LEMMA SupersedeOnce ==
    ASSUME IInv, NEW s \in Procs, OnceInv(s), Supersede(s)
    PROVE  OnceInv(s)'
<1>1. Writes(s) /\ Alike(call, call') /\ UNCHANGED agent /\ Stop(s)
  BY WritesOf DEF Supersede, Alike
<1> QED BY <1>1, StopsOnce
-----------------------------------------------------------------------------
(* Call recovery and the processors                                        *)

LEMMA RecoveryOnce ==
    ASSUME IInv, NEW s \in Procs, OnceInv(s), NEW r \in Procs, Recovery(r)
    PROVE  OnceInv(s)'
<1>1. Alike(call, call) /\ Alike(call, Claimed(call, "recovery")) /\ Alike(call, Released(call, FALSE))
      /\ UNCHANGED agent /\ agent.asks \in 0 .. MaxRounds
  BY AlikeWrites, InPlace DEF Recovery, PollClaim, Postpone, Poll, IInv, AgentOK
<1>2. CASE PollClaim(r)
  <2>1. Writes(r) /\ Alike(call, call') /\ (Go(r, "polling") \/ Go(r, "postponing"))
    BY <1>1, <1>2, WritesOf DEF PollClaim
  <2> QED BY <1>1, <2>1, GoesOnce, SilentPcs, PlainPcs
<1>3. CASE Postpone(r)
  <2>1. Writes(r) /\ Alike(call, call') /\ Stop(r)
    <3>1. Last(Released(call, FALSE)) \/ Done(r)
      BY <1>3 DEF Postpone
    <3>2. Writes(r) /\ (call' = call \/ call' = Released(call, FALSE))
      BY <3>1, WritesOf
    <3>3. Alike(call, call')
      BY <1>1, <3>2
    <3> QED BY <1>3, <3>2, <3>3 DEF Postpone
  <2> QED BY <1>1, <2>1, StopsOnce
<1>4. CASE Poll(r)
  <2>1. Writes(r) /\ Alike(call, call')
    BY <1>1, <1>4, WritesOf DEF Poll
  <2>2. \/ Go(r, "postponing") \/ RecordVerdict(r, "expired") \/ RecordVerdict(r, "completed")
        \/ agent.asks # 0 /\ RecordQuestion(r, agent.asks)
    BY <1>4 DEF Poll
  <2>3. \E pc, on, out : Moves(r, pc, on, out) /\ Silent(pc)
    BY <1>1, <2>2, RecordMoves, GoMoves, SilentPcs, PlainPcs DEF Verdicts
  <2> QED BY <1>1, <2>1, <2>3, SilentStep
<1> QED BY <1>2, <1>3, <1>4 DEF Recovery

\* A step that leaves the ledger, the processes and the Agent alone.
LEMMA AsideOnce ==
    ASSUME NEW s \in Procs, OnceInv(s), UNCHANGED <<call, fresh, proc>>,
           agent'.got = agent.got
    PROVE  OnceInv(s)'
BY DEF OnceInv

LEMMA TookOnce ==
    ASSUME IInv, NEW s \in Procs, OnceInv(s), NEW p \in Procs, NEW pc \in Pcs,
           NEW i \in 0 .. MaxRounds, NEW v \in Verdicts \cup {None}, Took(p, pc, i, v),
           Silent(pc) \/ (pc = "applying" /\ (i # 0 => i \notin call.seen)), UNCHANGED agent
    PROVE  OnceInv(s)'
<1>1. Moves(p, pc, i, v) /\ Writes(p) /\ call' = call
  BY TookMoves, WritesOf DEF Took
<1>2. CASE Silent(pc)
  BY <1>1, <1>2, SilentStep DEF Alike
<1>3. CASE pc = "applying" /\ (i # 0 => i \notin call.seen)
  <2>1. pc \notin Unsent /\ UnsentOK(call, agent.got, pc, i)
        /\ \A at, in : NewOK(call, agent.got, pc, i, at, in)
    BY <1>3 DEF UnsentOK, NewOK, Unsent, Answering, Cleared, Commanded, Attaching
  <2>2. \A x \in fresh \ {p} :
           NewOK(call, agent.got, proc[x].pc, proc[x].on, proc'[s].pc, proc'[s].on)
    BY <1>1, <2>1 DEF OnceInv, NewOK, Moves
  <2>3. SentOK(call, agent.got) /\ UnsentOK(call, agent.got, proc[s].pc, proc[s].on)
    BY DEF OnceInv
  <2> QED BY <1>1, <2>1, <2>2, <2>3, OneStep
<1> QED BY <1>2, <1>3

LEMMA ObserveOnce ==
    ASSUME IInv, NEW s \in Procs, OnceInv(s), NEW p \in Procs, ObserveQuestion(p) \/ ObserveVerdict(p)
    PROVE  OnceInv(s)'
<1>1. UNCHANGED agent /\ "applying" \in Pcs /\ "telling" \in Pcs /\ "procActivating" \in Pcs
      /\ 0 \in 0 .. MaxRounds /\ \A i \in Rounds : i \in 0 .. MaxRounds
  BY PlainPcs, Bounds DEF ObserveQuestion, ObserveVerdict, Parkings
<1>2. CASE ObserveQuestion(p)
  <2>1. PICK i \in Rounds :
          \/ UNCHANGED <<ledger, proc>>
          \/ Took(p, "procActivating", i, None)
          \/ i \notin call.seen /\ Took(p, "applying", i, None)
    BY <1>2 DEF ObserveQuestion
  <2>2. CASE UNCHANGED <<ledger, proc>>
    BY <1>1, <2>2, AsideOnce DEF ledger
  <2> QED BY <1>1, <2>1, <2>2, TookOnce, SilentPcs
<1>3. CASE ObserveVerdict(p)
  <2>1. PICK v \in Verdicts :
          \/ UNCHANGED <<ledger, proc>>
          \/ Took(p, "telling", 0, v) \/ Took(p, "applying", 0, v)
    BY <1>3 DEF ObserveVerdict
  <2>2. CASE UNCHANGED <<ledger, proc>>
    BY <1>1, <2>2, AsideOnce DEF ledger
  <2> QED BY <1>1, <2>1, <2>2, TookOnce, SilentPcs
<1> QED BY <1>2, <1>3

LEMMA ProcApplyOnce ==
    ASSUME IInv, NEW s \in Procs, OnceInv(s), NEW p \in Procs, ProcApply(p)
    PROVE  OnceInv(s)'
<1> DEFINE i == proc[p].on
           v == proc[p].out
           c == Asked(call, i)
<1>1. /\ UNCHANGED agent /\ call \in Calls /\ (i # 0 => i \in Rounds) /\ (i = 0 => v \in Verdicts)
      /\ "telling" \in Pcs /\ "procAttaching" \in Pcs
      /\ (p \in fresh /\ i # 0 => i \notin call.seen)
  BY InPlace, PlainPcs DEF ProcApply, At, PlaceOK, OnceInv, NewOK, Parkings
<1>2. CASE p \in fresh /\ i # 0 /\ Write(p, c) /\ Go(p, "procAttaching")
  <2>1. /\ c.cmd = 0 /\ c.cst = None /\ c.tries = 0 /\ c.pend = 0
        /\ c.seen = call.seen \cup {i}
    BY <1>1 DEF Calls, Asked
  <2>2. call' = c /\ fresh' = {p}
    BY <1>2, WritesOf
  <2>3. Moves(p, "procAttaching", i, v)
    BY <1>1, <1>2, GoMoves
  <2> HIDE DEF c
  <2> QED BY <1>1, <1>2, <2>1, <2>2, <2>3, AskStep DEF Attaching
<1>3. CASE i = 0 /\ Go(p, "telling") /\ (Last(Ended(call, v)) \/ Done(p))
  <2>1. v \in TerminalCallStates
    BY <1>1, <1>3 DEF Verdicts, TerminalCallStates
  <2>2. Writes(p) /\ (call' = call \/ call' = Ended(call, v))
    BY <1>3, WritesOf
  <2>3. Alike(call, call')
    BY <1>1, <2>1, <2>2, AlikeWrites
  <2> QED BY <1>1, <1>3, <2>2, <2>3, GoesOnce, SilentPcs
<1> HIDE DEF c
<1>4. \/ p \in fresh /\ i # 0 /\ Write(p, c) /\ Go(p, "procAttaching")
      \/ i = 0 /\ Go(p, "telling") /\ (Last(Ended(call, v)) \/ Done(p))
      \/ GiveUp(p)
  BY DEF ProcApply, On, c
<1> QED BY <1>1, <1>2, <1>3, <1>4, GivesUpOnce

LEMMA ProcAttachOnce ==
    ASSUME IInv, NEW s \in Procs, OnceInv(s), NEW p \in Procs, ProcAttach(p)
    PROVE  OnceInv(s)'
<1>1. proc[p].pc \in Attaching /\ UNCHANGED agent /\ "procActivating" \in Pcs
  BY PlainPcs DEF ProcAttach, At, Attaching, Parkings
<1>2. CASE p \in fresh /\ Write(p, Attached(call, On(p))) /\ Go(p, "procActivating")
  BY <1>1, <1>2, AttachOnce, SilentPcs DEF On
<1> QED BY <1>1, <1>2, GivesUpOnce DEF ProcAttach

LEMMA ProcEndsOnce ==
    ASSUME IInv, NEW s \in Procs, OnceInv(s), NEW p \in Procs, ProcActivate(p) \/ Tell(p)
    PROVE  OnceInv(s)'
<1>1. Writes(p) /\ Alike(call, call') /\ UNCHANGED agent /\ (Stop(p) \/ Go(p, "telling"))
  BY WritesOf DEF ProcActivate, Tell, Alike
<1> QED BY <1>1, StopsOnce, GoesOnce, SilentPcs, PlainPcs
-----------------------------------------------------------------------------
(* The rest, and the theorem                                               *)

LEMMA CancellingOnce ==
    ASSUME IInv, NEW s \in Procs, OnceInv(s), NEW x \in Procs, Cancelling(x)
    PROVE  OnceInv(s)'
<1>1. Alike(call, call) /\ Alike(call, [call EXCEPT !.st = "cancel_pending"])
      /\ Alike(call, Ended(call, "canceled"))
  BY AlikeWrites, InPlace DEF TerminalCallStates
<1>2. UNCHANGED agent /\ (Stop(x) \/ Go(x, "canceling") \/ Go(x, "closing"))
  BY DEF Cancelling, CancelBegin, CancelCall, CancelEnd
<1>3. \/ UNCHANGED ledger \/ Last([call EXCEPT !.st = "cancel_pending"])
      \/ Last(Ended(call, "canceled"))
  BY DEF Cancelling, CancelBegin, CancelCall, CancelEnd
<1>4. Writes(x) /\ Alike(call, call')
  BY <1>1, <1>3, WritesOf
<1> QED BY <1>2, <1>4, StopsOnce, GoesOnce, SilentPcs, PlainPcs

LEMMA AgentWorksOnce ==
    ASSUME IInv, NEW s \in Procs, OnceInv(s), AgentWorks
    PROVE  OnceInv(s)'
<1>1. agent'.got = agent.got
  BY DEF AgentWorks, AgentMoves, IInv, AgentOK
<1> QED BY <1>1, AsideOnce DEF AgentWorks, ledger

\* Time passes.
LEMMA TimeOnce ==
    ASSUME IInv, NEW s \in Procs, OnceInv(s), Lapse \/ Due
    PROVE  OnceInv(s)'
<1>1. Alike(call, call') /\ UNCHANGED <<fresh, agent>>
  <2>1. \/ call' = [call EXCEPT !.lease = FALSE]
        \/ call' = [call EXCEPT !.due = TRUE]
    BY DEF Lapse, Due
  <2>2. Alike(call, call')
    BY <2>1, AlikeWrites, InPlace
  <2> QED BY <2>2 DEF Lapse, Due, runVars
<1>2. \A q \in Procs : proc'[q].pc = proc[q].pc /\ proc'[q].on = proc[q].on
  <2>1. \A q \in Procs : proc[q] \in Memory
    BY DEF IInv
  <2>2. \A m \in Memory : /\ [m EXCEPT !.soon = FALSE].pc = m.pc
                          /\ [m EXCEPT !.soon = FALSE].on = m.on
    BY DEF Memory
  <2>3. UNCHANGED proc \/ proc' = [q \in Procs |-> [proc[q] EXCEPT !.soon = FALSE]]
    BY DEF Lapse, Due
  <2> QED BY <2>1, <2>2, <2>3
<1>3. fresh \subseteq Procs
  BY DEF IInv
<1>4. /\ SentOK(call', agent.got)
      /\ UnsentOK(call', agent.got, proc[s].pc, proc[s].on)
      /\ \A p \in fresh :
            NewOK(call', agent.got, proc[p].pc, proc[p].on, proc[s].pc, proc[s].on)
  BY <1>1, AlikeKept DEF OnceInv
<1> QED BY <1>1, <1>2, <1>3, <1>4 DEF OnceInv

LEMMA CrashOnce ==
    ASSUME IInv, NEW s \in Procs, OnceInv(s), NEW x \in Procs, Crash(x)
    PROVE  OnceInv(s)'
<1>1. Writes(x) /\ Alike(call, call') /\ UNCHANGED agent /\ Stop(x)
  BY WritesOf DEF Crash, Alike
<1> QED BY <1>1, StopsOnce

LEMMA OnceStarts ==
    ASSUME Init, NEW s \in Procs
    PROVE  OnceInv(s)
<1>1. \A p \in Procs : proc[p].pc = "idle"
  BY DEF Init, Idle
<1>2. SentOK(call, agent.got)
  <2>1. /\ call.pend = 1 /\ call.cmd = 0 /\ call.seen = {1} /\ call.tries = 0
        /\ \A i \in Rounds : agent.got[i] = 0
    BY DEF Init
  <2> QED BY <2>1, Bounds, TriesBound DEF SentOK
<1> QED BY <1>1, <1>2, SilentPcs, SilentPlace DEF OnceInv, Init
-----------------------------------------------------------------------------
(* Coordinators that follow one another                                    *)

\* No other coordinator is at work.
Alone(s) == \A q \in Coordinators \ {s} : At(q, "idle")

\* While no two coordinators have met, the one that works is as one alone.
ApartInv == ~Together /\ \A s \in Coordinators : Alone(s) => OnceInv(s)

\* Of an idle coordinator OnceInv says what it says of any other that is idle.
LEMMA Handover ==
    ASSUME NEW s, NEW t, OnceInv(t)', At(s, "idle")', At(t, "idle")'
    PROVE  OnceInv(s)'
<1>1. \A p \in Procs : proc'[p].pc \notin Unsent
  BY SilentPcs, SilentPlace DEF OnceInv, At
<1>2. UnsentOK(call', agent'.got, proc'[s].pc, proc'[s].on)
  BY SilentPcs, SilentPlace DEF At
<1>3. \A p \in fresh' :
         NewOK(call', agent'.got, proc'[p].pc, proc'[p].on, proc'[s].pc, proc'[s].on)
  BY SilentPcs, SilentPlace DEF OnceInv, At
<1> QED BY <1>1, <1>2, <1>3 DEF OnceInv

\* A step of p leaves all others where they are.
Turn(p) == \A q \in Procs : q # p => proc'[q].pc = proc[q].pc

\* A step of p is that of a coordinator that is alone before and after it, p
\* itself if p is a coordinator at work.
LEMMA OneAtWork ==
    ASSUME NEW p, Turn(p), ~Together, ~Together'
    PROVE  \E t \in Coordinators :
              /\ Alone(t) /\ Alone(t)'
              /\ p \in Coordinators /\ (~At(p, "idle") \/ ~At(p, "idle")') => t = p
<1>1. /\ \A q, r \in Coordinators : q # r => At(q, "idle") \/ At(r, "idle")
      /\ \A q, r \in Coordinators : q # r => At(q, "idle")' \/ At(r, "idle")'
  BY DEF Together
<1>2. \A q \in Coordinators : q # p => (At(q, "idle") <=> At(q, "idle")')
  BY DEF Turn, At, Procs
<1>3. CASE p \in Coordinators /\ (~At(p, "idle") \/ ~At(p, "idle")')
  BY <1>1, <1>2, <1>3 DEF Alone
<1>4. CASE ~(p \in Coordinators /\ (~At(p, "idle") \/ ~At(p, "idle")'))
  <2>1. \A q \in Coordinators : At(q, "idle") <=> At(q, "idle")'
    BY <1>2, <1>4
  <2>2. PICK t \in Coordinators : \A q \in Coordinators \ {t} : At(q, "idle")
    BY <1>1, RivalsAssumption
  <2> QED BY <1>4, <2>1, <2>2 DEF Alone
<1> QED BY <1>3, <1>4

\* The coordinator that is alone hands what it keeps to all others.
LEMMA KeptApart ==
    ASSUME ~Together', NEW t \in Coordinators, Alone(t)', OnceInv(t)'
    PROVE  ApartInv'
<1>1. ASSUME NEW s \in Coordinators, Alone(s)', s # t PROVE OnceInv(s)'
  <2>1. At(s, "idle")' /\ At(t, "idle")'
    BY <1>1 DEF Alone
  <2> QED BY <2>1, Handover
<1> QED BY <1>1 DEF ApartInv
-----------------------------------------------------------------------------
(* Who takes a step                                                        *)

LEMMA Turns ==
    ASSUME IInv, NEW p
    PROVE  /\ \A pc : Go(p, pc) => Turn(p)
           /\ \A pc, i, c : With(p, pc, i, c) => Turn(p)
           /\ \A pc, i, v : Took(p, pc, i, v) => Turn(p)
           /\ Stop(p) => Turn(p)
           /\ \A i : RecordQuestion(p, i) => Turn(p)
           /\ \A v : RecordVerdict(p, v) => Turn(p)
           /\ UNCHANGED proc => Turn(p)
<1>1. proc \in [Procs -> Memory]
  BY DEF IInv
<1>2. ASSUME NEW m, proc' = [proc EXCEPT ![p] = m] PROVE Turn(p)
  BY <1>1, <1>2 DEF Turn
<1> QED BY <1>2 DEF Turn, Go, With, Took, Stop, RecordQuestion, RecordVerdict

\* What a coordinator does in _deliver and the answer's request is its own turn, and
\* it is at work before or after it.
LEMMA CoordinatorTurn ==
    ASSUME IInv, NEW q \in Coordinators, Submit(q) \/ Coordinate(q) \/ Disturb(q)
    PROVE  Turn(q) /\ (~At(q, "idle") \/ ~At(q, "idle")')
<1>1. q \in Procs /\ proc \in [Procs -> Memory]
  BY DEF IInv, Procs
<1>2. CASE Submit(q)
  <2>1. PICK i \in Rounds, pc \in {"storing", "finalizing", "recovering", "fencing", "marking"} :
          With(q, pc, i, call)
    BY <1>2 DEF Submit
  <2>2. ~At(q, "idle")'
    BY <1>1, <2>1 DEF With, At
  <2> QED BY <2>1, <2>2, Turns
<1>3. CASE Pick(q)
  <2>1. Go(q, "picked") \/ Go(q, "recovering")
    BY <1>3 DEF Pick
  <2>2. ~At(q, "idle")'
    BY <1>1, <2>1, GoMoves, PlainPcs DEF Moves, At
  <2> QED BY <2>1, <2>2, Turns
<1>4. CASE Store(q) \/ Mark(q) \/ Fence(q) \/ Schedule(q) \/ Claim(q) \/ Authorize(q)
           \/ Resume(q) \/ Reconcile(q) \/ Recover(q)
  <2>1. ~At(q, "idle")
    BY <1>4 DEF At, Store, Mark, Fence, Schedule, Claim, Authorize, Resume, Reconcile, Recover
  <2>2. (\E pc : Go(q, pc)) \/ (\E pc, i, c : With(q, pc, i, c)) \/ Stop(q)
    BY <1>4 DEF Store, Mark, Fence, Schedule, Claim, Authorize, Resume, Reconcile, Recover,
                Yield, GiveUp, Raises
  <2> QED BY <2>1, <2>2, Turns
<1>5. CASE DeliverBlocked(q) \/ MarkUncertain(q) \/ RetrySafe(q) \/ Contract(q) \/ Accept(q)
           \/ Finalize(q) \/ Supersede(q) \/ Disturb(q)
  <2>1. ~At(q, "idle")
    BY <1>5 DEF At, DeliverBlocked, MarkUncertain, RetrySafe, Contract, Accept, Finalize,
                Supersede, Disturb, Deny, Defer, SendLost, SendFails
  <2>2. (\E pc : Go(q, pc)) \/ Stop(q)
    BY <1>5 DEF DeliverBlocked, MarkUncertain, RetrySafe, Contract, Accept, Finalize,
                Supersede, Disturb, Deny, Defer, SendLost, SendFails, Fail, Yield, GiveUp, Raises
  <2> QED BY <2>1, <2>2, Turns
<1>6. CASE Attempt(q)
  <2>1. ~At(q, "idle")
    BY <1>6 DEF At, Attempt
  <2>2. \/ proc' = [proc EXCEPT ![q].pc = "sending", ![q].mark = call.applied]
        \/ (\E pc : Go(q, pc)) \/ Stop(q)
    BY <1>6 DEF Attempt, Yield, GiveUp
  <2>3. CASE proc' = [proc EXCEPT ![q].pc = "sending", ![q].mark = call.applied]
    <3>1. Moves(q, "sending", proc[q].on, proc[q].out)
      BY <1>1, <2>3, SendingMoves
    <3> QED BY <2>1, <3>1 DEF Moves, Turn
  <2> QED BY <2>1, <2>2, <2>3, Turns
<1>7. CASE Send(q) \/ Inspect(q)
  <2>1. ~At(q, "idle")
    BY <1>7 DEF At, Send, Inspect
  <2>2. \/ \E i : RecordQuestion(q, i)
        \/ \E v : RecordVerdict(q, v)
        \/ \E pc : Go(q, pc)
        \/ Stop(q)
    BY <1>7 DEF Send, Inspect, Receipt, Yield, GiveUp
  <2> QED BY <2>1, <2>2, Turns
<1> QED BY <1>2, <1>3, <1>4, <1>5, <1>6, <1>7 DEF Coordinate, Disturb

\* So is what any process does.
LEMMA OthersTurn ==
    ASSUME IInv, NEW x,
           Parking(x) \/ Recovery(x) \/ Processing(x) \/ Cancelling(x) \/ Crash(x)
    PROVE  Turn(x)
<1>1. CASE Parking(x)
  <2>1. (\E pc : Go(x, pc)) \/ Stop(x)
    BY <1>1 DEF Parking, Park, ParkAttach, ParkActivate, Conclude, Forestalled, Yield, GiveUp
  <2> QED BY <2>1, Turns
<1>2. CASE Recovery(x)
  <2>1. \/ \E i : RecordQuestion(x, i)
        \/ \E v : RecordVerdict(x, v)
        \/ \E pc : Go(x, pc)
        \/ Stop(x)
    BY <1>2 DEF Recovery, PollClaim, Postpone, Poll
  <2> QED BY <2>1, Turns
<1>3. CASE Processing(x)
  <2>1. \/ UNCHANGED proc
        \/ \E pc, i, v : Took(x, pc, i, v)
        \/ \E pc : Go(x, pc)
        \/ Stop(x)
    BY <1>3 DEF Processing, ObserveQuestion, ObserveVerdict, ProcApply, ProcAttach,
                ProcActivate, Tell, GiveUp
  <2> QED BY <2>1, Turns
<1>4. CASE Cancelling(x) \/ Crash(x)
  <2>1. (\E pc : Go(x, pc)) \/ Stop(x)
    BY <1>4 DEF Cancelling, CancelBegin, CancelCall, CancelEnd, Crash
  <2> QED BY <2>1, Turns
<1> QED BY <1>1, <1>2, <1>3, <1>4
-----------------------------------------------------------------------------
(* The theorem                                                             *)

LEMMA ApartStarts ==
    ASSUME Init
    PROVE  ApartInv
<1>1. \A p \in Procs : At(p, "idle")
  BY DEF Init, Idle, At
<1>2. ~Together
  BY <1>1 DEF Together, Procs
<1> QED BY <1>2, OnceStarts DEF ApartInv, Procs

LEMMA ApartSteps ==
    ASSUME IInv, ApartInv, [Next]_vars, ~Together'
    PROVE  ApartInv'
<1>1. /\ Coordinators \subseteq Procs /\ Recoverers \subseteq Procs /\ Processors \subseteq Procs
      /\ Cancellers \subseteq Procs
  BY DEF Procs
<1>2. ~Together /\ \A s \in Coordinators : Alone(s) => OnceInv(s)
  BY DEF ApartInv
<1>3. ASSUME NEW q \in Coordinators, Submit(q) \/ Coordinate(q) \/ Disturb(q) PROVE ApartInv'
  <2>1. Alone(q) /\ Alone(q)'
    BY <1>2, <1>3, CoordinatorTurn, OneAtWork
  <2>2. OnceInv(q) /\ q \in Procs
    BY <1>1, <1>2, <2>1
  <2>3. OnceInv(q)'
    BY <1>3, <2>2, SubmitOnce, StoreOnce, MarkOnce, FenceOnce, ScheduleOnce, ClaimOnce,
       AuthorizeOnce, ResumeOnce, PickOnce, ReconcileOnce, RecoverOnce, DeliverBlockedOnce,
       AttemptOnce, SendOnce, InspectOnce, MarkUncertainOnce, RetrySafeOnce, ContractOnce,
       AcceptOnce, FinalizeOnce, SupersedeOnce, DenyOnce, DeferOnce, SendLostOnce, SendFailsOnce
       DEF Coordinate, Disturb
  <2> QED BY <2>1, <2>3, KeptApart
<1>4. ASSUME NEW x \in Procs,
             Parking(x) \/ Recovery(x) \/ Processing(x) \/ Cancelling(x) \/ Crash(x)
      PROVE  ApartInv'
  <2>1. PICK t \in Coordinators : Alone(t) /\ Alone(t)'
    BY <1>2, <1>4, OthersTurn, OneAtWork
  <2>2. OnceInv(t) /\ t \in Procs
    BY <1>1, <1>2, <2>1
  <2>3. OnceInv(t)'
    BY <1>4, <2>2, ParkOnce, ParkAttachOnce, ParkActivateOnce, ConcludeOnce, RecoveryOnce,
       ObserveOnce, ProcApplyOnce, ProcAttachOnce, ProcEndsOnce, CancellingOnce, CrashOnce
       DEF Parking, Processing
  <2> QED BY <2>1, <2>3, KeptApart
<1>5. ASSUME KernelSteps \/ CancelRun \/ AgentWorks \/ Lapse \/ Due \/ UNCHANGED vars
      PROVE  ApartInv'
  <2>1. \A q \in Procs : proc'[q].pc = proc[q].pc
    <3>1. \A q \in Procs : proc[q] \in Memory
      BY DEF IInv
    <3>2. \A m \in Memory : [m EXCEPT !.soon = FALSE].pc = m.pc
      BY DEF Memory
    <3>3. UNCHANGED proc \/ proc' = [q \in Procs |-> [proc[q] EXCEPT !.soon = FALSE]]
      BY <1>5 DEF KernelSteps, Surface, Publish, Shown, RunEnds, CancelRun, AgentWorks, Lapse,
                  Due, vars
    <3> QED BY <3>1, <3>2, <3>3
  <2>2. PICK t \in Coordinators : Alone(t) /\ Alone(t)'
    <3>1. PICK p \in Coordinators : TRUE
      BY RivalsAssumption
    <3>2. Turn(p)
      BY <2>1 DEF Turn
    <3> QED BY <1>2, <3>2, OneAtWork
  <2>3. OnceInv(t) /\ t \in Procs
    BY <1>1, <1>2, <2>2
  <2>4. OnceInv(t)'
    <3>1. CASE KernelSteps \/ CancelRun \/ UNCHANGED vars
      <4>1. UNCHANGED <<call, fresh, proc, agent>>
        BY <3>1 DEF KernelSteps, Surface, Publish, Shown, RunEnds, CancelRun, vars, ledger
      <4> QED BY <2>3, <4>1, AsideOnce
    <3> QED BY <1>5, <2>3, <3>1, AgentWorksOnce, TimeOnce
  <2> QED BY <2>2, <2>4, KeptApart
<1> QED BY <1>1, <1>3, <1>4, <1>5 DEF Next

\* The Agent gets an answer again, and the attempts of its delivery pass the limits
\* of _deliver, only after two coordinators were at work at once: no crash, lost
\* receipt, lapsed claim, processor or call recovery beside coordinators that follow
\* one another makes _recover_call send what was sent.
THEOREM OnceWithoutRivals == MetSpec => []RepeatsNeedRivals
<1> DEFINE Inv == IInv /\ (met \/ ApartInv)
<1>1. MetInit => Inv
  BY Starts, ApartStarts DEF MetInit
<1>2. Inv /\ [MetNext]_<<vars, met>> => Inv'
  <2> SUFFICES ASSUME Inv, [MetNext]_<<vars, met>> PROVE Inv'
    OBVIOUS
  <2>1. [Next]_vars
    BY DEF MetNext
  <2>2. IInv'
    BY <2>1, Steps
  <2>3. CASE UNCHANGED <<vars, met>>
    <3>1. ASSUME ApartInv PROVE ApartInv'
      BY <2>3, <3>1 DEF ApartInv, Together, Alone, At, OnceInv, vars
    <3> QED BY <2>2, <2>3, <3>1
  <2>4. CASE MetNext /\ ~met'
    <3>1. ~met /\ ~Together'
      BY <2>4 DEF MetNext
    <3> QED BY <2>1, <2>2, <3>1, ApartSteps
  <2> QED BY <2>2, <2>3, <2>4
<1>3. Inv => RepeatsNeedRivals
  <2> SUFFICES ASSUME IInv, ApartInv PROVE RepeatsNeedRivals
    BY DEF RepeatsNeedRivals
  <2>1. PICK s \in Coordinators : Alone(s)
    BY RivalsAssumption DEF ApartInv, Together, Alone
  <2> QED BY <2>1 DEF ApartInv, OnceInv, SentOK, RepeatsNeedRivals
<1> QED BY <1>1, <1>2, <1>3, PTL DEF MetSpec
=============================================================================
