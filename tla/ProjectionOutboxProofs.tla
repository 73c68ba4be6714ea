----------------------- MODULE ProjectionOutboxProofs -----------------------
(***************************************************************************)
(* Proofs about ProjectionOutbox, for any number of Runs and worker loops  *)
(* and for every value of the terms and bounds.                            *)
(***************************************************************************)
EXTENDS ProjectionOutbox, TLAPS

\* The statuses of intents that nothing depends on any more.
Acknowledged == {"absent", "completed"}

\* Where a loop has seen that its intent need not wait.
Unblocked == {"claim", "claimCas", "replayed", "project", "complete", "failed"}

\* Where a process works on a Run.
Working == Unblocked \cup {"release", "settle", "ended"}

\* What a process holds in memory, given who and where it is.
MemoryOK(p, m) ==
    /\ m \in Memory
    /\ p \in Runs => /\ m.pc \in {"running", "ended", "settle", "done"}
                     /\ m.run \in {p, NoRun}
                     /\ m.batch = {}
    /\ p \in Workers => m.pc \notin {"running", "ended", "done"}
    /\ m.pc \in Working => m.run \in Runs
    /\ m.pc \notin Working => m.run = NoRun
    /\ m.pc \in Working \cup {"batch"} /\ m.pc # "ended" => m.at # NoTime

\* The status a current copy shows for the intent at hand.
Expected(pc) ==
    IF pc \in {"claim", "claimCas"} THEN {"pending"}
    ELSE IF pc \in {"release", "project", "complete", "failed"} THEN {"claimed"}
    ELSE {"absent", "pending", "claimed", "completed", "blocked"}

\* How the memory m relates to the intents and the effects of its Run, and,
\* where the copy is current, to the stored status and verdict.
CopyOK(m, items, eff, isCurrent) ==
    /\ m.pc \in Unblocked => ~Waits(items, m.kind)
    /\ m.pc = "complete" => m.kind \in eff
    /\ isCurrent => items[m.kind].status \in Expected(m.pc)
    /\ isCurrent /\ m.pc = "settle" => m.verdict = Verdict(items)

HeldOK(p) ==
    proc[p].run \in Runs =>
        /\ proc[proc[p].run].pc # "running"
        /\ CopyOK(proc[p], outbox[proc[p].run], effects[proc[p].run], p \in current)

\* A Run that has not ended has no effects yet.
RunningOK(r) ==
    proc[r].pc = "running" =>
        /\ \A k \in Kinds : outbox[r][k].status = "absent"
        /\ effects[r] = {}
        /\ projection[r] = "pending"

ProcsOK == \A p \in Procs : MemoryOK(p, proc[p]) /\ HeldOK(p)

\* The inductive invariant.
IInv ==
    /\ TypeOK
    /\ StatusIsPublishedLast /\ CompletedIsProjected /\ VerdictIsHonest
    /\ \A r \in Runs : RunningOK(r)
    /\ ProcsOK
-----------------------------------------------------------------------------
(* The operators                                                           *)

\* A sum of instants stays an instant, cut off at the horizon.
LEMMA UptoType ==
    ASSUME NEW t \in Nat
    PROVE  Upto(t) \in Times /\ Upto(t) # NoTime
BY OutboxBoundsAssumption DEF Upto, Times, NoTime

\* None is a time, and so is now.
LEMMA TimeConstants ==
    ASSUME now \in 0 .. Horizon
    PROVE  NoTime \in Times /\ 0 \in Times /\ now \in Times /\ now # NoTime
BY OutboxBoundsAssumption DEF Times, NoTime

\* An instant of a batch plus a term is an instant.
LEMMA LaterType ==
    ASSUME NEW t \in Times, t # NoTime, NEW d \in Nat
    PROVE  Upto(t + d) \in Times /\ Upto(t + d) # NoTime
<1>1. t + d \in Nat
  BY OutboxBoundsAssumption DEF Times, NoTime
<1> QED
  BY <1>1, UptoType

\* A well-formed intent: claimed exactly while it has an expiry.
WellFormed(i) == i \in Intents /\ (i.lease # NoTime <=> i.status = "claimed")

\* What the three transitions of an intent make of it.
LEMMA IntentOperators ==
    ASSUME NEW i, WellFormed(i), NEW t \in Times
    PROVE  /\ WellFormed(Pending(i, t)) /\ Pending(i, t).status = "pending"
           /\ t # NoTime => WellFormed(Claimed(i, t)) /\ Claimed(i, t).status = "claimed"
           /\ Claimed(i, t).lease = t /\ Claimed(i, t).attempts \in 0 .. MaxAttempts
           /\ \A s \in {"completed", "blocked"} :
                 WellFormed(Closed(i, s)) /\ Closed(i, s).status = s
<1>1. NoTime \in Times
  BY OutboxBoundsAssumption DEF NoTime, Times
<1>2. (IF i.attempts < MaxAttempts THEN i.attempts + 1 ELSE i.attempts) \in 0 .. MaxAttempts
  BY OutboxBoundsAssumption DEF WellFormed, Intents
<1> QED
  BY <1>1, <1>2 DEF WellFormed, Intents, Pending, Claimed, Closed

\* The intents that are minted, and those that are not.
LEMMA MintedIntents ==
    /\ WellFormed(Absent) /\ Absent.status = "absent"
    /\ WellFormed(Minted) /\ Minted.status = "pending"
BY OutboxBoundsAssumption DEF WellFormed, Intents, Absent, Minted, Times, NoTime

\* A process that has nothing in hand.
LEMMA FreshMemory ==
    /\ \A w \in {"idle", "running", "done"} :
          Fresh(w) \in Memory /\ Fresh(w).pc = w /\ Fresh(w).run = NoRun
    /\ \A p \in Workers : MemoryOK(p, Fresh("idle"))
    /\ \A p \in Runs : MemoryOK(p, Fresh("running")) /\ MemoryOK(p, Fresh("done"))
<1>1. NoTime \in Times /\ 0 \in 0 .. MaxAttempts
  BY OutboxBoundsAssumption DEF NoTime, Times
<1>2. \A w \in {"idle", "running", "done"} :
          Fresh(w) \in Memory /\ Fresh(w).pc = w /\ Fresh(w).run = NoRun /\ Fresh(w).batch = {}
  BY <1>1 DEF Fresh, Memory, Kinds
<1> QED
  BY <1>2, ProcsAssumption DEF MemoryOK, Working, Unblocked

\* A process that is done with its intent has nothing in hand.
LEMMA OnwardMemory ==
    ASSUME NEW p \in Procs, MemoryOK(p, proc[p]), proc[p].pc \in Working,
           p \in Runs => proc[p].pc # "running"
    PROVE  MemoryOK(p, Onward(p)) /\ Onward(p).run = NoRun /\ Onward(p).pc \notin {"running"}
<1>1. CASE proc[p].batch = {}
  <2>1. p \in Runs => Onward(p) = Fresh("done")
    BY <1>1 DEF Onward
  <2>2. p \notin Runs => Onward(p) = Fresh("idle") /\ p \in Workers
    BY <1>1 DEF Onward, Procs
  <2> QED
    BY <2>1, <2>2, FreshMemory
<1>2. CASE proc[p].batch # {}
  <2>1. p \in Workers /\ p \notin Runs
    BY <1>2, ProcsAssumption DEF MemoryOK, Procs
  <2>2. proc[p] \in Memory /\ proc[p].at # NoTime
    BY <2>1 DEF MemoryOK, Working
  <2>3. NoTime \in Times /\ 0 \in 0 .. MaxAttempts
    BY OutboxBoundsAssumption DEF NoTime, Times
  <2>4. /\ Onward(p) \in Memory /\ Onward(p).pc = "batch" /\ Onward(p).run = NoRun
        /\ Onward(p).at = proc[p].at
    BY <1>2, <2>2, <2>3 DEF Onward, Fresh, Memory, Kinds
  <2> QED
    BY <2>1, <2>2, <2>4 DEF MemoryOK, Working, Unblocked
<1> QED
  BY <1>1, <1>2

\* An intent waits for nothing more once the others are acknowledged.
LEMMA WaitsMonotone ==
    ASSUME NEW a, NEW b, NEW k \in Kinds, ~Waits(a, k),
           \A o \in Kinds : a[o].status \in Acknowledged => b[o].status \in Acknowledged
    PROVE  ~Waits(b, k)
BY DEF Waits, Acknowledged

\* The verdict, and what it says.
LEMMA VerdictMeaning ==
    ASSUME NEW items
    PROVE  /\ Verdict(items) \in {"pending", "settled", "blocked"}
           /\ Verdict(items) = "settled" => \A k \in Kinds : items[k].status \in Acknowledged
           /\ Verdict(items) = "blocked" => \E k \in Kinds : items[k].status = "blocked"
BY DEF Verdict, Acknowledged
-----------------------------------------------------------------------------
(* How a step of one process leaves what the others rely on                *)

\* What m relies on survives writes of others that keep acknowledged intents
\* acknowledged and take the currency of the copies they outdate; a current
\* copy about to claim may find its command replayed.
LEMMA CopyWeaken ==
    ASSUME NEW m, NEW n, NEW a, NEW b, NEW e, NEW f, NEW c \in BOOLEAN, NEW d \in BOOLEAN,
           CopyOK(m, a, e, c), m.kind \in Kinds, n.kind = m.kind,
           \A k \in Kinds : a[k].status \in Acknowledged => b[k].status \in Acknowledged,
           e \subseteq f,
           \/ n = m /\ (d => c /\ a = b)
           \/ m.pc = "claimCas" /\ n.pc = "replayed" /\ ~d
    PROVE  CopyOK(n, b, f, d)
<1>1. m.pc \in Unblocked => ~Waits(b, m.kind)
  BY WaitsMonotone DEF CopyOK
<1>2. CASE n = m /\ (d => c /\ a = b)
  BY <1>1, <1>2 DEF CopyOK
<1>3. CASE m.pc = "claimCas" /\ n.pc = "replayed" /\ ~d
  BY <1>1, <1>3 DEF CopyOK, Unblocked
<1> QED
  BY <1>2, <1>3

\* A claim that will find itself replayed has a sound memory.
LEMMA ReplayedMemory ==
    ASSUME NEW p \in Procs, NEW m, MemoryOK(p, m), m.pc = "claimCas",
           NEW n, n = [m EXCEPT !.pc = "replayed"]
    PROVE  MemoryOK(p, n) /\ n.kind = m.kind /\ n.run = m.run /\ n.pc = "replayed"
<1>1. n \in Memory /\ n.pc = "replayed" /\ n.run = m.run /\ n.kind = m.kind /\ n.at = m.at
  BY DEF MemoryOK, Memory
<1>2. p \notin Runs /\ m.run \in Runs /\ m.at # NoTime
  BY DEF MemoryOK, Working, Unblocked
<1>3. MemoryOK(p, n)
  BY <1>1, <1>2 DEF MemoryOK, Working, Unblocked
<1> QED
  BY <1>1, <1>3

\* A step of p preserves the invariant if it keeps the stored properties, if
\* what p then holds is sound, and if the others lose nothing they rely on.
LEMMA Preserved ==
    ASSUME NEW p \in Procs, IInv,
           TypeOK', StatusIsPublishedLast', CompletedIsProjected', VerdictIsHonest',
           MemoryOK(p, proc[p])', HeldOK(p)', proc'[p].pc # "running",
           \A q \in Procs \ {p} :
              \/ proc'[q] = proc[q]
              \/ /\ proc[q].pc = "claimCas" /\ q \notin current'
                 /\ proc'[q] = [proc[q] EXCEPT !.pc = "replayed"],
           \A q \in Procs \ {p} : q \in current' =>
              /\ q \in current
              /\ proc[q].run \in Runs => outbox'[proc[q].run] = outbox[proc[q].run],
           \A r \in Runs : proc[r].pc # "running" =>
              /\ \A k \in Kinds : outbox[r][k].status \in Acknowledged
                                    => outbox'[r][k].status \in Acknowledged
              /\ effects[r] \subseteq effects'[r],
           \A r \in Runs \ {p} : proc[r].pc = "running" =>
              outbox'[r] = outbox[r] /\ effects'[r] = effects[r] /\ projection'[r] = projection[r]
    PROVE  IInv'
<1> USE DEF IInv
<1>1. ASSUME NEW q \in Procs, q # p
      PROVE  /\ MemoryOK(q, proc'[q])
             /\ proc'[q].run = proc[q].run /\ proc'[q].kind = proc[q].kind
             /\ proc'[q].pc = "running" => proc[q].pc = "running"
             /\ \/ proc'[q] = proc[q]
                \/ proc[q].pc = "claimCas" /\ proc'[q].pc = "replayed" /\ q \notin current'
  <2>1. MemoryOK(q, proc[q])
    BY DEF ProcsOK
  <2>2. CASE proc'[q] = proc[q]
    BY <2>1, <2>2
  <2>3. CASE /\ proc[q].pc = "claimCas" /\ q \notin current'
             /\ proc'[q] = [proc[q] EXCEPT !.pc = "replayed"]
    BY <2>1, <2>3, ReplayedMemory
  <2> QED
    BY <1>1, <2>2, <2>3
<1>2. ASSUME NEW r \in Runs, proc'[r].pc = "running"
      PROVE  r # p /\ proc[r].pc = "running"
  BY <1>1, <1>2 DEF Procs
<1>3. ASSUME NEW q \in Procs, q # p
      PROVE  HeldOK(q)'
  <2> SUFFICES ASSUME proc[q].run \in Runs
               PROVE  /\ proc'[proc[q].run].pc # "running"
                      /\ CopyOK(proc'[q], outbox'[proc[q].run], effects'[proc[q].run],
                                q \in current')
    BY <1>1, <1>3 DEF HeldOK
  <2> DEFINE r == proc[q].run
  <2>1. /\ proc[r].pc # "running"
        /\ CopyOK(proc[q], outbox[r], effects[r], q \in current)
    BY DEF ProcsOK, HeldOK
  <2>2. proc[q].kind \in Kinds
    BY DEF ProcsOK, MemoryOK, Memory
  <2>3. \/ proc'[q] = proc[q]
        \/ proc[q].pc = "claimCas" /\ proc'[q].pc = "replayed" /\ q \notin current'
    BY <1>1, <1>3
  <2>4. /\ \A k \in Kinds : outbox[r][k].status \in Acknowledged
                              => outbox'[r][k].status \in Acknowledged
        /\ effects[r] \subseteq effects'[r]
        /\ q \in current' => q \in current /\ outbox'[r] = outbox[r]
    BY <1>3, <2>1
  <2>5. CopyOK(proc'[q], outbox'[r], effects'[r], q \in current')
    <3> DEFINE c == q \in current
               d == q \in current'
    <3>1. c \in BOOLEAN /\ d \in BOOLEAN
      OBVIOUS
    <3>2. \/ proc'[q] = proc[q] /\ (d => c /\ outbox[r] = outbox'[r])
          \/ proc[q].pc = "claimCas" /\ proc'[q].pc = "replayed" /\ ~d
      BY <2>3, <2>4
    <3>3. CopyOK(proc[q], outbox[r], effects[r], c)
      BY <2>1
    <3>4. proc'[q].kind = proc[q].kind
      BY <1>1, <1>3
    <3> HIDE DEF c, d, r
    <3>5. CopyOK(proc'[q], outbox'[r], effects'[r], d)
      BY <3>1, <3>2, <3>3, <3>4, <2>2, <2>4, CopyWeaken
    <3> QED
      BY <3>5 DEF d
  <2> QED
    BY <2>1, <2>5, <1>2
<1>4. ProcsOK'
  BY <1>1, <1>3 DEF ProcsOK
<1>5. \A r \in Runs : RunningOK(r)'
  BY <1>2 DEF RunningOK
<1> QED
  BY <1>4, <1>5

\* A step of p that writes no intent.
LEMMA ReadStep ==
    ASSUME NEW p \in Procs, IInv, NEW m,
           proc' = [proc EXCEPT ![p] = m], MemoryOK(p, m), m.pc # "running",
           m.run \in Runs =>
              /\ m.run = p \/ proc[m.run].pc # "running"
              /\ CopyOK(m, outbox[m.run], effects[m.run], p \in current'),
           current' \subseteq current \cup {p},
           interrupts' \in 0 .. MaxInterrupts,
           UNCHANGED <<outbox, projection, updated, effects, now, touches>>
    PROVE  IInv'
<1> USE DEF IInv
<1>1. proc'[p] = m /\ \A q \in Procs \ {p} : proc'[q] = proc[q]
  BY DEF TypeOK
<1>2. TypeOK'
  <2>1. proc' \in [Procs -> Memory]
    BY DEF MemoryOK, TypeOK
  <2> QED
    BY <2>1 DEF TypeOK
<1>3. StatusIsPublishedLast' /\ CompletedIsProjected' /\ VerdictIsHonest'
  BY DEF StatusIsPublishedLast, CompletedIsProjected, VerdictIsHonest
<1>4. MemoryOK(p, proc[p])'
  BY <1>1
<1>5. HeldOK(p)'
  <2>1. m.run \in Runs => proc'[m.run].pc # "running"
    BY <1>1 DEF Procs
  <2> QED
    BY <1>1, <2>1 DEF HeldOK
<1>6. \A q \in Procs \ {p} : q \in current' => q \in current
  OBVIOUS
<1> HIDE DEF IInv
<1> QED
  BY <1>1, <1>2, <1>3, <1>4, <1>5, <1>6, Preserved

\* Who loses its copy when p writes, and which other copies stay current.
LEMMA WrittenCopies ==
    ASSUME NEW p \in Procs, Written(p), NEW q \in Procs, q # p, q \in current'
    PROVE  q \in current /\ proc[q].run # proc[p].run
BY DEF Written, Copies, Holders

\* A compare-and-set of the open intent that the worker p holds.
LEMMA PutStep ==
    ASSUME NEW p \in Procs, IInv, NEW i, WellFormed(i), i.status # "absent",
           proc[p].run \in Runs, Put(p, i),
           Item(p).status \in {"pending", "claimed"},
           i.status = "completed" => proc[p].kind \in effects[proc[p].run],
           proc' \in [Procs -> Memory], MemoryOK(p, proc[p])', proc'[p].pc # "running",
           proc'[p].run \in Runs =>
              /\ proc'[p].run = proc[p].run
              /\ CopyOK(proc'[p], outbox'[proc[p].run], effects[proc[p].run], p \in current'),
           \A q \in Procs \ {p} :
              \/ proc'[q] = proc[q]
              \/ /\ proc[q].pc = "claimCas" /\ q \notin current'
                 /\ proc'[q] = [proc[q] EXCEPT !.pc = "replayed"],
           UNCHANGED <<projection, updated, effects, now, interrupts, touches>>
    PROVE  IInv'
<1> DEFINE r == proc[p].run
           k == proc[p].kind
<1> USE DEF IInv
<1>1. k \in Kinds /\ proc[r].pc # "running" /\ r \in Procs
  BY DEF ProcsOK, MemoryOK, Memory, HeldOK, Procs
<1>2. /\ outbox' = [outbox EXCEPT ![r][k] = i]
      /\ outbox[r][k].status \in {"pending", "claimed"}
  BY DEF Put, Item, Items
<1>3. /\ outbox'[r][k] = i
      /\ \A s \in Runs, o \in Kinds : s # r \/ o # k => outbox'[s][o] = outbox[s][o]
      /\ \A s \in Runs : s # r => outbox'[s] = outbox[s]
  BY <1>1, <1>2 DEF TypeOK
<1>4. TypeOK'
  <2>1. /\ outbox' \in [Runs -> [Kinds -> Intents]]
        /\ \A s \in Runs, o \in Kinds :
              outbox'[s][o].lease # NoTime <=> outbox'[s][o].status = "claimed"
    BY <1>1, <1>2, <1>3 DEF TypeOK, WellFormed
  <2>2. current' \subseteq Procs
    BY DEF Put, Written, Copies, TypeOK
  <2> QED
    BY <2>1, <2>2 DEF TypeOK
<1>5. \A s \in Runs, o \in Kinds :
          outbox[s][o].status \in Acknowledged => outbox'[s][o] = outbox[s][o]
  BY <1>2, <1>3 DEF Acknowledged
<1>6. StatusIsPublishedLast'
  BY <1>5 DEF StatusIsPublishedLast, Acknowledged
<1>7. CompletedIsProjected'
  BY <1>1, <1>3 DEF CompletedIsProjected
<1>8. VerdictIsHonest'
  BY <1>1, <1>2, <1>3, <1>5 DEF VerdictIsHonest, Acknowledged
<1>9. HeldOK(p)'
  <2>1. proc'[r].pc # "running"
    <3>1. CASE r = p
      BY <3>1
    <3>2. CASE r # p
      <4>1. proc[r] \in Memory
        BY <1>1 DEF TypeOK
      <4>2. [proc[r] EXCEPT !.pc = "replayed"].pc = "replayed"
        BY <4>1 DEF Memory
      <4> QED
        BY <1>1, <3>2, <4>2
    <3> QED
      BY <3>1, <3>2
  <2> QED
    BY <2>1 DEF HeldOK
<1>10. \A q \in Procs \ {p} : q \in current' =>
          q \in current /\ (proc[q].run \in Runs => outbox'[proc[q].run] = outbox[proc[q].run])
  BY <1>3, WrittenCopies DEF Put
<1>11. \A s \in Runs \ {p} : proc[s].pc = "running" => outbox'[s] = outbox[s]
  BY <1>1, <1>3
<1> HIDE DEF IInv, r, k
<1> QED
  BY <1>4, <1>5, <1>6, <1>7, <1>8, <1>9, <1>10, <1>11, Preserved
-----------------------------------------------------------------------------
(* The steps                                                               *)

\* The memory of a process, and what is known of the Run at hand.
LEMMA InHand ==
    ASSUME NEW p \in Procs, IInv
    PROVE  /\ proc[p] \in Memory /\ MemoryOK(p, proc[p])
           /\ proc[p].pc \in Working =>
                 /\ proc[p].run \in Runs /\ proc[proc[p].run].pc # "running"
                 /\ CopyOK(proc[p], outbox[proc[p].run], effects[proc[p].run], p \in current)
                 /\ Item(p) = outbox[proc[p].run][proc[p].kind]
                 /\ WellFormed(Item(p))
<1>1. proc[p] \in Memory /\ MemoryOK(p, proc[p]) /\ HeldOK(p)
  BY DEF IInv, ProcsOK, TypeOK
<1>2. ASSUME proc[p].pc \in Working
      PROVE  proc[p].run \in Runs /\ WellFormed(Item(p))
  <2>1. proc[p].run \in Runs /\ proc[p].kind \in Kinds
    BY <1>1, <1>2 DEF MemoryOK, Memory
  <2> QED
    BY <2>1 DEF IInv, TypeOK, WellFormed, Item, Items
<1> QED
  BY <1>1, <1>2 DEF HeldOK, Item, Items

\* A worker that goes on with the same intent has a sound memory.
LEMMA Proceeding ==
    ASSUME NEW p \in Workers, IInv, proc[p].pc \in Working, NEW m \in Memory,
           m.pc \in {"claim", "claimCas", "replayed", "project", "complete", "failed", "settle"},
           m.run = proc[p].run, m.at = proc[p].at
    PROVE  MemoryOK(p, m)
<1>1. p \in Procs /\ p \notin Runs
  BY ProcsAssumption DEF Procs
<1>2. MemoryOK(p, proc[p]) /\ proc[p].run \in Runs
  BY <1>1, InHand
<1>3. m.at # NoTime
  <2>1. proc[p].pc # "ended"
    BY <1>1, <1>2 DEF MemoryOK
  <2> QED
    BY <1>2, <2>1 DEF MemoryOK
<1>4. m.pc \in Working /\ m.pc \notin {"running", "ended", "done"}
  BY DEF Working, Unblocked
<1> QED
  BY <1>1, <1>2, <1>3, <1>4 DEF MemoryOK

\* A worker with a batch has a sound memory.
LEMMA BatchMemory ==
    ASSUME NEW p \in Workers, NEW b \in SUBSET (Runs \X Kinds), NEW t \in Times, t # NoTime,
           NEW m, m = [Fresh("batch") EXCEPT !.batch = b, !.at = t]
    PROVE  MemoryOK(p, m) /\ m.run = NoRun /\ m.pc = "batch"
<1>1. NoTime \in Times /\ 0 \in 0 .. MaxAttempts
  BY OutboxBoundsAssumption DEF NoTime, Times
<1>2. m \in Memory /\ m.pc = "batch" /\ m.run = NoRun /\ m.at = t
  BY <1>1 DEF Fresh, Memory, Kinds
<1> QED
  BY <1>2, ProcsAssumption DEF MemoryOK, Working, Unblocked

\* What p's write of its intent does to the intents of the Run.
LEMMA PutItems ==
    ASSUME NEW p \in Procs, IInv, proc[p].pc \in Working, NEW i, Put(p, i),
           Item(p).status \notin Acknowledged
    PROVE  /\ outbox'[proc[p].run] = [Items(p) EXCEPT ![proc[p].kind] = i]
           /\ outbox'[proc[p].run][proc[p].kind] = i
           /\ \A o \in Kinds : Items(p)[o].status \in Acknowledged
                              => outbox'[proc[p].run][o].status \in Acknowledged
<1>1. proc[p].run \in Runs /\ proc[p].kind \in Kinds
  BY InHand DEF Memory
<1> QED
  BY <1>1 DEF Put, Item, Items, IInv, TypeOK

\* Listing touches nothing but the memory of the loop.
LEMMA ListStep ==
    ASSUME NEW p \in Workers, IInv, List(p)
    PROVE  IInv'
<1>1. p \in Procs /\ interrupts' \in 0 .. MaxInterrupts /\ current' = current
  BY DEF Procs, List, IInv, TypeOK
<1>2. PICK m : /\ proc' = [proc EXCEPT ![p] = m]
               /\ MemoryOK(p, m) /\ m.run = NoRun /\ m.pc \in {"idle", "batch"}
  <2>1. PICK b \in SUBSET (Runs \X Kinds) :
          Become(p, IF b = {} THEN Fresh("idle")
                    ELSE [Fresh("batch") EXCEPT !.batch = b, !.at = now])
    BY DEF List
  <2>2. now \in Times /\ now # NoTime
    BY TimeConstants DEF IInv, TypeOK
  <2>3. CASE b = {}
    BY <2>1, <2>3, FreshMemory DEF Become
  <2>4. CASE b # {}
    <3> DEFINE m == [Fresh("batch") EXCEPT !.batch = b, !.at = now]
    <3>1. MemoryOK(p, m) /\ m.run = NoRun /\ m.pc = "batch"
      BY <2>2, BatchMemory
    <3>2. proc' = [proc EXCEPT ![p] = m]
      BY <2>1, <2>4 DEF Become
    <3> HIDE DEF m
    <3> QED
      BY <3>1, <3>2
  <2> QED
    BY <2>3, <2>4
<1>3. m.run \notin Runs /\ m.pc # "running"
  BY <1>2, ProcsAssumption
<1> QED
  BY <1>1, <1>2, <1>3, ReadStep DEF List

\* A step by which p drops what it has in hand.
LEMMA DropStep ==
    ASSUME NEW p \in Procs, IInv, proc[p].pc \in Working, Become(p, Onward(p)),
           current' \subseteq current \cup {p},
           UNCHANGED <<outbox, projection, updated, effects, now, interrupts, touches>>
    PROVE  IInv'
<1>1. MemoryOK(p, Onward(p)) /\ Onward(p).run \notin Runs /\ Onward(p).pc # "running"
  BY InHand, OnwardMemory, ProcsAssumption DEF Working, Unblocked
<1>2. interrupts' \in 0 .. MaxInterrupts
  BY DEF IInv, TypeOK
<1> QED
  BY <1>1, <1>2, ReadStep DEF Become

\* A step by which the worker p goes on with its intent and writes nothing.
LEMMA ProceedStep ==
    ASSUME NEW p \in Workers, IInv, proc[p].pc \in Working, NEW m \in Memory, Become(p, m),
           m.pc \in {"claim", "claimCas", "replayed", "project", "complete", "failed", "settle"},
           m.run = proc[p].run, m.at = proc[p].at,
           CopyOK(m, Items(p), effects[proc[p].run], p \in current'),
           current' \subseteq current \cup {p},
           UNCHANGED <<outbox, projection, updated, effects, now, interrupts, touches>>
    PROVE  IInv'
<1>1. p \in Procs /\ interrupts' \in 0 .. MaxInterrupts
  BY DEF Procs, IInv, TypeOK
<1>2. MemoryOK(p, m) /\ m.pc # "running"
  BY Proceeding
<1>3. proc[m.run].pc # "running" /\ Items(p) = outbox[m.run]
  BY <1>1, InHand DEF Items
<1> QED
  BY <1>1, <1>2, <1>3, ReadStep DEF Become

\* Looking at the next intent of the batch.
LEMMA BeginStep ==
    ASSUME NEW p \in Workers, IInv, Begin(p)
    PROVE  IInv'
<1>1. p \in Procs /\ interrupts' \in 0 .. MaxInterrupts /\ proc[p].pc = "batch"
  BY DEF Procs, Begin, IInv, TypeOK
<1>2. proc[p] \in Memory /\ MemoryOK(p, proc[p]) /\ p \notin Runs
  BY <1>1, InHand, ProcsAssumption
<1>3. PICK x \in proc[p].batch :
         LET i    == outbox[x[1]][x[2]]
             rest == [proc[p] EXCEPT !.batch = @ \ {x}]
             me   == [rest EXCEPT !.run = x[1], !.kind = x[2]]
             skip == IF rest.batch = {} THEN Fresh("idle") ELSE rest
             where == IF i.status = "claimed" /\ i.lease <= proc[p].at THEN "release"
                      ELSE IF i.status = "pending" /\ ~Waits(outbox[x[1]], x[2])
                      THEN "claim" ELSE "skip"
         IN  /\ Become(p, IF where = "skip" THEN skip ELSE [me EXCEPT !.pc = where])
             /\ Reload(p)
  BY DEF Begin
<1> DEFINE i    == outbox[x[1]][x[2]]
           rest == [proc[p] EXCEPT !.batch = @ \ {x}]
           me   == [rest EXCEPT !.run = x[1], !.kind = x[2]]
           skip == IF rest.batch = {} THEN Fresh("idle") ELSE rest
           where == IF i.status = "claimed" /\ i.lease <= proc[p].at THEN "release"
                    ELSE IF i.status = "pending" /\ ~Waits(outbox[x[1]], x[2])
                    THEN "claim" ELSE "skip"
           m    == IF where = "skip" THEN skip ELSE [me EXCEPT !.pc = where]
<1>4. proc' = [proc EXCEPT ![p] = m] /\ current' \subseteq current \cup {p}
  BY <1>3 DEF Become, Reload, Copies
<1>5. x[1] \in Runs /\ x[2] \in Kinds
  BY <1>2 DEF Memory
<1>6. CASE where = "skip"
  <2>1. MemoryOK(p, m) /\ m.run = NoRun /\ m.pc # "running"
    <3>1. CASE rest.batch = {}
      BY <1>6, <3>1, FreshMemory
    <3>2. CASE rest.batch # {}
      <4>1. /\ rest \in Memory /\ rest.pc = "batch" /\ rest.run = proc[p].run
            /\ rest.at = proc[p].at
        BY <1>1, <1>2 DEF Memory
      <4> HIDE DEF rest
      <4>2. MemoryOK(p, rest) /\ rest.run = NoRun /\ rest.pc # "running"
        BY <1>1, <1>2, <4>1 DEF MemoryOK, Working, Unblocked
      <4> QED
        BY <1>6, <3>2, <4>2
    <3> QED
      BY <3>1, <3>2
  <2>2. m.run \notin Runs
    BY <2>1, ProcsAssumption
  <2> HIDE DEF m
  <2> QED
    BY <1>1, <1>4, <2>1, <2>2, ReadStep DEF Begin
<1>7. CASE where # "skip"
  <2>1. /\ m \in Memory /\ m.pc = where /\ m.run = x[1] /\ m.kind = x[2]
        /\ m.at = proc[p].at /\ where \in {"release", "claim"}
    BY <1>2, <1>5, <1>7 DEF Memory
  <2>2. /\ where = "release" => i.status = "claimed"
        /\ where = "claim" => i.status = "pending" /\ ~Waits(outbox[x[1]], x[2])
    OBVIOUS
  <2> HIDE DEF m, where
  <2>3. MemoryOK(p, m) /\ m.pc # "running"
    BY <1>1, <1>2, <1>5, <2>1 DEF MemoryOK, Working, Unblocked
  <2>4. proc[x[1]].pc # "running"
    BY <1>5, <2>1, <2>2 DEF IInv, RunningOK
  <2>5. CopyOK(m, outbox[m.run], effects[m.run], p \in current')
    BY <2>1, <2>2 DEF CopyOK, Expected, Unblocked
  <2> QED
    BY <1>1, <1>4, <2>1, <2>3, <2>4, <2>5, ReadStep DEF Begin
<1> QED
  BY <1>6, <1>7

\* Giving an expired claim back.
LEMMA ReleaseExpiredStep ==
    ASSUME NEW p \in Workers, IInv, ReleaseExpired(p)
    PROVE  IInv'
<1>1. p \in Procs /\ proc[p].pc \in Working /\ proc[p].pc = "release" /\ p \in current
  BY DEF Procs, ReleaseExpired, Put, Working
<1>2. /\ proc[p] \in Memory /\ MemoryOK(p, proc[p]) /\ proc[p].run \in Runs
      /\ CopyOK(proc[p], Items(p), effects[proc[p].run], p \in current)
      /\ WellFormed(Item(p))
  BY <1>1, InHand DEF Items
<1>3. Item(p).status = "claimed"
  BY <1>1, <1>2 DEF CopyOK, Expected, Item
<1> DEFINE i == Pending(Item(p), proc[p].at)
           m == IF Waits(Items(p), proc[p].kind) THEN Onward(p) ELSE [proc[p] EXCEPT !.pc = "claim"]
<1>4. WellFormed(i) /\ i.status = "pending"
  BY <1>2, IntentOperators DEF Memory
<1>5. Put(p, i) /\ proc' = [proc EXCEPT ![p] = m]
  BY DEF ReleaseExpired, Become
<1> HIDE DEF i
<1>6. outbox'[proc[p].run][proc[p].kind] = i
  BY <1>1, <1>3, <1>5, PutItems DEF Acknowledged
<1>7. ~Waits(Items(p), proc[p].kind) => ~Waits(outbox'[proc[p].run], proc[p].kind)
  <2>1. \A o \in Kinds : Items(p)[o].status \in Acknowledged
                           => outbox'[proc[p].run][o].status \in Acknowledged
    BY <1>1, <1>3, <1>5, PutItems DEF Acknowledged
  <2> QED
    BY <1>2, <2>1, WaitsMonotone DEF Memory
<1>8. /\ MemoryOK(p, m) /\ m.pc # "running"
      /\ m.run \in Runs =>
            /\ m.run = proc[p].run
            /\ CopyOK(m, outbox'[proc[p].run], effects[proc[p].run], p \in current')
  <2>1. CASE Waits(Items(p), proc[p].kind)
    BY <1>1, <1>2, <2>1, OnwardMemory, ProcsAssumption
  <2>2. CASE ~Waits(Items(p), proc[p].kind)
    <3>1. /\ m \in Memory /\ m.pc = "claim" /\ m.run = proc[p].run
          /\ m.kind = proc[p].kind /\ m.at = proc[p].at
      BY <1>2, <2>2 DEF Memory
    <3> HIDE DEF m
    <3>2. MemoryOK(p, m)
      BY <1>1, <3>1, Proceeding
    <3>3. CopyOK(m, outbox'[proc[p].run], effects[proc[p].run], p \in current')
      BY <1>4, <1>6, <1>7, <2>2, <3>1 DEF CopyOK, Expected
    <3> QED
      BY <3>1, <3>2, <3>3
  <2> QED
    BY <2>1, <2>2
<1> HIDE DEF m
<1>9. /\ proc' \in [Procs -> Memory] /\ proc'[p] = m
      /\ \A q \in Procs \ {p} : proc'[q] = proc[q]
  BY <1>1, <1>5, <1>8 DEF IInv, TypeOK, MemoryOK
<1> QED
  BY <1>1, <1>2, <1>3, <1>4, <1>5, <1>8, <1>9, PutStep DEF ReleaseExpired

\* The release was lost: look at the intent again.
LEMMA ReleaseLostStep ==
    ASSUME NEW p \in Workers, IInv, ReleaseLost(p)
    PROVE  IInv'
<1>1. p \in Procs /\ proc[p].pc \in Working
  BY DEF Procs, ReleaseLost, Working
<1>2. current' \subseteq current \cup {p}
  BY DEF ReleaseLost, Reload, Copies
<1>3. CASE Become(p, Onward(p))
  BY <1>1, <1>2, <1>3, DropStep DEF ReleaseLost
<1>4. CASE /\ Item(p).status = "pending" /\ ~Waits(Items(p), proc[p].kind)
           /\ Become(p, [proc[p] EXCEPT !.pc = "claim"])
  <2> DEFINE m == [proc[p] EXCEPT !.pc = "claim"]
  <2>1. /\ m \in Memory /\ m.pc = "claim" /\ m.run = proc[p].run
        /\ m.kind = proc[p].kind /\ m.at = proc[p].at
    BY <1>1, InHand DEF Memory
  <2>2. CopyOK(m, Items(p), effects[proc[p].run], p \in current')
    <3> HIDE DEF m
    <3> QED
      BY <1>4, <2>1 DEF CopyOK, Expected, Item
  <2>3. Become(p, m)
    BY <1>4
  <2> HIDE DEF m
  <2> QED
    BY <1>1, <1>2, <2>1, <2>2, <2>3, ProceedStep DEF ReleaseLost
<1> QED
  BY <1>3, <1>4 DEF ReleaseLost

\* Comparing the version.
LEMMA ClaimCheckStep ==
    ASSUME NEW p \in Workers, IInv, ClaimCheck(p)
    PROVE  IInv'
<1>1. p \in Procs /\ proc[p].pc \in Working /\ proc[p].pc = "claim"
  BY DEF Procs, ClaimCheck, Working, Unblocked
<1>2. CASE Become(p, Onward(p))
  BY <1>1, <1>2, DropStep DEF ClaimCheck
<1>3. CASE Become(p, [proc[p] EXCEPT !.pc = "claimCas"])
  <2> DEFINE m == [proc[p] EXCEPT !.pc = "claimCas"]
  <2>1. /\ m \in Memory /\ m.pc = "claimCas" /\ m.run = proc[p].run
        /\ m.kind = proc[p].kind /\ m.at = proc[p].at
    BY <1>1, InHand DEF Memory
  <2>2. CopyOK(m, Items(p), effects[proc[p].run], p \in current')
    <3>1. CopyOK(proc[p], Items(p), effects[proc[p].run], p \in current)
      BY <1>1, InHand DEF Items
    <3> HIDE DEF m
    <3> QED
      BY <1>1, <2>1, <3>1 DEF CopyOK, Expected, Unblocked, ClaimCheck
  <2>3. Become(p, m)
    BY <1>3
  <2> HIDE DEF m
  <2> QED
    BY <1>1, <2>1, <2>2, <2>3, ProceedStep DEF ClaimCheck
<1> QED
  BY <1>2, <1>3 DEF ClaimCheck

\* The claim, which also decides every other sender of the same command.
LEMMA ClaimCasStep ==
    ASSUME NEW p \in Workers, IInv, ClaimCas(p)
    PROVE  IInv'
<1>1. p \in Procs /\ proc[p].pc \in Working /\ proc[p].pc = "claimCas" /\ p \in current
  BY DEF Procs, ClaimCas, Put, Working, Unblocked
<1>2. /\ proc[p] \in Memory /\ MemoryOK(p, proc[p]) /\ proc[p].run \in Runs
      /\ CopyOK(proc[p], Items(p), effects[proc[p].run], p \in current)
      /\ WellFormed(Item(p))
  BY <1>1, InHand DEF Items
<1>3. Item(p).status = "pending" /\ ~Waits(Items(p), proc[p].kind) /\ proc[p].kind \in Kinds
  BY <1>1, <1>2 DEF CopyOK, Expected, Item, Unblocked, Memory
<1> DEFINE t == Upto(proc[p].at + LeaseTerm)
           i == Claimed(Item(p), t)
           m == [proc[p] EXCEPT !.pc = "project", !.lease = i.lease, !.attempts = i.attempts]
<1>4. t \in Times /\ t # NoTime
  <2>1. proc[p].at \in Times /\ proc[p].at # NoTime
    BY <1>1, <1>2 DEF MemoryOK, Memory, Working
  <2> QED
    BY <2>1, LaterType, OutboxBoundsAssumption
<1>5. /\ WellFormed(i) /\ i.status = "claimed"
      /\ i.lease \in Times /\ i.attempts \in 0 .. MaxAttempts
  <2> HIDE DEF t
  <2> QED
    BY <1>2, <1>4, IntentOperators
<1>6. /\ Put(p, i)
      /\ proc' = [q \in Procs |-> IF q = p THEN m
                  ELSE IF q \in SameCommand(p) THEN [proc[q] EXCEPT !.pc = "replayed"]
                  ELSE proc[q]]
  BY DEF ClaimCas
<1>7. /\ m \in Memory /\ m.pc = "project" /\ m.run = proc[p].run
      /\ m.kind = proc[p].kind /\ m.at = proc[p].at
  <2> HIDE DEF i
  <2> QED
    BY <1>2, <1>5 DEF Memory
<1> HIDE DEF t, i, m
<1>8. MemoryOK(p, m)
  BY <1>1, <1>7, Proceeding
<1>9. CopyOK(m, outbox'[proc[p].run], effects[proc[p].run], p \in current')
  <2>1. /\ outbox'[proc[p].run][proc[p].kind] = i
        /\ \A o \in Kinds : Items(p)[o].status \in Acknowledged
                           => outbox'[proc[p].run][o].status \in Acknowledged
    BY <1>1, <1>3, <1>6, PutItems DEF Acknowledged
  <2>2. ~Waits(outbox'[proc[p].run], proc[p].kind)
    BY <1>3, <2>1, WaitsMonotone
  <2> QED
    BY <1>5, <1>7, <2>1, <2>2 DEF CopyOK, Expected
<1>10. \A q \in Procs \ {p} :
          \/ proc'[q] = proc[q]
          \/ /\ proc[q].pc = "claimCas" /\ q \notin current'
             /\ proc'[q] = [proc[q] EXCEPT !.pc = "replayed"]
  <2> SUFFICES ASSUME NEW q \in Procs \ {p}, q \in SameCommand(p)
               PROVE  /\ proc[q].pc = "claimCas" /\ q \notin current'
                      /\ proc'[q] = [proc[q] EXCEPT !.pc = "replayed"]
    BY <1>6
  <2>1. q \notin current'
    BY <1>1, <1>6, WrittenCopies DEF SameCommand, Put
  <2> QED
    BY <1>6, <2>1 DEF SameCommand
<1>11. proc'[p] = m /\ proc' \in [Procs -> Memory]
  <2>1. ASSUME NEW q \in Procs
        PROVE  proc[q] \in Memory /\ [proc[q] EXCEPT !.pc = "replayed"] \in Memory
    <3>1. proc[q] \in Memory
      BY DEF IInv, TypeOK
    <3> QED
      BY <3>1 DEF Memory
  <2> QED
    BY <1>1, <1>6, <1>7, <2>1
<1> QED
  BY <1>1, <1>2, <1>3, <1>5, <1>6, <1>7, <1>8, <1>9, <1>10, <1>11, PutStep DEF ClaimCas

\* The claim was lost.
LEMMA ClaimLostStep ==
    ASSUME NEW p \in Workers, IInv, ClaimLost(p)
    PROVE  IInv'
<1>1. p \in Procs /\ proc[p].pc \in Working
  BY DEF Procs, ClaimLost, Working, Unblocked
<1> QED
  BY <1>1, DropStep DEF ClaimLost

\* The claim was replayed: the intent is projected as if it were p's.
LEMMA ClaimReplayedStep ==
    ASSUME NEW p \in Workers, IInv, ClaimReplayed(p)
    PROVE  IInv'
<1>1. p \in Procs /\ proc[p].pc \in Working /\ proc[p].pc = "replayed"
  BY DEF Procs, ClaimReplayed, Working, Unblocked
<1>2. current' \subseteq current \cup {p}
  BY DEF ClaimReplayed, Reload, Copies
<1>3. CASE Become(p, Onward(p))
  BY <1>1, <1>2, <1>3, DropStep DEF ClaimReplayed
<1>4. CASE /\ Item(p).status = "claimed"
           /\ Become(p, [proc[p] EXCEPT !.pc = "project", !.lease = Item(p).lease,
                                        !.attempts = Item(p).attempts])
  <2> DEFINE m == [proc[p] EXCEPT !.pc = "project", !.lease = Item(p).lease,
                                  !.attempts = Item(p).attempts]
  <2>1. Item(p).lease \in Times /\ Item(p).attempts \in 0 .. MaxAttempts
    BY <1>1, InHand DEF WellFormed, Intents
  <2>2. /\ m \in Memory /\ m.pc = "project" /\ m.run = proc[p].run
        /\ m.kind = proc[p].kind /\ m.at = proc[p].at
    BY <1>1, <2>1, InHand DEF Memory
  <2>3. CopyOK(m, Items(p), effects[proc[p].run], p \in current')
    <3>1. ~Waits(Items(p), proc[p].kind)
      BY <1>1, InHand DEF Items, CopyOK, Unblocked
    <3> HIDE DEF m
    <3> QED
      BY <1>4, <2>2, <3>1 DEF CopyOK, Expected, Item
  <2>4. Become(p, m)
    BY <1>4
  <2> HIDE DEF m
  <2> QED
    BY <1>1, <1>2, <2>2, <2>3, <2>4, ProceedStep DEF ClaimReplayed
<1> QED
  BY <1>3, <1>4 DEF ClaimReplayed

\* The projector: its effect may be in place whatever it reports, and is when
\* it reports success.
LEMMA ProjectStep ==
    ASSUME NEW p \in Workers, IInv, Project(p)
    PROVE  IInv'
<1>1. p \in Procs /\ proc[p].pc \in Working /\ proc[p].pc = "project"
  BY DEF Procs, Project, Working, Unblocked
<1>2. /\ proc[p] \in Memory /\ MemoryOK(p, proc[p]) /\ proc[p].run \in Runs
      /\ proc[p].kind \in Kinds /\ proc[proc[p].run].pc # "running"
      /\ CopyOK(proc[p], Items(p), effects[proc[p].run], p \in current)
  BY <1>1, InHand DEF Items, Memory
<1>3. ~Waits(Items(p), proc[p].kind)
  BY <1>1, <1>2 DEF CopyOK, Unblocked
<1>4. PICK o \in Outcomes :
          /\ Become(p, [proc[p] EXCEPT !.pc = o[1]])
          /\ effects' = IF o[2] THEN [effects EXCEPT ![proc[p].run] = @ \cup {proc[p].kind}]
                        ELSE effects
  BY DEF Project
<1> DEFINE m == [proc[p] EXCEPT !.pc = o[1]]
<1>5. o[1] \in {"complete", "failed"} /\ (o[1] = "complete" => o[2] = TRUE) /\ o[2] \in BOOLEAN
  <2>1. o = <<"complete", TRUE>> \/ o = <<"failed", TRUE>> \/ o = <<"failed", FALSE>>
    BY Zenon DEF Outcomes
  <2>2. CASE o = <<"complete", TRUE>>
    BY <2>2
  <2>3. CASE o = <<"failed", TRUE>>
    BY <2>3
  <2>4. CASE o = <<"failed", FALSE>>
    BY <2>4
  <2> QED
    BY <2>1, <2>2, <2>3, <2>4
<1>6. /\ m \in Memory /\ m.pc = o[1] /\ m.run = proc[p].run
      /\ m.kind = proc[p].kind /\ m.at = proc[p].at
  BY <1>2, <1>5 DEF Memory
<1>7. proc' = [proc EXCEPT ![p] = m]
  BY <1>4 DEF Become
<1> HIDE DEF m
<1>8. /\ effects' \in [Runs -> SUBSET Kinds]
      /\ \A r \in Runs, k \in Kinds :
            k \in effects'[r] => k \in effects[r] \/ (r = proc[p].run /\ k = proc[p].kind)
      /\ \A r \in Runs : effects[r] \subseteq effects'[r]
      /\ \A r \in Runs : r # proc[p].run => effects'[r] = effects[r]
      /\ o[1] = "complete" => proc[p].kind \in effects'[proc[p].run]
  BY <1>2, <1>4, <1>5 DEF IInv, TypeOK
<1>9. TypeOK'
  BY <1>1, <1>6, <1>7, <1>8 DEF Project, IInv, TypeOK
<1>10. StatusIsPublishedLast'
  BY <1>2, <1>3, <1>8 DEF Project, IInv, StatusIsPublishedLast, Waits, Items, Kinds
<1>11. CompletedIsProjected' /\ VerdictIsHonest'
  BY <1>8 DEF Project, IInv, CompletedIsProjected, VerdictIsHonest
<1>12. proc'[p] = m /\ MemoryOK(p, m) /\ \A q \in Procs \ {p} : proc'[q] = proc[q]
  BY <1>1, <1>5, <1>6, <1>7, Proceeding DEF IInv, TypeOK
<1>13. HeldOK(p)'
  <2>1. proc'[proc[p].run].pc # "running"
    BY <1>2, <1>5, <1>6, <1>12 DEF Procs
  <2>2. CopyOK(m, outbox'[proc[p].run], effects'[proc[p].run], p \in current')
    <3>1. p \in current' => Items(p)[proc[p].kind].status = "claimed"
      BY <1>1, <1>2 DEF CopyOK, Expected, Project
    <3> QED
      BY <1>3, <1>5, <1>6, <1>8, <3>1 DEF CopyOK, Expected, Project, Items
  <2> QED
    BY <1>6, <1>12, <2>1, <2>2 DEF HeldOK
<1>14. \A r \in Runs : proc[r].pc = "running" => effects'[r] = effects[r]
  BY <1>2, <1>8
<1> QED
  BY <1>1, <1>5, <1>6, <1>8, <1>9, <1>10, <1>11, <1>12, <1>13, <1>14, Preserved DEF Project

\* What p does after its Run has come to hold these items, current or not.
LEMMA SettlingMemory ==
    ASSUME NEW p \in Workers, IInv, proc[p].pc \in Working, NEW items, NEW e, NEW c \in BOOLEAN,
           c => items[proc[p].kind].status \in
                   {"absent", "pending", "claimed", "completed", "blocked"}
    PROVE  /\ MemoryOK(p, Settling(p, items)) /\ Settling(p, items).pc # "running"
           /\ Settling(p, items).run \in Runs =>
                 Settling(p, items).run = proc[p].run /\ CopyOK(Settling(p, items), items, e, c)
<1>1. p \in Procs /\ proc[p] \in Memory /\ MemoryOK(p, proc[p])
  BY InHand DEF Procs
<1>2. CASE Verdict(items) = projection[proc[p].run]
  <2>1. Settling(p, items) = Onward(p)
    BY <1>2 DEF Settling
  <2> QED
    BY <1>1, <2>1, OnwardMemory, ProcsAssumption DEF Working, Unblocked
<1>3. CASE Verdict(items) # projection[proc[p].run]
  <2> DEFINE m == [proc[p] EXCEPT !.pc = "settle", !.verdict = Verdict(items)]
  <2>1. Settling(p, items) = m
    BY <1>3 DEF Settling
  <2>2. Verdict(items) \in {"pending", "settled", "blocked"}
    BY VerdictMeaning
  <2>3. /\ m \in Memory /\ m.pc = "settle" /\ m.run = proc[p].run
        /\ m.kind = proc[p].kind /\ m.at = proc[p].at /\ m.verdict = Verdict(items)
    BY <1>1, <2>2 DEF Memory
  <2> HIDE DEF m
  <2>4. MemoryOK(p, m)
    BY <2>3, Proceeding
  <2>5. CopyOK(m, items, e, c)
    BY <2>3 DEF CopyOK, Expected, Unblocked
  <2> QED
    BY <2>1, <2>3, <2>4, <2>5
<1> QED
  BY <1>2, <1>3

\* Acknowledging or blocking an intent.
LEMMA CloseStep ==
    ASSUME NEW p \in Workers, IInv, NEW s \in {"completed", "blocked"}, Close(p, s),
           proc[p].pc = IF s = "completed" THEN "complete" ELSE "failed"
    PROVE  IInv'
<1>1. p \in Procs /\ proc[p].pc \in Working
  BY DEF Procs, Working, Unblocked
<1>2. /\ proc[p] \in Memory /\ MemoryOK(p, proc[p]) /\ proc[p].run \in Runs
      /\ proc[p].kind \in Kinds /\ proc[proc[p].run].pc # "running"
      /\ CopyOK(proc[p], Items(p), effects[proc[p].run], p \in current)
      /\ WellFormed(Item(p)) /\ Item(p) = Items(p)[proc[p].kind]
  BY <1>1, InHand DEF Items, Memory
<1>3. CASE /\ Become(p, Settling(p, [Items(p) EXCEPT ![proc[p].kind] = Closed(@, s)]))
           /\ Put(p, Closed(Item(p), s))
  <2> DEFINE i == Closed(Item(p), s)
             items == [Items(p) EXCEPT ![proc[p].kind] = i]
             m == Settling(p, items)
  <2>1. Item(p).status = "claimed"
    BY <1>2, <1>3 DEF CopyOK, Expected, Put
  <2>2. WellFormed(i) /\ i.status = s
    <3>1. NoTime \in Times
      BY OutboxBoundsAssumption DEF NoTime, Times
    <3> QED
      BY <1>2, <3>1, IntentOperators
  <2>3. Put(p, i) /\ proc' = [proc EXCEPT ![p] = m]
    <3>1. items = [Items(p) EXCEPT ![proc[p].kind] = Closed(@, s)]
      BY <1>2
    <3> QED
      BY <1>3, <3>1 DEF Become
  <2> HIDE DEF i
  <2>4. outbox'[proc[p].run] = items /\ items[proc[p].kind] = i
    BY <1>1, <2>1, <2>3, PutItems DEF Acknowledged
  <2> HIDE DEF items
  <2>5. /\ MemoryOK(p, m) /\ m.pc # "running"
        /\ m.run \in Runs =>
              /\ m.run = proc[p].run
              /\ CopyOK(m, outbox'[proc[p].run], effects[proc[p].run], p \in current')
    <3> DEFINE c == p \in current'
    <3>1. c \in BOOLEAN
      OBVIOUS
    <3> HIDE DEF c
    <3>2. /\ MemoryOK(p, m) /\ m.pc # "running"
          /\ m.run \in Runs =>
                m.run = proc[p].run /\ CopyOK(m, items, effects[proc[p].run], c)
      BY <1>1, <2>2, <2>4, <3>1, SettlingMemory
    <3> QED
      BY <2>4, <3>2 DEF c
  <2> HIDE DEF m
  <2>6. /\ proc' \in [Procs -> Memory] /\ proc'[p] = m
        /\ \A q \in Procs \ {p} : proc'[q] = proc[q]
    BY <1>1, <2>3, <2>5 DEF IInv, TypeOK, MemoryOK
  <2>7. i.status = "completed" => proc[p].kind \in effects[proc[p].run]
    BY <1>2, <2>2 DEF CopyOK
  <2> QED
    BY <1>1, <1>2, <2>1, <2>2, <2>3, <2>5, <2>6, <2>7, PutStep DEF Close
<1>4. CASE /\ Become(p, Settling(p, Items(p))) /\ Reload(p)
           /\ UNCHANGED outbox
  <2> DEFINE m == Settling(p, Items(p))
             c == p \in current'
  <2>1. c \in BOOLEAN /\ current' \subseteq current \cup {p}
    BY <1>4 DEF Reload, Copies
  <2>2. Items(p)[proc[p].kind].status \in {"absent", "pending", "claimed", "completed", "blocked"}
    BY <1>2 DEF WellFormed, Intents
  <2> HIDE DEF c
  <2>3. /\ MemoryOK(p, m) /\ m.pc # "running"
        /\ m.run \in Runs =>
              m.run = proc[p].run /\ CopyOK(m, Items(p), effects[proc[p].run], c)
    BY <1>1, <2>1, <2>2, SettlingMemory
  <2> HIDE DEF m
  <2>4. m.run \in Runs =>
          /\ m.run = p \/ proc[m.run].pc # "running"
          /\ CopyOK(m, outbox[m.run], effects[m.run], p \in current')
    BY <1>2, <2>3 DEF c, Items
  <2>5. proc' = [proc EXCEPT ![p] = m] /\ interrupts' \in 0 .. MaxInterrupts
    BY <1>4 DEF m, Become, Close, IInv, TypeOK
  <2> QED
    BY <1>1, <1>4, <2>1, <2>3, <2>4, <2>5, ReadStep DEF Close
<1> QED
  BY <1>3, <1>4 DEF Close

\* Giving a failed intent back for another attempt, or failing to.
LEMMA RetryStep ==
    ASSUME NEW p \in Workers, IInv, Retry(p)
    PROVE  IInv'
<1>1. p \in Procs /\ proc[p].pc \in Working /\ proc[p].pc = "failed"
  BY DEF Procs, Retry, Working, Unblocked
<1>2. /\ proc[p] \in Memory /\ MemoryOK(p, proc[p]) /\ proc[p].run \in Runs
      /\ CopyOK(proc[p], Items(p), effects[proc[p].run], p \in current)
      /\ WellFormed(Item(p)) /\ Item(p) = Items(p)[proc[p].kind]
  BY <1>1, InHand DEF Items
<1>3. CASE UNCHANGED <<outbox, current>>
  BY <1>1, <1>3, DropStep DEF Retry
<1>4. CASE Put(p, Pending(Item(p), Upto(proc[p].at + Backoff)))
  <2> DEFINE t == Upto(proc[p].at + Backoff)
             i == Pending(Item(p), t)
             m == Onward(p)
  <2>1. t \in Times
    <3>1. proc[p].at \in Times /\ proc[p].at # NoTime
      BY <1>1, <1>2 DEF MemoryOK, Memory, Working
    <3> QED
      BY <3>1, LaterType, OutboxBoundsAssumption
  <2>2. WellFormed(i) /\ i.status = "pending"
    <3> HIDE DEF t
    <3> QED
      BY <1>2, <2>1, IntentOperators
  <2>3. Put(p, i) /\ proc' = [proc EXCEPT ![p] = m]
    BY <1>4 DEF Retry, Become
  <2>4. Item(p).status = "claimed"
    BY <1>1, <1>2, <1>4 DEF CopyOK, Expected, Put
  <2> HIDE DEF t, i
  <2>5. MemoryOK(p, m) /\ m.run \notin Runs /\ m.pc # "running"
    BY <1>1, <1>2, OnwardMemory, ProcsAssumption
  <2> HIDE DEF m
  <2>6. /\ proc' \in [Procs -> Memory] /\ proc'[p] = m
        /\ \A q \in Procs \ {p} : proc'[q] = proc[q]
    BY <1>1, <2>3, <2>5 DEF IInv, TypeOK, MemoryOK
  <2> QED
    BY <1>1, <1>2, <2>2, <2>3, <2>4, <2>5, <2>6, PutStep DEF Retry
<1> QED
  BY <1>3, <1>4 DEF Retry

\* Writing the projection state that the current copy derived.
LEMMA SettleStep ==
    ASSUME NEW p \in Procs, IInv, Settle(p)
    PROVE  IInv'
<1> DEFINE r == proc[p].run
           m == Onward(p)
<1>1. /\ proc[p] \in Memory /\ MemoryOK(p, proc[p]) /\ r \in Runs /\ proc[r].pc # "running"
      /\ proc[p].verdict = Verdict(outbox[r]) /\ proc[p].pc \in Working
  BY InHand DEF CopyOK, Settle, Working
<1>2. MemoryOK(p, m) /\ m.run \notin Runs /\ m.pc # "running"
  BY <1>1, OnwardMemory, ProcsAssumption DEF Settle
<1>3. proc' = [proc EXCEPT ![p] = m] /\ current' \subseteq Procs
  BY DEF Settle, Become, Written, Copies, IInv, TypeOK
<1> HIDE DEF m
<1>4. /\ proc' \in [Procs -> Memory] /\ proc'[p] = m
      /\ \A q \in Procs \ {p} : proc'[q] = proc[q]
  BY <1>2, <1>3 DEF IInv, TypeOK, MemoryOK
<1>5. /\ projection' \in [Runs -> {"pending", "settled", "blocked"}]
      /\ projection'[r] = Verdict(outbox[r])
      /\ \A s \in Runs : s # r => projection'[s] = projection[s]
  BY <1>1, VerdictMeaning DEF Settle, IInv, TypeOK
<1>6. updated' \in [Runs -> Times]
  BY <1>1 DEF Settle, IInv, TypeOK, Memory
<1>7. TypeOK'
  BY <1>3, <1>4, <1>5, <1>6 DEF Settle, IInv, TypeOK
<1>8. StatusIsPublishedLast' /\ CompletedIsProjected'
  BY DEF Settle, IInv, StatusIsPublishedLast, CompletedIsProjected
<1>9. VerdictIsHonest'
  BY <1>1, <1>5, VerdictMeaning DEF Settle, IInv, VerdictIsHonest, Acknowledged
<1>10. HeldOK(p)'
  BY <1>2, <1>4 DEF HeldOK
<1>11. \A q \in Procs \ {p} : q \in current' => q \in current
  BY DEF Settle, Written, Copies
<1>12. \A s \in Runs : proc[s].pc = "running" => projection'[s] = projection[s]
  BY <1>1, <1>5
<1> QED
  BY <1>2, <1>4, <1>7, <1>8, <1>9, <1>10, <1>11, <1>12, Preserved DEF Settle

\* The settlement was lost.
LEMMA SettleLostStep ==
    ASSUME NEW p \in Procs, IInv, SettleLost(p)
    PROVE  IInv'
<1>1. proc[p].pc \in Working
  BY DEF SettleLost, Working
<1> QED
  BY <1>1, DropStep DEF SettleLost

\* The end of a Run, whose intents nobody holds yet.
LEMMA TerminateStep ==
    ASSUME NEW r \in Runs, IInv, Terminate(r)
    PROVE  IInv'
<1> DEFINE m == [Fresh("ended") EXCEPT !.run = r]
<1>1. /\ r \in Procs /\ r \notin Workers /\ proc[r].pc = "running"
      /\ \A k \in Kinds : outbox[r][k].status = "absent"
      /\ effects[r] = {} /\ projection[r] = "pending"
  BY ProcsAssumption DEF Procs, Terminate, IInv, RunningOK
<1>2. PICK minted \in {Kinds, Kinds \ {"message"}} :
          outbox' = [outbox EXCEPT ![r] = [k \in Kinds |-> IF k \in minted THEN Minted ELSE Absent]]
  BY DEF Terminate
<1>3. /\ \A k \in Kinds : WellFormed(outbox'[r][k]) 
      /\ \A k \in Kinds : outbox'[r][k].status \in {"absent", "pending"}
      /\ \A s \in Runs : s # r => outbox'[s] = outbox[s]
      /\ outbox' \in [Runs -> [Kinds -> Intents]]
  BY <1>2, MintedIntents DEF IInv, TypeOK, WellFormed
<1>4. m \in Memory /\ m.pc = "ended" /\ m.run = r /\ m.batch = {}
  <2>1. NoTime \in Times /\ 0 \in 0 .. MaxAttempts
    BY OutboxBoundsAssumption DEF NoTime, Times
  <2> QED
    BY <2>1 DEF Fresh, Memory, Kinds
<1>5. proc' = [proc EXCEPT ![r] = m]
  BY DEF Terminate, Become
<1> HIDE DEF m
<1>6. MemoryOK(r, m)
  BY <1>1, <1>4 DEF MemoryOK, Working, Unblocked
<1>7. /\ proc' \in [Procs -> Memory] /\ proc'[r] = m
      /\ \A q \in Procs \ {r} : proc'[q] = proc[q]
  BY <1>1, <1>4, <1>5 DEF IInv, TypeOK
<1>8. TypeOK'
  <2>1. \A s \in Runs, k \in Kinds :
          outbox'[s][k].lease # NoTime <=> outbox'[s][k].status = "claimed"
    BY <1>3 DEF WellFormed, IInv, TypeOK
  <2>2. updated' \in [Runs -> Times]
    BY TimeConstants DEF Terminate, IInv, TypeOK
  <2> QED
    BY <1>3, <1>7, <2>1, <2>2 DEF Terminate, IInv, TypeOK
<1>9. StatusIsPublishedLast' /\ CompletedIsProjected' /\ VerdictIsHonest'
  <2>1. StatusIsPublishedLast'
    BY <1>1, <1>3 DEF Terminate, IInv, StatusIsPublishedLast
  <2>2. CompletedIsProjected'
    BY <1>1, <1>3 DEF Terminate, IInv, CompletedIsProjected
  <2>3. VerdictIsHonest'
    BY <1>1, <1>3 DEF Terminate, IInv, VerdictIsHonest
  <2> QED
    BY <2>1, <2>2, <2>3
<1>10. HeldOK(r)'
  <2>1. outbox'[r][m.kind].status \in {"absent", "pending", "claimed", "completed", "blocked"}
    BY <1>3, <1>4 DEF Memory
  <2>2. CopyOK(m, outbox'[r], effects'[r], r \in current')
    BY <1>4, <2>1 DEF CopyOK, Expected, Unblocked
  <2> QED
    BY <1>4, <1>7, <2>2 DEF HeldOK
<1>11. \A q \in Procs : proc[q].run \in Runs => proc[q].run # r
  BY <1>1 DEF IInv, ProcsOK, HeldOK
<1>12. \A q \in Procs \ {r} : q \in current' =>
          q \in current /\ (proc[q].run \in Runs => outbox'[proc[q].run] = outbox[proc[q].run])
  BY <1>3, <1>11 DEF Terminate
<1>13. \A s \in Runs : proc[s].pc # "running" => outbox'[s] = outbox[s]
  BY <1>1, <1>3
<1> QED
  BY <1>1, <1>3, <1>4, <1>6, <1>7, <1>8, <1>9, <1>10, <1>12, <1>13, Preserved DEF Terminate

\* The kernel that ended the Run settles it once.
LEMMA DriverSettleStep ==
    ASSUME NEW r \in Runs, IInv, DriverSettle(r)
    PROVE  IInv'
<1>1. /\ r \in Procs /\ r \notin Workers /\ proc[r].pc = "ended" /\ proc[r].pc \in Working
      /\ current' \subseteq current \cup {r} /\ interrupts' \in 0 .. MaxInterrupts
  BY ProcsAssumption DEF Procs, DriverSettle, Working, Reload, Copies, IInv, TypeOK
<1>2. /\ proc[r] \in Memory /\ MemoryOK(r, proc[r]) /\ proc[r].kind \in Kinds
      /\ CopyOK(proc[r], outbox[proc[r].run], effects[proc[r].run], r \in current)
  BY <1>1, InHand DEF Memory
<1>3. proc[r].run = r
  BY <1>1, <1>2, ProcsAssumption DEF MemoryOK
<1>4. CASE proc' = [proc EXCEPT ![r] = Fresh("done")]
  <2>1. MemoryOK(r, Fresh("done")) /\ Fresh("done").run \notin Runs /\ Fresh("done").pc # "running"
    BY FreshMemory, ProcsAssumption
  <2> QED
    BY <1>1, <1>4, <2>1, ReadStep DEF DriverSettle
<1>5. CASE proc' = [proc EXCEPT ![r] =
                      [@ EXCEPT !.pc = "settle", !.verdict = Verdict(outbox[r]), !.at = now]]
  <2> DEFINE m == [proc[r] EXCEPT !.pc = "settle", !.verdict = Verdict(outbox[r]), !.at = now]
  <2>1. proc' = [proc EXCEPT ![r] = m]
    BY <1>1, <1>5 DEF IInv, TypeOK
  <2>2. Verdict(outbox[r]) \in {"pending", "settled", "blocked"} /\ now \in Times /\ now # NoTime
    BY VerdictMeaning, TimeConstants DEF IInv, TypeOK
  <2>3. /\ m \in Memory /\ m.pc = "settle" /\ m.run = r /\ m.kind = proc[r].kind
        /\ m.at = now /\ m.verdict = Verdict(outbox[r]) /\ m.batch = proc[r].batch
    BY <1>2, <1>3, <2>2 DEF Memory
  <2> HIDE DEF m
  <2>4. MemoryOK(r, m) /\ m.pc # "running"
    BY <1>1, <1>2, <2>2, <2>3 DEF MemoryOK, Working, Unblocked
  <2>5. CopyOK(m, outbox[r], effects[r], r \in current')
    <3>1. outbox[r][m.kind].status \in {"absent", "pending", "claimed", "completed", "blocked"}
      BY <1>2, <2>3 DEF IInv, TypeOK, Intents
    <3> QED
      BY <2>3, <3>1 DEF CopyOK, Expected, Unblocked
  <2> QED
    BY <1>1, <2>1, <2>3, <2>4, <2>5, ReadStep DEF DriverSettle
<1> QED
  BY <1>4, <1>5 DEF DriverSettle

\* A write of another owner of the aggregate outdates every copy.
LEMMA TouchStep ==
    ASSUME NEW r \in Runs, IInv, Touch(r)
    PROVE  IInv'
<1>1. r \in Procs /\ proc[r].pc # "running" /\ current' \subseteq current
  BY DEF Procs, Touch
<1>2. TypeOK'
  BY <1>1, OutboxBoundsAssumption DEF Touch, IInv, TypeOK
<1>3. StatusIsPublishedLast' /\ CompletedIsProjected' /\ VerdictIsHonest'
  BY DEF Touch, IInv, StatusIsPublishedLast, CompletedIsProjected, VerdictIsHonest
<1>4. MemoryOK(r, proc[r])' /\ HeldOK(r)'
  BY <1>1 DEF Touch, IInv, ProcsOK, HeldOK, CopyOK, Expected, TypeOK, Intents
<1> QED
  BY <1>1, <1>2, <1>3, <1>4, Preserved DEF Touch

\* A death, or a failure that ends the sweep.
LEMMA InterruptStep ==
    ASSUME NEW p \in Procs, IInv, Interrupt(p)
    PROVE  IInv'
<1> DEFINE m == Fresh(IF p \in Runs THEN "done" ELSE "idle")
<1>1. MemoryOK(p, m) /\ m.run \notin Runs /\ m.pc # "running"
  <2>1. CASE p \in Runs
    BY <2>1, FreshMemory, ProcsAssumption
  <2>2. CASE p \notin Runs
    BY <2>2, FreshMemory, ProcsAssumption DEF Procs
  <2> QED
    BY <2>1, <2>2
<1>2. interrupts' \in 0 .. MaxInterrupts
  BY OutboxBoundsAssumption DEF Interrupt, IInv, TypeOK
<1>3. proc' = [proc EXCEPT ![p] = m]
  BY DEF Interrupt, Become
<1> HIDE DEF m
<1> QED
  BY <1>1, <1>2, <1>3, ReadStep DEF Interrupt

\* Time passes for everybody alike, and so does a step that changes nothing.
LEMMA TimeStep ==
    ASSUME IInv, Tick \/ UNCHANGED vars
    PROVE  IInv'
<1>1. UNCHANGED <<outbox, projection, updated, effects, proc, current, interrupts, touches>>
  BY DEF Tick, vars
<1>2. now' \in 0 .. Horizon
  BY OutboxBoundsAssumption DEF Tick, vars, IInv, TypeOK
<1>3. TypeOK'
  BY <1>1, <1>2 DEF IInv, TypeOK
<1>4. ProcsOK' /\ \A r \in Runs : RunningOK(r)'
  BY <1>1 DEF IInv, ProcsOK, HeldOK, RunningOK
<1> QED
  BY <1>1, <1>3, <1>4 DEF IInv, StatusIsPublishedLast, CompletedIsProjected, VerdictIsHonest
-----------------------------------------------------------------------------
(* The theorems                                                            *)

\* The invariant holds before any Run has ended.
LEMMA Initially == Init => IInv
<1> SUFFICES ASSUME Init PROVE IInv
  OBVIOUS
<1>1. NoTime \in Times /\ 0 \in Times /\ 0 \in 0 .. MaxAttempts
  BY OutboxBoundsAssumption DEF NoTime, Times
<1>2. \A p \in Procs : /\ proc[p] = Fresh(IF p \in Runs THEN "running" ELSE "idle")
                       /\ MemoryOK(p, proc[p]) /\ proc[p].run = NoRun
  BY FreshMemory DEF Init, Procs
<1>3. proc \in [Procs -> Memory]
  BY <1>2 DEF Init, MemoryOK
<1>4. TypeOK
  BY <1>1, <1>3, MintedIntents, OutboxBoundsAssumption DEF Init, TypeOK, WellFormed
<1>5. ProcsOK
  BY <1>2, ProcsAssumption DEF ProcsOK, HeldOK
<1>6. \A r \in Runs : RunningOK(r)
  BY MintedIntents DEF Init, RunningOK
<1>7. StatusIsPublishedLast /\ CompletedIsProjected /\ VerdictIsHonest
  BY MintedIntents DEF Init, StatusIsPublishedLast, CompletedIsProjected, VerdictIsHonest
<1> QED
  BY <1>4, <1>5, <1>6, <1>7 DEF IInv

\* Every step preserves the invariant.
LEMMA Preservation == IInv /\ [Next]_vars => IInv'
<1> SUFFICES ASSUME IInv, [Next]_vars PROVE IInv'
  OBVIOUS
<1>1. ASSUME NEW p \in Workers, Sweep(p) PROVE IInv'
  <2>1. ASSUME Complete(p) PROVE IInv'
    BY <2>1, CloseStep DEF Complete
  <2>2. ASSUME Block(p) PROVE IInv'
    BY <2>2, CloseStep DEF Block
  <2> QED
    BY <1>1, <2>1, <2>2, ListStep, BeginStep, ReleaseExpiredStep, ReleaseLostStep, ClaimCheckStep,
       ClaimCasStep, ClaimLostStep, ClaimReplayedStep, ProjectStep, RetryStep DEF Sweep
<1>2. ASSUME NEW p \in Procs, Settle(p) \/ SettleLost(p) \/ Interrupt(p) PROVE IInv'
  BY <1>2, SettleStep, SettleLostStep, InterruptStep
<1>3. ASSUME NEW r \in Runs, Terminate(r) \/ DriverSettle(r) \/ Touch(r) PROVE IInv'
  BY <1>3, TerminateStep, DriverSettleStep, TouchStep
<1> QED
  BY <1>1, <1>2, <1>3, TimeStep DEF Next

\* The invariant holds for every number of Runs and loops.
LEMMA OutboxInvariance == Spec => []IInv
BY Initially, Preservation, PTL DEF Spec

\* Types, and a claim expiry exactly on claimed intents.
THEOREM OutboxTypeCorrectness == Spec => []TypeOK
<1>1. IInv => TypeOK
  BY DEF IInv
<1> QED
  BY <1>1, OutboxInvariance, PTL

\* The settlement of a Run is published last.
THEOREM PublishedLast == Spec => []StatusIsPublishedLast
<1>1. IInv => StatusIsPublishedLast
  BY DEF IInv
<1> QED
  BY <1>1, OutboxInvariance, PTL

\* An acknowledged intent has its effect in place.
THEOREM AcknowledgedIsProjected == Spec => []CompletedIsProjected
<1>1. IInv => CompletedIsProjected
  BY DEF IInv
<1> QED
  BY <1>1, OutboxInvariance, PTL

\* The projection state says no more than the intents do.
THEOREM HonestVerdict == Spec => []VerdictIsHonest
<1>1. IInv => VerdictIsHonest
  BY DEF IInv
<1> QED
  BY <1>1, OutboxInvariance, PTL

\* What a current copy shows as held is not final, so a write never changes an
\* acknowledged or blocked intent.
LEMMA PutIsOpen ==
    ASSUME NEW p \in Procs, IInv, NEW i, Put(p, i),
           proc[p].pc \in {"release", "claimCas", "complete", "failed"},
           NEW r \in Runs, NEW k \in Kinds, outbox[r][k].status \in {"completed", "blocked"}
    PROVE  outbox'[r][k] = outbox[r][k]
<1>1. proc[p].pc \in Working /\ p \in current
  BY DEF Working, Unblocked, Put
<1>2. /\ proc[p].run \in Runs /\ proc[p].kind \in Kinds
      /\ outbox[proc[p].run][proc[p].kind].status \in {"pending", "claimed"}
  BY <1>1, InHand DEF CopyOK, Expected, Memory
<1> QED
  BY <1>2 DEF Put, IInv, TypeOK

\* No step changes an acknowledged or blocked intent.
LEMMA FinalStep ==
    ASSUME IInv, [Next]_vars,
           NEW r \in Runs, NEW k \in Kinds, outbox[r][k].status \in {"completed", "blocked"}
    PROVE  outbox'[r][k] = outbox[r][k]
<1>1. ASSUME NEW p \in Workers, Sweep(p) PROVE outbox'[r][k] = outbox[r][k]
  <2>1. p \in Procs
    BY DEF Procs
  <2>2. ASSUME NEW s, Close(p, s), proc[p].pc \in {"complete", "failed"}
        PROVE  outbox'[r][k] = outbox[r][k]
    BY <2>1, <2>2, PutIsOpen DEF Close
  <2>3. CASE ReleaseExpired(p) \/ ClaimCas(p) \/ Retry(p)
    BY <2>1, <2>3, PutIsOpen DEF ReleaseExpired, ClaimCas, Retry
  <2>4. CASE Complete(p) \/ Block(p)
    BY <2>2, <2>4 DEF Complete, Block
  <2>5. CASE \/ List(p) \/ Begin(p) \/ ReleaseLost(p) \/ ClaimCheck(p) \/ ClaimLost(p)
             \/ ClaimReplayed(p) \/ Project(p)
    BY <2>5 DEF List, Begin, ReleaseLost, ClaimCheck, ClaimLost, ClaimReplayed, Project
  <2> QED
    BY <1>1, <2>3, <2>4, <2>5 DEF Sweep
<1>2. ASSUME NEW s \in Runs, Terminate(s) PROVE outbox'[r][k] = outbox[r][k]
  <2>1. s # r
    BY <1>2 DEF Terminate, IInv, RunningOK
  <2> QED
    BY <1>2, <2>1 DEF Terminate, IInv, TypeOK
<1>3. CASE \/ \E p \in Procs : Settle(p) \/ SettleLost(p) \/ Interrupt(p)
           \/ \E s \in Runs : DriverSettle(s) \/ Touch(s)
           \/ Tick \/ UNCHANGED vars
  BY <1>3 DEF Settle, SettleLost, Interrupt, DriverSettle, Touch, Tick, vars
<1> QED
  BY <1>1, <1>2, <1>3 DEF Next

\* An acknowledged or blocked intent is never reopened, by a worker that lost
\* its lease, by a lost answer or by anyone else.
THEOREM FinalOutcome == Spec => OutcomeIsFinal
<1>1. IInv /\ [Next]_vars =>
        [\A r \in Runs, k \in Kinds :
            outbox[r][k].status \in {"completed", "blocked"} => outbox'[r][k] = outbox[r][k]]_vars
  BY FinalStep
<1> QED
  BY <1>1, OutboxInvariance, PTL DEF Spec, OutcomeIsFinal
=============================================================================
