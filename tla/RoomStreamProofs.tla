-------------------------- MODULE RoomStreamProofs --------------------------
(***************************************************************************)
(* Proofs about RoomStream, for any number of publishers and events and    *)
(* for every value of the limits.                                          *)
(*                                                                         *)
(* The log only grows.  What is under way towards the browser, queued,     *)
(* sent, buffered or half folded, names events of the log, and every       *)
(* watermark under way covers no hole.  A client that has its snapshot     *)
(* shows the events up to the last one it applied; a fold that waits is at *)
(* most one beyond that, also when its stream was given up.                *)
(***************************************************************************)
EXTENDS RoomStream, FiniteSetTheorems, TLAPS

\* The log l has no hole up to n.
Solid(l, n) == \A m \in 1..n : l[m] # "hole"

\* n names an event of the log l.
Durable(l, n) == n \in Slots /\ l[n] \in Events

FrameOK(l, f) ==
    /\ f.t = "delta" => Durable(l, f.n)
    /\ f.t = "snapshot" => f.n \in 0..MaxSeq /\ Solid(l, f.n)
    /\ f.t = "heartbeat" => f.n \in 0..MaxSeq

FramesOK(l, q) == \A i \in 1..Len(q) : FrameOK(l, q[i])

\* A publisher with memory m works on an event, in a slot the counter c has
\* passed; once it has written, the slot holds its event.
PubOK(l, c, m) ==
    /\ m.pc \in {"insert", "fill", "heal", "send"} => m.n \in 1..c
    /\ m.pc \in {"alloc", "insert", "fill", "heal", "send"} => m.ev \in Events
    /\ m.pc \in {"alloc", "insert"} => m.tries < MaxAttempts
    /\ m.pc = "fill" => \E n \in Slots : l[n] = m.ev
    /\ m.pc \in {"heal", "send"} => l[m.n] = m.ev

\* A stream s holds events of the log, and a fold at most one beyond a.
StreamOK(l, a, s) ==
    /\ FramesOK(l, s.in)
    /\ \A i \in 1..Len(s.todo) : s.todo[i] # 0 => Durable(l, s.todo[i])
    /\ s.busy # 0 => Durable(l, s.busy) /\ s.busy <= a + 1

\* A client c that shows v.
ClientOK(l, c, v) ==
    /\ \A i \in 1..Len(c.early) : Durable(l, c.early[i])
    /\ \A n \in c.window \cup v : Durable(l, n)
    /\ ~c.snap => c.window = {}
    /\ c.snap => /\ c.cap = "seq" /\ c.last <= c.applied
                 /\ v = {n \in 1..c.applied : l[n] \in Events} /\ Solid(l, c.applied)

\* The log and its writers; the connection; the browser.
LogOK ==
    /\ log \in [Slots -> Events \cup {"hole", "skip"}]
    /\ \A m, n \in Slots : log[m] = log[n] /\ log[m] \in Events => m = n
    /\ seq \in 0..MaxSeq /\ healed \in 0..MaxSeq
    /\ \A n \in Slots : log[n] # "hole" => n <= seq
    /\ pub \in [Publishers -> Memory]
    /\ \A p \in Publishers : PubOK(log, seq, pub[p])

ConnOK ==
    /\ conn \in Conns /\ Len(conn.q) <= QueueMax
    /\ FramesOK(log, conn.q) /\ Solid(log, conn.shot)

EdgeOK ==
    /\ edge \in [Edges -> {NoEdge, EdgeDue} \cup 0..MaxSeq]
    /\ \A k \in Edges : Solid(log, edge[k])

\* The readers, and the reducer with what it shows.
ReadersOK(l, a, rd) ==
    rd \in [Readers -> Streams] /\ \A r \in Readers : StreamOK(l, a, rd[r])

ReducerOK(l, c, v) ==
    c \in Clients /\ Len(c.early) <= EarlyMax /\ v \subseteq Slots /\ ClientOK(l, c, v)

BrowserOK == ReadersOK(log, client.applied, reader) /\ ReducerOK(log, client, view)

IInv == LogOK /\ ConnOK /\ EdgeOK /\ BrowserOK /\ faults \in 0..MaxFaults
-----------------------------------------------------------------------------
(* Numbers and sequences                                                   *)

\* Every set of natural numbers has a least one.
LEMMA LeastNatural ==
    ASSUME NEW T, T \subseteq Nat, T # {}
    PROVE  \E x \in T : \A y \in T : x <= y
<1> DEFINE R == OpToRel(<, Nat)
<1>1. IsWellFoundedOn(R, Nat)
  BY NatLessThanWellFounded
<1>2. \A x, y \in Nat : <<y, x>> \notin R => x <= y
  BY DEF OpToRel
<1> HIDE DEF R
<1>3. \E x \in T : \A y \in T : ~ (<<y, x>> \in R)
  BY <1>1, WFMin
<1> QED BY <1>2, <1>3

\* Kept keeps some of the elements, and makes no new ones.
LEMMA KeptSeq ==
    ASSUME NEW S, NEW s \in Seq(S), NEW I \in SUBSET (1..Len(s))
    PROVE  /\ Kept(s, I) \in Seq(S)
           /\ Len(Kept(s, I)) <= Len(s)
           /\ \A k \in 1..Len(Kept(s, I)) : \E i \in I : Kept(s, I)[k] = s[i]
<1> DEFINE Below(i) == {j \in I : j <= i}
           n == Cardinality(I)
           r == [i \in I |-> Cardinality(Below(i))]
<1>0. Len(s) \in Nat /\ I \subseteq Int /\ \A i \in I : s[i] \in S
  OBVIOUS
<1>1. IsFiniteSet(I) /\ n \in Nat /\ n <= Len(s)
  <2>1. IsFiniteSet(1..Len(s)) /\ Cardinality(1..Len(s)) = Len(s)
    BY <1>0, FS_Interval
  <2> QED BY <2>1, FS_Subset, FS_CardinalityType
<1>2. ASSUME NEW i \in I
      PROVE  IsFiniteSet(Below(i)) /\ Cardinality(Below(i)) \in 1..n
  <2>1. Below(i) \subseteq I /\ i \in Below(i)
    OBVIOUS
  <2>2. IsFiniteSet(Below(i)) /\ Cardinality(Below(i)) <= n /\ Cardinality(Below(i)) \in Nat
    BY <1>1, <2>1, FS_Subset, FS_CardinalityType
  <2>3. Cardinality(Below(i)) # 0
    BY <2>1, <2>2, FS_EmptySet
  <2> HIDE DEF n
  <2> QED BY <1>1, <2>2, <2>3
<1>3. ASSUME NEW i \in I, NEW j \in I, i < j PROVE Cardinality(Below(i)) # Cardinality(Below(j))
  <2>1. Below(i) \in SUBSET Below(j) /\ j \notin Below(i) /\ j \in Below(j)
    <3>1. \A k \in I : k <= i => k <= j
      BY <1>0, <1>3
    <3>2. ~ (j <= i) /\ j <= j
      BY <1>0, <1>3
    <3> QED BY <3>1, <3>2
  <2> QED BY <1>2, <2>1, FS_Subset
<1>4. r \in Injection(I, 1..n)
  <2>1. r \in [I -> 1..n]
    BY <1>2
  <2>2. \A i, j \in I : r[i] = r[j] => i = j
    BY <1>0, <1>3
  <2> QED BY <2>1, <2>2 DEF Injection, IsInjective
<1>5. IsFiniteSet(1..n) /\ Cardinality(1..n) = n
  BY <1>1, FS_Interval
<1>6. r \in Surjection(I, 1..n)
  BY <1>4, <1>5, FS_Injection
<1>7. \A k \in 1..n : \E i \in I : Cardinality(Below(i)) = k
  BY <1>6 DEF Surjection
<1>8. \A k \in 1..n : (CHOOSE i \in I : Cardinality(Below(i)) = k) \in I
  BY <1>7
<1>9. Kept(s, I) = [k \in 1..n |-> s[CHOOSE i \in I : Cardinality(Below(i)) = k]]
  BY DEF Kept
<1>10. \A k \in 1..n : \E i \in I : Kept(s, I)[k] = s[i] /\ s[i] \in S
  <2> SUFFICES ASSUME NEW k \in 1..n PROVE \E i \in I : Kept(s, I)[k] = s[i] /\ s[i] \in S
    OBVIOUS
  <2> DEFINE i == CHOOSE i \in I : Cardinality(Below(i)) = k
  <2>1. i \in I
    BY <1>8
  <2>2. Kept(s, I)[k] = s[i]
    BY <1>9
  <2> HIDE DEF i
  <2> QED BY <1>0, <2>1, <2>2
<1>11. DOMAIN Kept(s, I) = 1..n
  BY <1>9
<1> HIDE DEF n
<1>12. Kept(s, I) \in [1..n -> S]
  BY <1>9, <1>10, <1>11
<1>13. Kept(s, I) \in Seq(S) /\ Len(Kept(s, I)) = n
  BY <1>1, <1>12
<1> QED BY <1>1, <1>10, <1>13
-----------------------------------------------------------------------------
(* The log                                                                 *)

\* The bounds are what they are declared to be.
LEMMA Bounds ==
    /\ MaxSeq \in Nat /\ Grace \in Nat /\ Grace > 0 /\ MaxAttempts \in Nat /\ MaxAttempts > 0
    /\ QueueMax \in Nat /\ EarlyMax \in Nat /\ WireMax \in Nat /\ MaxFaults \in Nat
    /\ QueueMax > 0 /\ MaxSeq > 0
    /\ "hole" \notin Events /\ "skip" \notin Events /\ "none" \notin Events
BY RoomStreamAssumption

\* What is written in the log k stays as it is in l.
Grows(k, l) == \A n \in Slots : k[n] # "hole" => l[n] = k[n]

\* The contiguous prefix covers no hole.
LEMMA PrefixSolid ==
    ASSUME LogOK
    PROVE  Prefix \in 0..MaxSeq /\ Solid(log, Prefix)
<1> DEFINE Holes == {n \in Slots : log[n] = "hole"}
           Q(w) == /\ \A n \in 1..w : log[n] # "hole"
                   /\ w = MaxSeq \/ log[w + 1] = "hole"
<1>1. \E w \in 0..MaxSeq : Q(w)
  <2>1. CASE Holes = {}
    <3>1. MaxSeq \in 0..MaxSeq /\ Q(MaxSeq)
      BY <2>1, Bounds DEF Slots
    <3> QED BY <3>1
  <2>2. CASE Holes # {}
    <3>1. Holes \subseteq Nat
      BY Bounds DEF Slots
    <3>2. PICK h \in Holes : \A n \in Holes : h <= n
      BY <2>2, <3>1, LeastNatural
    <3>3. h \in 1..MaxSeq /\ log[h] = "hole"
      BY DEF Slots
    <3>4. h - 1 \in 0..MaxSeq /\ (h - 1) + 1 = h
      BY <3>3, Bounds
    <3>5. \A n \in 1..(h - 1) : log[n] # "hole"
      BY <3>2, <3>3, Bounds DEF Slots
    <3> QED BY <3>3, <3>4, <3>5
  <2> QED BY <2>1, <2>2
<1>2. Prefix = CHOOSE w \in 0..MaxSeq : Q(w)
  BY DEF Prefix
<1>3. Prefix \in 0..MaxSeq /\ Q(Prefix)
  BY <1>1, <1>2
<1> QED BY <1>3 DEF Solid

\* The slot of a logged event holds it.
LEMMA SlotHolds ==
    ASSUME NEW e, Logged(e)
    PROVE  SlotOf(e) \in Slots /\ log[SlotOf(e)] = e
BY DEF Logged, SlotOf

\* What is durable or solid stays so.
LEMMA GrowsKeeps ==
    ASSUME NEW k, NEW l, Grows(k, l)
    PROVE  /\ \A n : Durable(k, n) => Durable(l, n)
           /\ \A n \in -2..MaxSeq : Solid(k, n) => Solid(l, n)
           /\ \A f : FrameOK(k, f) => FrameOK(l, f)
           /\ \A q : FramesOK(k, q) => FramesOK(l, q)
           /\ \A a, s : StreamOK(k, a, s) => StreamOK(l, a, s)
<1>1. \A n : Durable(k, n) => Durable(l, n)
  BY Bounds DEF Durable, Grows
<1>2. \A n \in -2..MaxSeq : Solid(k, n) => Solid(l, n)
  BY Bounds DEF Solid, Grows, Slots
<1>3. \A f : FrameOK(k, f) => FrameOK(l, f)
  BY <1>1, <1>2, Bounds DEF FrameOK
<1>4. \A q : FramesOK(k, q) => FramesOK(l, q)
  BY <1>3 DEF FramesOK
<1>5. \A a, s : StreamOK(k, a, s) => StreamOK(l, a, s)
  BY <1>1, <1>4 DEF StreamOK
<1> QED BY <1>1, <1>2, <1>3, <1>4, <1>5

\* So does what a client shows.
LEMMA GrowsKeepsClient ==
    ASSUME NEW k, NEW l, Grows(k, l), NEW c \in Clients, NEW v, ClientOK(k, c, v)
    PROVE  ClientOK(l, c, v)
<1>1. c.applied \in 0..MaxSeq
  BY DEF Clients
<1>2. Solid(k, c.applied) => {n \in 1..c.applied : l[n] \in Events} = {n \in 1..c.applied : k[n] \in Events}
  BY <1>1, Bounds DEF Solid, Grows, Slots
<1>3. Solid(k, c.applied) => Solid(l, c.applied)
  BY <1>1, Bounds, GrowsKeeps
<1> QED BY <1>2, <1>3, GrowsKeeps DEF ClientOK

\* And what a publisher relies on.
LEMMA GrowsKeepsPub ==
    ASSUME NEW k, NEW l, Grows(k, l), NEW c \in 0..MaxSeq, NEW d \in 0..MaxSeq, c <= d,
           NEW m, PubOK(k, c, m)
    PROVE  PubOK(l, d, m)
<1>1. m.n \in 1..c => m.n \in 1..d /\ m.n \in Slots
  BY Bounds DEF Slots
<1> QED BY <1>1, Bounds DEF PubOK, Grows

\* A step that changes only the log and its writers, and lets the log grow,
\* keeps the rest of the invariant.
LEMMA LogStep ==
    ASSUME IInv, LogOK', Grows(log, log'), UNCHANGED <<conn, edge, reader, client, view>>,
           faults' \in 0..MaxFaults
    PROVE  IInv'
<1>1. ConnOK'
  <2>1. conn.shot \in -2..MaxSeq
    BY Bounds DEF IInv, ConnOK, Conns
  <2> QED BY <2>1, GrowsKeeps DEF IInv, ConnOK
<1>2. EdgeOK'
  <2>1. \A k \in Edges : edge[k] \in -2..MaxSeq
    BY Bounds DEF IInv, EdgeOK, NoEdge, EdgeDue
  <2> QED BY <2>1, GrowsKeeps DEF IInv, EdgeOK
<1>3. BrowserOK'
  BY GrowsKeeps, GrowsKeepsClient DEF IInv, BrowserOK, ReadersOK, ReducerOK
<1> QED BY <1>1, <1>2, <1>3 DEF IInv
-----------------------------------------------------------------------------
(* Publishers                                                              *)

\* What a log is, given the counter.
LogType(l, c) ==
    /\ l \in [Slots -> Events \cup {"hole", "skip"}]
    /\ \A m, n \in Slots : l[m] = l[n] /\ l[m] \in Events => m = n
    /\ \A n \in Slots : l[n] # "hole" => n <= c

\* A step of one publisher.
LEMMA PubStep ==
    ASSUME LogOK, NEW p \in Publishers, NEW m \in Memory, pub' = [pub EXCEPT ![p] = m],
           seq' \in 0..MaxSeq, seq <= seq', healed' \in 0..MaxSeq,
           LogType(log', seq'), Grows(log, log'), PubOK(log', seq', m)
    PROVE  LogOK'
<1>1. pub' \in [Publishers -> Memory]
  BY DEF LogOK
<1>2. \A q \in Publishers : PubOK(log', seq', pub'[q])
  <2> SUFFICES ASSUME NEW q \in Publishers PROVE PubOK(log', seq', pub'[q])
    OBVIOUS
  <2>1. CASE q = p
    BY <2>1 DEF LogOK
  <2>2. CASE q # p
    <3>1. pub'[q] = pub[q] /\ PubOK(log, seq, pub[q]) /\ seq \in 0..MaxSeq
      BY <2>2 DEF LogOK
    <3> QED BY <3>1, GrowsKeepsPub
  <2> QED BY <2>1, <2>2
<1> QED BY <1>1, <1>2 DEF LogOK, LogType

\* An event that is not logged goes into a hole.
LEMMA WriteEvent ==
    ASSUME LogOK, NEW e \in Events, ~Logged(e), NEW n \in Slots, log[n] = "hole",
           NEW c \in 0..MaxSeq, seq <= c, n <= c, log' = [log EXCEPT ![n] = e]
    PROVE  LogType(log', c) /\ Grows(log, log') /\ log'[n] = e
<1>1. log \in [Slots -> Events \cup {"hole", "skip"}] /\ seq \in 0..MaxSeq
  BY DEF LogOK
<1>2. log' \in [Slots -> Events \cup {"hole", "skip"}] /\ log'[n] = e
      /\ \A m \in Slots : m # n => log'[m] = log[m]
  BY <1>1
<1>3. \A m \in Slots : log[m] # e
  BY DEF Logged
<1>4. \A k, m \in Slots : log'[k] = log'[m] /\ log'[k] \in Events => k = m
  BY <1>2, <1>3 DEF LogOK
<1>5. \A m \in Slots : log'[m] # "hole" => m <= c
  BY <1>1, <1>2, Bounds DEF LogOK, Slots
<1> QED BY <1>2, <1>4, <1>5 DEF LogType, Grows

\* Tombstones up to the counter.
LEMMA WriteSkips ==
    ASSUME LogOK, NEW a \in Int, NEW b \in Int, b <= seq, log' = Skipped(a, b)
    PROVE  LogType(log', seq) /\ Grows(log, log')
<1>1. log \in [Slots -> Events \cup {"hole", "skip"}] /\ seq \in 0..MaxSeq
  BY DEF LogOK
<1>2. log' \in [Slots -> Events \cup {"hole", "skip"}]
      /\ \A m \in Slots : log'[m] = IF m \in a..b /\ log[m] = "hole" THEN "skip" ELSE log[m]
  BY <1>1 DEF Skipped
<1>3. \A k, m \in Slots : log'[k] = log'[m] /\ log'[k] \in Events => k = m
  BY <1>2, Bounds DEF LogOK
<1>4. \A m \in Slots : log'[m] # "hole" => m <= seq
  BY <1>1, <1>2, Bounds DEF LogOK, Slots
<1>5. Grows(log, log')
  BY <1>2 DEF Grows
<1> QED BY <1>2, <1>3, <1>4, <1>5 DEF LogType

\* A log that stays.
LEMMA LogStays ==
    ASSUME LogOK, log' = log, NEW c \in 0..MaxSeq, seq <= c
    PROVE  LogType(log', c) /\ Grows(log, log')
<1>1. \A n \in Slots : log[n] # "hole" => n <= c
  BY Bounds DEF LogOK, Slots
<1> QED BY <1>1 DEF LogOK, LogType, Grows

\* append, inside or outside its transaction.
LEMMA StepEmit ==
    ASSUME IInv, NEW p \in Publishers, NEW e \in Events, Emit(p, e)
    PROVE  IInv'
<1> DEFINE M(pc, n) == Begun(p, e, pc, n)
<1>0. /\ LogOK /\ pub[p] \in Memory /\ seq \in 0..MaxSeq /\ healed \in 0..MaxSeq
      /\ UNCHANGED <<healed, conn, edge, reader, client, view, faults>>
      /\ faults' \in 0..MaxFaults
  BY DEF IInv, LogOK, Emit
<1>1. \A pc \in {"send", "alloc"}, n \in 0..MaxSeq :
         /\ M(pc, n) \in Memory /\ M(pc, n).pc = pc /\ M(pc, n).n = n /\ M(pc, n).ev = e
         /\ M(pc, n).tries = 0
  <2> SUFFICES ASSUME NEW pc \in {"send", "alloc"}, NEW n \in 0..MaxSeq
               PROVE  /\ M(pc, n) \in Memory /\ M(pc, n).pc = pc /\ M(pc, n).n = n /\ M(pc, n).ev = e
                      /\ M(pc, n).tries = 0
    OBVIOUS
  <2>1. 0 \in 0..MaxAttempts
    BY Bounds
  <2>2. pub[p].done \cup {e} \in SUBSET Events /\ pub[p] \in Memory
    BY <1>0 DEF Memory
  <2> QED BY <2>1, <2>2 DEF Memory, Begun
<1>2. CASE Logged(e) /\ pub' = [pub EXCEPT ![p] = M("send", SlotOf(e))] /\ UNCHANGED <<log, seq>>
  <2> DEFINE m == M("send", SlotOf(e))
  <2>1. SlotOf(e) \in Slots /\ log[SlotOf(e)] = e /\ SlotOf(e) \in 0..MaxSeq /\ SlotOf(e) \in 1..seq
    BY <1>2, SlotHolds, Bounds DEF IInv, LogOK, Slots
  <2>2. m \in Memory /\ m.pc = "send" /\ m.n = SlotOf(e) /\ m.ev = e
    BY <1>1, <2>1
  <2>3. pub' = [pub EXCEPT ![p] = m]
    BY <1>2
  <2> HIDE DEF m
  <2>4. PubOK(log', seq', m)
    BY <1>2, <2>1, <2>2 DEF PubOK
  <2>5. LogType(log', seq') /\ Grows(log, log')
    BY <1>0, <1>2, LogStays
  <2>6. LogOK'
    <3>1. seq' \in 0..MaxSeq /\ seq <= seq' /\ healed' \in 0..MaxSeq
      BY <1>0, <1>2, Bounds
    <3> QED BY <1>0, <2>2, <2>3, <2>4, <2>5, <3>1, PubStep
  <2> QED BY <1>0, <2>5, <2>6, LogStep
<1>3. CASE /\ ~Logged(e) /\ seq < MaxSeq /\ seq' = seq + 1
           /\ log' = [log EXCEPT ![seq + 1] = e] /\ pub' = [pub EXCEPT ![p] = M("send", seq + 1)]
  <2> DEFINE m == M("send", seq + 1)
  <2>1. seq + 1 \in Slots /\ seq' \in 0..MaxSeq /\ seq <= seq' /\ log[seq + 1] = "hole"
        /\ seq + 1 \in 0..MaxSeq /\ seq + 1 \in 1..seq' /\ seq + 1 <= seq'
    BY <1>0, <1>3, Bounds DEF LogOK, Slots
  <2>2. m \in Memory /\ m.pc = "send" /\ m.n = seq + 1 /\ m.ev = e
    BY <1>1, <2>1
  <2>3. pub' = [pub EXCEPT ![p] = m]
    BY <1>3
  <2> HIDE DEF m
  <2>4. LogType(log', seq') /\ Grows(log, log') /\ log'[seq + 1] = e
    <3> DEFINE n == seq + 1
    <3>1. n \in Slots /\ log[n] = "hole" /\ n <= seq' /\ log' = [log EXCEPT ![n] = e]
      BY <1>3, <2>1
    <3> HIDE DEF n
    <3>2. LogType(log', seq') /\ Grows(log, log') /\ log'[n] = e
      BY <1>0, <1>3, <2>1, <3>1, WriteEvent
    <3> QED BY <3>2 DEF n
  <2>5. PubOK(log', seq', m)
    BY <2>1, <2>2, <2>4 DEF PubOK
  <2>6. LogOK'
    BY <1>0, <2>1, <2>2, <2>3, <2>4, <2>5, PubStep
  <2> QED BY <1>0, <2>4, <2>6, LogStep
<1>4. CASE ~Logged(e) /\ pub' = [pub EXCEPT ![p] = M("alloc", 0)] /\ UNCHANGED <<log, seq>>
  <2> DEFINE m == M("alloc", 0)
  <2>2. m \in Memory /\ m.pc = "alloc" /\ m.ev = e /\ m.tries = 0
    <3>1. 0 \in 0..MaxSeq
      BY Bounds
    <3> QED BY <1>1, <3>1
  <2>3. pub' = [pub EXCEPT ![p] = m]
    BY <1>4
  <2> HIDE DEF m
  <2>4. PubOK(log', seq', m)
    BY <2>2, Bounds DEF PubOK
  <2>5. LogType(log', seq') /\ Grows(log, log')
    BY <1>0, <1>4, LogStays
  <2>6. LogOK'
    <3>1. seq' \in 0..MaxSeq /\ seq <= seq' /\ healed' \in 0..MaxSeq
      BY <1>0, <1>4, Bounds
    <3> QED BY <1>0, <2>2, <2>3, <2>4, <2>5, <3>1, PubStep
  <2> QED BY <1>0, <2>5, <2>6, LogStep
<1>5. Emit(p, e) => \/ Logged(e) /\ pub' = [pub EXCEPT ![p] = M("send", SlotOf(e))] /\ UNCHANGED <<log, seq>>
                    \/ /\ ~Logged(e) /\ seq < MaxSeq /\ seq' = seq + 1
                       /\ log' = [log EXCEPT ![seq + 1] = e] /\ pub' = [pub EXCEPT ![p] = M("send", seq + 1)]
                    \/ ~Logged(e) /\ pub' = [pub EXCEPT ![p] = M("alloc", 0)] /\ UNCHANGED <<log, seq>>
  BY DEF Emit
<1> HIDE DEF M
<1> QED BY <1>2, <1>3, <1>4, <1>5

\* The memories that the steps of a publisher lead to.
AtPc(p, pc)      == [pub[p] EXCEPT !.pc = pc]
AtSlot(p, pc, n) == [pub[p] EXCEPT !.pc = pc, !.n = n]

LEMMA PubGoes ==
    ASSUME LogOK, NEW p \in Publishers,
           NEW pc \in {"idle", "fill", "heal", "send", "dead"}
    PROVE  /\ AtPc(p, pc) \in Memory /\ AtPc(p, pc).pc = pc /\ AtPc(p, pc).ev = pub[p].ev
           /\ AtPc(p, pc).n = pub[p].n
           /\ Go(p, pc) => pub' = [pub EXCEPT ![p] = AtPc(p, pc)]
<1>1. pub[p] \in Memory
  BY DEF LogOK
<1> QED BY <1>1 DEF Go, AtPc, Memory

\* The same with a slot of its own.
LEMMA PubGoesTo ==
    ASSUME LogOK, NEW p \in Publishers, NEW pc \in {"insert", "send"}, NEW n \in 0..MaxSeq
    PROVE  /\ AtSlot(p, pc, n) \in Memory /\ AtSlot(p, pc, n).pc = pc
           /\ AtSlot(p, pc, n).ev = pub[p].ev /\ AtSlot(p, pc, n).n = n
           /\ AtSlot(p, pc, n).tries = pub[p].tries
<1>1. pub[p] \in Memory
  BY DEF LogOK
<1> QED BY <1>1 DEF AtSlot, Memory

\* The counter of the fallback.
LEMMA StepAlloc ==
    ASSUME IInv, NEW p \in Publishers, Alloc(p)
    PROVE  IInv'
<1> DEFINE m == AtSlot(p, "insert", seq + 1)
<1>0. /\ LogOK /\ seq \in 0..MaxSeq /\ healed' \in 0..MaxSeq /\ PubOK(log, seq, pub[p])
      /\ UNCHANGED <<log, healed, conn, edge, reader, client, view, faults>>
      /\ faults' \in 0..MaxFaults /\ pub[p].pc = "alloc"
      /\ pub' = [pub EXCEPT ![p].pc = "insert", ![p].n = seq + 1]
  BY DEF IInv, LogOK, Alloc, At
<1>1. seq + 1 \in 0..MaxSeq /\ seq' \in 0..MaxSeq /\ seq <= seq' /\ seq + 1 \in 1..seq'
  BY <1>0, Bounds DEF Alloc
<1>2. m \in Memory /\ m.pc = "insert" /\ m.ev = pub[p].ev /\ m.n = seq + 1
      /\ m.tries = pub[p].tries /\ pub' = [pub EXCEPT ![p] = m]
  <2>1. pub' = [pub EXCEPT ![p] = m]
    BY <1>0 DEF AtSlot, LogOK
  <2> QED BY <2>1, <1>0, <1>1, PubGoesTo
<1> HIDE DEF m
<1>3. PubOK(log', seq', m)
  BY <1>0, <1>1, <1>2 DEF PubOK
<1>4. LogType(log', seq') /\ Grows(log, log')
  BY <1>0, <1>1, LogStays
<1>5. LogOK'
  BY <1>0, <1>1, <1>2, <1>3, <1>4, PubStep
<1> QED BY <1>0, <1>4, <1>5, LogStep

\* The insert of the fallback.
LEMMA StepInsert ==
    ASSUME IInv, NEW p \in Publishers, Insert(p)
    PROVE  IInv'
<1> DEFINE n == pub[p].n
           e == pub[p].ev
<1>0. /\ LogOK /\ seq \in 0..MaxSeq /\ healed' \in 0..MaxSeq /\ PubOK(log, seq, pub[p])
      /\ UNCHANGED <<seq, healed, conn, edge, reader, client, view, faults>>
      /\ faults' \in 0..MaxFaults /\ pub[p].pc = "insert" /\ seq' \in 0..MaxSeq /\ seq <= seq'
  BY Bounds DEF IInv, LogOK, Insert, At
<1>1. n \in 1..seq /\ n \in Slots /\ n <= seq /\ n \in 0..MaxSeq /\ e \in Events /\ pub[p].tries < MaxAttempts
      /\ pub[p] \in Memory /\ pub[p].tries \in Nat
  BY <1>0, Bounds DEF PubOK, Slots, LogOK, Memory
<1>2. CASE Logged(e) /\ UNCHANGED log /\ Go(p, "fill")
  <2> DEFINE m == AtPc(p, "fill")
  <2>1. m \in Memory /\ m.pc = "fill" /\ m.ev = e /\ m.n = n /\ pub' = [pub EXCEPT ![p] = m]
    BY <1>0, <1>1, <1>2, PubGoes
  <2> HIDE DEF m
  <2>2. PubOK(log', seq', m)
    BY <1>0, <1>1, <1>2, <2>1 DEF PubOK, Logged
  <2>3. LogType(log', seq') /\ Grows(log, log')
    BY <1>0, <1>2, LogStays
  <2>4. LogOK'
    BY <1>0, <2>1, <2>2, <2>3, PubStep
  <2> QED BY <1>0, <2>3, <2>4, LogStep
<1>3. CASE /\ UNCHANGED log
           /\ pub' = [pub EXCEPT ![p].pc = IF pub[p].tries + 1 < MaxAttempts THEN "alloc" ELSE "idle",
                                 ![p].tries = @ + 1]
  <2> DEFINE pc == IF pub[p].tries + 1 < MaxAttempts THEN "alloc" ELSE "idle"
             m == [pub[p] EXCEPT !.pc = pc, !.tries = @ + 1]
  <2>0. pub[p].tries + 1 \in 0..MaxAttempts
    BY <1>1, Bounds
  <2>1. m \in Memory /\ m.pc = pc /\ m.ev = e /\ m.tries = pub[p].tries + 1
    BY <1>1, <2>0 DEF Memory
  <2>2. pub' = [pub EXCEPT ![p] = m]
    BY <1>0, <1>3 DEF LogOK
  <2>3. PubOK(log', seq', m)
    <3>1. m.pc \in {"alloc", "idle"} /\ (m.pc = "alloc" => m.tries < MaxAttempts)
      BY <2>1
    <3> HIDE DEF m, pc
    <3> QED BY <1>1, <2>1, <3>1 DEF PubOK
  <2> HIDE DEF m, pc
  <2>4. LogType(log', seq') /\ Grows(log, log')
    BY <1>0, <1>3, LogStays
  <2>5. LogOK'
    BY <1>0, <2>1, <2>2, <2>3, <2>4, PubStep
  <2> QED BY <1>0, <2>4, <2>5, LogStep
<1>4. CASE ~Logged(e) /\ log[n] = "hole" /\ log' = [log EXCEPT ![n] = e] /\ Go(p, "heal")
  <2> DEFINE m == AtPc(p, "heal")
  <2>1. m \in Memory /\ m.pc = "heal" /\ m.ev = e /\ m.n = n /\ pub' = [pub EXCEPT ![p] = m]
    BY <1>0, <1>1, <1>4, PubGoes
  <2> HIDE DEF m
  <2>2. LogType(log', seq') /\ Grows(log, log') /\ log'[n] = e
    BY <1>0, <1>1, <1>4, WriteEvent
  <2>3. PubOK(log', seq', m)
    BY <1>0, <1>1, <2>1, <2>2 DEF PubOK
  <2>4. LogOK'
    BY <1>0, <2>1, <2>2, <2>3, PubStep
  <2> QED BY <1>0, <2>2, <2>4, LogStep
<1> QED BY <1>2, <1>3, <1>4 DEF Insert

\* The tombstone of a slot lost to the same event.
LEMMA StepFill ==
    ASSUME IInv, NEW p \in Publishers, Fill(p)
    PROVE  IInv'
<1> DEFINE n == pub[p].n
           e == pub[p].ev
           k == SlotOf(e)
           m == AtSlot(p, "send", k)
<1>0. /\ LogOK /\ seq \in 0..MaxSeq /\ healed' \in 0..MaxSeq /\ PubOK(log, seq, pub[p])
      /\ UNCHANGED <<seq, healed, conn, edge, reader, client, view, faults>>
      /\ faults' \in 0..MaxFaults /\ pub[p].pc = "fill" /\ seq' \in 0..MaxSeq /\ seq <= seq'
      /\ log' = Skipped(n, n) /\ pub' = [pub EXCEPT ![p].pc = "send", ![p].n = k]
  BY Bounds DEF IInv, LogOK, Fill, At, SendAs
<1>1. n \in Int /\ n <= seq /\ e \in Events /\ Logged(e)
  BY <1>0, Bounds DEF PubOK, Logged
<1>2. k \in Slots /\ log[k] = e
  BY <1>1, SlotHolds
<1>3. k \in 0..MaxSeq /\ k \in 1..seq
  BY <1>0, <1>1, <1>2, Bounds DEF LogOK, Slots
<1>4. m \in Memory /\ m.pc = "send" /\ m.ev = e /\ m.n = k /\ pub' = [pub EXCEPT ![p] = m]
  <2>1. pub' = [pub EXCEPT ![p] = m]
    BY <1>0 DEF AtSlot, LogOK
  <2> QED BY <2>1, <1>0, <1>3, PubGoesTo
<1>5. LogType(log', seq') /\ Grows(log, log')
  BY <1>0, <1>1, WriteSkips
<1>6. log'[k] = e
  BY <1>1, <1>2, <1>5, Bounds DEF Grows
<1> HIDE DEF k, m, n, e
<1>7. PubOK(log', seq', m)
  BY <1>0, <1>1, <1>3, <1>4, <1>6 DEF PubOK
<1>8. LogOK'
  BY <1>0, <1>4, <1>5, <1>7, PubStep
<1> QED BY <1>0, <1>5, <1>8, LogStep

\* The healer.
LEMMA StepHeal ==
    ASSUME IInv, NEW p \in Publishers, Heal(p)
    PROVE  IInv'
<1> DEFINE n == pub[p].n
           e == pub[p].ev
           m == AtPc(p, "send")
<1>0. /\ LogOK /\ seq \in 0..MaxSeq /\ healed \in 0..MaxSeq /\ PubOK(log, seq, pub[p])
      /\ UNCHANGED <<seq, conn, edge, reader, client, view, faults>>
      /\ faults' \in 0..MaxFaults /\ pub[p].pc = "heal" /\ seq' \in 0..MaxSeq /\ seq <= seq'
      /\ Go(p, "send")
  BY Bounds DEF IInv, LogOK, Heal, At
<1>1. n \in 1..seq /\ n \in Slots /\ n \in 0..MaxSeq /\ e \in Events /\ log[n] = e
  BY <1>0, Bounds DEF PubOK, Slots
<1>2. m \in Memory /\ m.pc = "send" /\ m.ev = e /\ m.n = n /\ pub' = [pub EXCEPT ![p] = m]
  BY <1>0, <1>1, PubGoes
<1>3. LogType(log', seq') /\ Grows(log, log') /\ healed' \in 0..MaxSeq
  <2>1. CASE n - Grace > healed
    <3>1. log' = Skipped(healed + 1, n - Grace) /\ healed' = n - Grace
      BY <2>1 DEF Heal
    <3>2. healed + 1 \in Int /\ n - Grace \in Int /\ n - Grace <= seq /\ n - Grace \in 0..MaxSeq
      BY <1>0, <1>1, <2>1, Bounds
    <3> QED BY <1>0, <3>1, <3>2, WriteSkips
  <2>2. CASE ~(n - Grace > healed)
    <3>1. log' = log /\ healed' = healed
      BY <2>2 DEF Heal
    <3> QED BY <1>0, <3>1, LogStays
  <2> QED BY <2>1, <2>2
<1>4. log'[n] = e
  BY <1>1, <1>3, Bounds DEF Grows
<1> HIDE DEF m, n, e
<1>5. PubOK(log', seq', m)
  BY <1>0, <1>1, <1>2, <1>4 DEF PubOK
<1>6. LogOK'
  BY <1>0, <1>2, <1>3, <1>5, PubStep
<1> QED BY <1>0, <1>3, <1>6, LogStep
-----------------------------------------------------------------------------
(* The connection                                                          *)

\* Frames appended to, or taken from, a queue.
LEMMA FramesOps ==
    ASSUME NEW l, NEW q \in Seq(Frames), FramesOK(l, q)
    PROVE  /\ FramesOK(l, <<>>) /\ <<>> \in Seq(Frames)
           /\ \A f \in Frames : FrameOK(l, f) =>
                 FramesOK(l, Append(q, f)) /\ Append(q, f) \in Seq(Frames)
                 /\ Len(Append(q, f)) = Len(q) + 1
           /\ q # <<>> => /\ Head(q) \in Frames /\ FrameOK(l, Head(q))
                          /\ Tail(q) \in Seq(Frames) /\ FramesOK(l, Tail(q))
                          /\ Len(Tail(q)) <= Len(q)
           /\ \A k \in 0..Len(q) : SubSeq(q, 1, k) \in Seq(Frames) /\ FramesOK(l, SubSeq(q, 1, k))
<1>1. FramesOK(l, <<>>) /\ <<>> \in Seq(Frames)
  BY DEF FramesOK
<1>2. ASSUME NEW f \in Frames, FrameOK(l, f)
      PROVE  FramesOK(l, Append(q, f)) /\ Append(q, f) \in Seq(Frames)
             /\ Len(Append(q, f)) = Len(q) + 1
  BY <1>2 DEF FramesOK
<1>3. ASSUME q # <<>>
      PROVE  /\ Head(q) \in Frames /\ FrameOK(l, Head(q))
             /\ Tail(q) \in Seq(Frames) /\ FramesOK(l, Tail(q)) /\ Len(Tail(q)) <= Len(q)
  <2>1. Len(q) \in Nat /\ Len(q) > 0
    BY <1>3
  <2>2. Head(q) = q[1] /\ Head(q) \in Frames
    BY <1>3
  <2>3. Tail(q) \in Seq(Frames) /\ Len(Tail(q)) = Len(q) - 1
        /\ \A i \in 1..Len(Tail(q)) : Tail(q)[i] = q[i + 1]
    BY <1>3
  <2>4. \A i \in 1..Len(Tail(q)) : i + 1 \in 1..Len(q)
    BY <2>1, <2>3
  <2> QED BY <2>1, <2>2, <2>3, <2>4 DEF FramesOK
<1>4. ASSUME NEW k \in 0..Len(q)
      PROVE  SubSeq(q, 1, k) \in Seq(Frames) /\ FramesOK(l, SubSeq(q, 1, k))
  <2>1. SubSeq(q, 1, k) \in Seq(Frames) /\ Len(SubSeq(q, 1, k)) = k
        /\ \A i \in 1..k : SubSeq(q, 1, k)[i] = q[i]
    OBVIOUS
  <2> QED BY <2>1 DEF FramesOK
<1> QED BY <1>1, <1>2, <1>3, <1>4

\* The frames that are made are frames.
LEMMA FrameConstants ==
    ASSUME NEW l
    PROVE  /\ \A n \in Slots : Durable(l, n) => Delta(n) \in Frames /\ FrameOK(l, Delta(n))
           /\ \A n \in 0..MaxSeq : Solid(l, n) => Snap(n) \in Frames /\ FrameOK(l, Snap(n))
           /\ \A n \in 0..MaxSeq : Beat(n) \in Frames /\ FrameOK(l, Beat(n))
           /\ \A n \in -1..MaxSeq : Hello(n) \in Frames /\ FrameOK(l, Hello(n))
<1>1. Slots \subseteq -1..MaxSeq /\ 0..MaxSeq \subseteq -1..MaxSeq
  BY Bounds DEF Slots
<1>2. \A n \in -1..MaxSeq : /\ Delta(n) \in Frames /\ Delta(n).t = "delta" /\ Delta(n).n = n
                            /\ Snap(n) \in Frames /\ Snap(n).t = "snapshot" /\ Snap(n).n = n
                            /\ Beat(n) \in Frames /\ Beat(n).t = "heartbeat" /\ Beat(n).n = n
                            /\ Hello(n) \in Frames /\ Hello(n).t = "connected" /\ Hello(n).n = n
  BY DEF Delta, Snap, Beat, Hello, Frames
<1> QED BY <1>1, <1>2 DEF FrameOK

\* An eviction leaves frames of the queue.
LEMMA DeltasOK ==
    ASSUME NEW l, NEW q \in Seq(Frames), FramesOK(l, q)
    PROVE  Deltas(q) \in Seq(Frames) /\ FramesOK(l, Deltas(q)) /\ Len(Deltas(q)) <= Len(q)
<1> DEFINE I == {i \in DOMAIN q : q[i].t # "snapshot"}
<1>1. I \in SUBSET (1..Len(q))
  OBVIOUS
<1>2. Deltas(q) = Kept(q, I)
  BY DEF Deltas
<1> HIDE DEF I
<1>3. /\ Kept(q, I) \in Seq(Frames) /\ Len(Kept(q, I)) <= Len(q)
      /\ \A k \in 1..Len(Kept(q, I)) : \E i \in I : Kept(q, I)[k] = q[i]
  BY <1>1, KeptSeq
<1> QED BY <1>1, <1>2, <1>3 DEF FramesOK

\* send_frame keeps the limit of the queue, and puts nothing else in it.
LEMMA PutOK ==
    ASSUME ConnOK, NEW f \in Frames, FrameOK(log, f), conn' = Put(f), log' = log
    PROVE  ConnOK'
<1> DEFINE kept == IF f.t = "snapshot" THEN conn.q ELSE Deltas(conn.q)
           more == IF Len(kept) < QueueMax THEN Append(kept, f) ELSE kept
<1>0. conn \in Conns /\ conn.q \in Seq(Frames) /\ FramesOK(log, conn.q) /\ Len(conn.q) <= QueueMax
      /\ Solid(log, conn.shot) /\ Len(conn.q) \in Nat
  BY DEF ConnOK, Conns
<1>1. kept \in Seq(Frames) /\ FramesOK(log, kept) /\ Len(kept) <= QueueMax /\ Len(kept) \in Nat
  <2>1. Deltas(conn.q) \in Seq(Frames) /\ FramesOK(log, Deltas(conn.q)) /\ Len(Deltas(conn.q)) <= Len(conn.q)
    BY <1>0, DeltasOK
  <2> QED BY <1>0, <2>1, Bounds
<1>2. more \in Seq(Frames) /\ FramesOK(log, more) /\ Len(more) <= QueueMax
  <2> HIDE DEF kept
  <2>1. CASE Len(kept) < QueueMax
    <3>1. Append(kept, f) \in Seq(Frames) /\ FramesOK(log, Append(kept, f)) /\ Len(Append(kept, f)) = Len(kept) + 1
      BY <1>1, FramesOps
    <3> QED BY <1>1, <2>1, <3>1, Bounds
  <2>2. CASE ~(Len(kept) < QueueMax)
    BY <1>1, <2>2
  <2> QED BY <2>1, <2>2
<1>3. CASE conn.st = "down"
  BY <1>0, <1>3 DEF Put, ConnOK
<1>4. CASE conn.st # "down" /\ Len(conn.q) < QueueMax
  <2> DEFINE q == Append(conn.q, f)
  <2>1. q \in Seq(Frames) /\ FramesOK(log, q) /\ Len(q) = Len(conn.q) + 1
    BY <1>0, FramesOps
  <2>2. conn' = [conn EXCEPT !.q = q]
    BY <1>4 DEF Put
  <2> HIDE DEF q
  <2>3. conn' \in Conns /\ conn'.q = q /\ conn'.shot = conn.shot
    BY <1>0, <2>1, <2>2 DEF Conns
  <2> QED BY <1>0, <1>4, <2>1, <2>3, Bounds DEF ConnOK
<1>5. CASE conn.st # "down" /\ ~(Len(conn.q) < QueueMax)
  <2>1. conn' = [conn EXCEPT !.resync = TRUE, !.q = more]
    BY <1>5 DEF Put
  <2> HIDE DEF more
  <2>2. conn' \in Conns /\ conn'.q = more /\ conn'.shot = conn.shot
    BY <1>0, <1>2, <2>1 DEF Conns
  <2> QED BY <1>0, <1>2, <2>2 DEF ConnOK
<1> QED BY <1>3, <1>4, <1>5

\* The parts of the invariant that a step leaves alone.
LEMMA PartsStay ==
    /\ LogOK /\ UNCHANGED <<log, seq, healed, pub>> => LogOK'
    /\ ConnOK /\ UNCHANGED <<log, conn>> => ConnOK'
    /\ EdgeOK /\ UNCHANGED <<log, edge>> => EdgeOK'
    /\ BrowserOK /\ UNCHANGED <<log, reader, client, view>> => BrowserOK'
BY DEF LogOK, ConnOK, EdgeOK, BrowserOK

\* A disturbance keeps its bound.
LEMMA FaultCounts ==
    ASSUME faults \in 0..MaxFaults
    PROVE  (Fault => faults' \in 0..MaxFaults) /\ (UNCHANGED faults => faults' \in 0..MaxFaults)
BY Bounds DEF Fault

\* Nothing is covered, and nothing is under way.
LEMMA Nothing ==
    ASSUME NEW l
    PROVE  /\ Solid(l, -1) /\ Solid(l, -2)
           /\ Down \in Conns /\ Down.q = <<>> /\ Down.shot = -1
           /\ Asleep \in Streams /\ \A a : StreamOK(l, a, Asleep)
           /\ -1 \in -1..MaxSeq
<1>1. Solid(l, -1) /\ Solid(l, -2)
  BY DEF Solid
<1>2. -1 \in -1..MaxSeq /\ 0 \in 0..MaxSeq
  BY Bounds
<1>3. Down \in Conns /\ Down.q = <<>> /\ Down.shot = -1
  BY <1>2 DEF Down, Conns
<1>4. Asleep \in Streams /\ Asleep.in = <<>> /\ Asleep.todo = <<>> /\ Asleep.busy = 0
  BY <1>2 DEF Asleep, Streams
<1>5. \A a : StreamOK(l, a, Asleep)
  BY <1>4 DEF StreamOK, FramesOK
<1> QED BY <1>1, <1>2, <1>3, <1>4, <1>5

\* A publisher that sends, or dies.
LEMMA StepSend ==
    ASSUME IInv, NEW p \in Publishers, Send(p) \/ Crash(p)
    PROVE  IInv'
<1>0. /\ LogOK /\ ConnOK /\ EdgeOK /\ BrowserOK /\ UNCHANGED <<log, seq, healed, reader, client, view>>
      /\ faults' \in 0..MaxFaults /\ PubOK(log, seq, pub[p]) /\ seq \in 0..MaxSeq /\ healed \in 0..MaxSeq
  BY FaultCounts DEF IInv, LogOK, Send, Crash, logVars
<1>1. LogOK'
  <2>1. PICK pc \in {"idle", "dead"} : Go(p, pc)
    BY DEF Send, Crash
  <2> DEFINE m == AtPc(p, pc)
  <2>2. m \in Memory /\ m.pc = pc /\ pub' = [pub EXCEPT ![p] = m]
    BY <1>0, <2>1, PubGoes
  <2> HIDE DEF m
  <2>3. PubOK(log', seq', m)
    BY <2>2 DEF PubOK
  <2>4. seq' \in 0..MaxSeq /\ seq <= seq' /\ healed' \in 0..MaxSeq
    BY <1>0, Bounds
  <2>5. LogType(log', seq') /\ Grows(log, log')
    BY <1>0, <2>4, LogStays
  <2> QED BY <1>0, <2>2, <2>3, <2>4, <2>5, PubStep
<1>2. CASE conn' = Put(Delta(pub[p].n)) /\ At(p, "send")
           /\ edge' = [k \in Edges |-> IF k = <<p, pub[p].ev>> THEN EdgeDue ELSE edge[k]]
  <2>1. pub[p].n \in Slots /\ Durable(log, pub[p].n)
    BY <1>0, <1>2, Bounds DEF PubOK, At, Durable, Slots
  <2>2. ConnOK'
    BY <1>0, <1>2, <2>1, PutOK, FrameConstants
  <2>3. EdgeOK'
    BY <1>0, <1>2, Nothing DEF EdgeOK, EdgeDue
  <2> QED BY <1>0, <1>1, <2>2, <2>3, PartsStay DEF IInv
<1>3. CASE UNCHANGED <<conn, edge>>
  BY <1>0, <1>1, <1>3, PartsStay DEF IInv
<1> QED BY <1>2, <1>3 DEF Send, Crash

\* A boundary snapshot moves on.
LEMMA EdgeMoves ==
    ASSUME EdgeOK, log' = log, NEW k \in Edges, NEW e \in {NoEdge, EdgeDue} \cup 0..MaxSeq,
           Solid(log, e), edge' = [edge EXCEPT ![k] = e]
    PROVE  EdgeOK'
BY DEF EdgeOK

\* The boundary snapshots.
LEMMA StepEdge ==
    ASSUME IInv, NEW k \in Edges, BuildEdge(k) \/ SendEdge(k)
    PROVE  IInv'
<1>0. /\ LogOK /\ ConnOK /\ EdgeOK /\ BrowserOK
      /\ UNCHANGED <<log, seq, healed, pub, reader, client, view>> /\ faults' \in 0..MaxFaults
  BY FaultCounts DEF IInv, BuildEdge, SendEdge, logVars
<1>1. Solid(log, NoEdge)
  BY Nothing DEF NoEdge
<1>2. CASE BuildEdge(k)
  <2>1. \/ edge' = [edge EXCEPT ![k] = Prefix]
        \/ edge' = [edge EXCEPT ![k] = NoEdge]
    BY <1>2 DEF BuildEdge
  <2>2. EdgeOK'
    BY <1>0, <1>1, <2>1, PrefixSolid, EdgeMoves
  <2> QED BY <1>0, <1>2, <2>2, PartsStay DEF IInv, BuildEdge
<1>3. CASE SendEdge(k)
  <2>1. /\ edge[k] \in 0..MaxSeq /\ Solid(log, edge[k])
        /\ conn' = Put(Snap(edge[k])) /\ edge' = [edge EXCEPT ![k] = NoEdge]
    BY <1>0, <1>3 DEF SendEdge, EdgeOK
  <2>2. ConnOK'
    BY <1>0, <2>1, FrameConstants, PutOK
  <2>3. EdgeOK'
    BY <1>0, <1>1, <2>1, EdgeMoves
  <2> QED BY <1>0, <2>2, <2>3, PartsStay DEF IInv
<1> QED BY <1>2, <1>3

\* One stream is replaced by s.
LEMMA OneStream ==
    ASSUME BrowserOK, NEW r \in Readers, NEW s \in Streams, StreamOK(log, client.applied, s),
           reader' = [reader EXCEPT ![r] = s], UNCHANGED <<log, client, view>>
    PROVE  BrowserOK'
BY DEF BrowserOK, ReadersOK

\* A stream whose input is replaced.
LEMMA StreamInput ==
    ASSUME NEW s \in Streams, NEW l, NEW a, StreamOK(l, a, s), NEW q \in Seq(Frames), FramesOK(l, q)
    PROVE  [s EXCEPT !.in = q] \in Streams /\ StreamOK(l, a, [s EXCEPT !.in = q])
<1> DEFINE n == [s EXCEPT !.in = q]
<1>1. n \in Streams /\ n.in = q /\ n.todo = s.todo /\ n.busy = s.busy
  BY DEF Streams
<1> HIDE DEF n
<1>2. n \in Streams /\ StreamOK(l, a, n)
  BY <1>1 DEF StreamOK
<1> QED BY <1>2 DEF n

\* The connection opens, queues and breaks.
LEMMA StepConnection ==
    ASSUME IInv, Connect \/ Handshake \/ Deliver \/ ResyncShot \/ Break
    PROVE  IInv'
<1>0. /\ LogOK /\ ConnOK /\ EdgeOK /\ BrowserOK
      /\ UNCHANGED <<log, seq, healed, pub, edge, client, view>> /\ faults' \in 0..MaxFaults
      /\ seq \in 0..MaxSeq
  BY FaultCounts DEF IInv, LogOK, Connect, Handshake, Deliver, ResyncShot, Break, logVars
<1>1. /\ conn \in Conns /\ conn.q \in Seq(Frames) /\ FramesOK(log, conn.q) /\ Len(conn.q) <= QueueMax
      /\ Solid(log, conn.shot) /\ Len(conn.q) \in Nat /\ conn.shot \in -1..MaxSeq
  BY <1>0 DEF ConnOK, Conns
<1> DEFINE new == reader["new"]
<1>2. /\ "new" \in Readers /\ reader \in [Readers -> Streams] /\ new \in Streams
      /\ StreamOK(log, client.applied, new) /\ new.in \in Seq(Frames) /\ FramesOK(log, new.in)
  <2>1. "new" \in Readers /\ reader \in [Readers -> Streams] /\ new \in Streams
        /\ StreamOK(log, client.applied, new)
    BY <1>0 DEF BrowserOK, ReadersOK, Readers
  <2> QED BY <2>1 DEF Streams, StreamOK
<1>3. LogOK' /\ EdgeOK'
  BY <1>0, PartsStay
<1>4. CASE Connect
  <2>1. conn' = [Down EXCEPT !.st = "opening"] /\ UNCHANGED reader
    BY <1>4 DEF Connect
  <2>2. conn' \in Conns /\ conn'.q = <<>> /\ conn'.shot = -1
    BY <2>1, Nothing DEF Conns
  <2>3. ConnOK'
    BY <1>0, <2>2, Nothing, Bounds DEF ConnOK, FramesOK
  <2> QED BY <1>0, <1>3, <2>1, <2>3, PartsStay DEF IInv
<1>5. CASE Handshake
  <2>1. conn' = [conn EXCEPT !.st = "open"]
    BY <1>5 DEF Handshake
  <2>2. conn' \in Conns /\ conn'.q = conn.q /\ conn'.shot = conn.shot
    BY <1>1, <2>1 DEF Conns
  <2>3. ConnOK'
    BY <1>0, <1>1, <2>2 DEF ConnOK
  <2>4. Prefix \in 0..MaxSeq /\ Solid(log, Prefix) /\ Prefix \in -1..MaxSeq
    BY <1>0, PrefixSolid, Bounds
  <2>5. \E q \in Seq(Frames) : FramesOK(log, q) /\ reader' = [reader EXCEPT !["new"].in = q]
    <3>1. CASE reader' = [reader EXCEPT !["new"].in = <<Hello(Prefix), Snap(Prefix)>>]
      <4> DEFINE q == <<Hello(Prefix), Snap(Prefix)>>
      <4>1. Hello(Prefix) \in Frames /\ FrameOK(log, Hello(Prefix)) /\ Snap(Prefix) \in Frames /\ FrameOK(log, Snap(Prefix))
        BY <2>4, FrameConstants
      <4>2. q \in Seq(Frames) /\ FramesOK(log, q)
        BY <4>1 DEF FramesOK
      <4> QED BY <3>1, <4>2
    <3>2. CASE reader' = [reader EXCEPT !["new"].in = <<Hello(-1)>>]
      <4> DEFINE q == <<Hello(-1)>>
      <4>1. Hello(-1) \in Frames /\ FrameOK(log, Hello(-1))
        BY Nothing, FrameConstants
      <4>2. q \in Seq(Frames) /\ FramesOK(log, q)
        BY <4>1 DEF FramesOK
      <4> QED BY <3>2, <4>2
    <3> QED BY <1>5, <3>1, <3>2 DEF Handshake
  <2>6. BrowserOK'
    <3>1. PICK q \in Seq(Frames) : FramesOK(log, q) /\ reader' = [reader EXCEPT !["new"].in = q]
      BY <2>5
    <3> DEFINE s == [new EXCEPT !.in = q]
    <3>2. s \in Streams /\ StreamOK(log, client.applied, s)
      BY <1>2, <3>1, StreamInput
    <3>3. reader' = [reader EXCEPT !["new"] = s]
      BY <1>2, <3>1
    <3> HIDE DEF s, new
    <3> QED BY <1>0, <1>2, <3>2, <3>3, OneStream
  <2> QED BY <1>0, <1>3, <2>3, <2>6 DEF IInv
<1>6. CASE Deliver
  <2> DEFINE f == IF conn.q = <<>> THEN Beat(seq) ELSE Head(conn.q)
             t == IF conn.q = <<>> THEN conn.q ELSE Tail(conn.q)
             c == [conn EXCEPT !.q = t]
             s == [new EXCEPT !.in = Append(new.in, f)]
  <2>1. f \in Frames /\ FrameOK(log, f)
    BY <1>0, <1>1, FramesOps, FrameConstants
  <2>2. t \in Seq(Frames) /\ FramesOK(log, t) /\ Len(t) <= Len(conn.q)
    BY <1>1, FramesOps
  <2>3. /\ reader' = [reader EXCEPT !["new"] = s]
        /\ conn' = c \/ conn' = [c EXCEPT !.shot = Prefix]
    <3>1. reader' = [reader EXCEPT !["new"].in = Append(@, f)]
      BY <1>6 DEF Deliver
    <3>2. conn' = c \/ conn' = [c EXCEPT !.shot = Prefix]
      BY <1>1, <1>6 DEF Deliver
    <3> QED BY <1>2, <3>1, <3>2
  <2> HIDE DEF f, t
  <2>4. Append(new.in, f) \in Seq(Frames) /\ FramesOK(log, Append(new.in, f))
    BY <1>2, <2>1, FramesOps
  <2>5. s \in Streams /\ StreamOK(log, client.applied, s)
    BY <1>2, <2>4, StreamInput
  <2>6. c \in Conns /\ c.q = t /\ c.shot = conn.shot
    BY <1>1, <2>2 DEF Conns
  <2> HIDE DEF c, s, new
  <2>7. BrowserOK'
    BY <1>0, <1>2, <2>3, <2>5, OneStream
  <2>8. Prefix \in 0..MaxSeq /\ Solid(log, Prefix) /\ Prefix \in -1..MaxSeq
    BY <1>0, PrefixSolid, Bounds
  <2>9. conn' \in Conns /\ conn'.q = t /\ Solid(log, conn'.shot)
    BY <1>1, <2>3, <2>6, <2>8 DEF Conns
  <2>10. ConnOK'
    <3>1. Len(t) <= QueueMax
      BY <1>1, <2>2, Bounds
    <3> QED BY <1>0, <2>2, <2>9, <3>1 DEF ConnOK
  <2> QED BY <1>0, <1>3, <2>7, <2>10 DEF IInv
<1>7. CASE ResyncShot
  <2> DEFINE c == [conn EXCEPT !.shot = -1]
             q == Append(conn.q, Snap(conn.shot))
  <2>1. c \in Conns /\ c.q = conn.q /\ c.shot = -1
    BY <1>1, Nothing DEF Conns
  <2>2. conn.shot \in 0..MaxSeq
    BY <1>1, <1>7, Bounds DEF ResyncShot
  <2>3. q \in Seq(Frames) /\ FramesOK(log, q) /\ Len(q) = Len(conn.q) + 1
    BY <1>1, <2>2, FramesOps, FrameConstants
  <2>4. conn' = c \/ (Len(conn.q) < QueueMax /\ conn' = [c EXCEPT !.q = q, !.resync = FALSE])
    BY <1>7, <2>1 DEF ResyncShot
  <2> HIDE DEF c, q
  <2>5. ASSUME conn' = c PROVE ConnOK'
    BY <1>0, <1>1, <2>1, <2>5, Nothing DEF ConnOK
  <2>6. ASSUME Len(conn.q) < QueueMax, conn' = [c EXCEPT !.q = q, !.resync = FALSE]
        PROVE  ConnOK'
    <3>1. conn' \in Conns /\ conn'.q = q /\ conn'.shot = -1
      BY <2>1, <2>3, <2>6 DEF Conns
    <3>2. Len(q) <= QueueMax
      BY <1>1, <2>3, <2>6, Bounds
    <3> QED BY <1>0, <2>3, <3>1, <3>2, Nothing DEF ConnOK
  <2>7. ConnOK'
    BY <2>4, <2>5, <2>6
  <2> QED BY <1>0, <1>3, <1>7, <2>7, PartsStay DEF IInv, ResyncShot
<1>8. CASE Break
  <2>1. conn' = Down /\ reader' = [reader EXCEPT !["new"] = Asleep]
    BY <1>8 DEF Break
  <2>2. ConnOK'
    BY <1>0, <2>1, Nothing, Bounds DEF ConnOK, FramesOK
  <2>3. BrowserOK'
    BY <1>0, <1>2, <2>1, Nothing, OneStream
  <2> QED BY <1>0, <1>3, <2>2, <2>3 DEF IInv
<1> QED BY <1>4, <1>5, <1>6, <1>7, <1>8
-----------------------------------------------------------------------------
(* The browser                                                             *)

\* What reconcileObservedWatermark and the drained window leave alone.
Alike(c, d) ==
    /\ d \in Clients /\ d.cap = c.cap /\ d.snap = c.snap /\ d.last = c.last
    /\ d.applied = c.applied /\ d.early = c.early

LEMMA ClientOperators ==
    ASSUME NEW c \in Clients, NEW w \in SUBSET Slots
    PROVE  /\ Alike(c, Reconciled(c)) /\ Reconciled(c).window = c.window
           /\ Alike(c, WithWindow(c, w)) /\ WithWindow(c, w).window = w
<1>1. c.timers \cup {"gap"} \in SUBSET Timers /\ c.timers \ {"gap"} \in SUBSET Timers
      /\ c.timers \ {"reorder"} \in SUBSET Timers /\ c.timers \in SUBSET Timers
  BY DEF Clients, Timers
<1>2. Alike(c, Reconciled(c)) /\ Reconciled(c).window = c.window
  <2>1. \A t \in SUBSET Timers : Alike(c, [c EXCEPT !.timers = t]) /\ [c EXCEPT !.timers = t].window = c.window
    BY DEF Clients, Alike
  <2>2. \E t \in SUBSET Timers : Reconciled(c) = [c EXCEPT !.timers = t]
    BY <1>1 DEF Reconciled
  <2> QED BY <2>1, <2>2
<1>3. Alike(c, WithWindow(c, w)) /\ WithWindow(c, w).window = w
  <2>1. \A t \in SUBSET Timers : /\ Alike(c, [c EXCEPT !.window = w, !.timers = t])
                                 /\ [c EXCEPT !.window = w, !.timers = t].window = w
    BY DEF Clients, Alike
  <2>2. \E t \in SUBSET Timers : WithWindow(c, w) = [c EXCEPT !.window = w, !.timers = t]
    BY <1>1 DEF WithWindow
  <2> QED BY <2>1, <2>2
<1> QED BY <1>2, <1>3

\* A reducer that differs in its timers, or has less in its window.
LEMMA AlikeOK ==
    ASSUME NEW l, NEW c, NEW v, ReducerOK(l, c, v), NEW d, Alike(c, d), d.window \subseteq c.window
    PROVE  ReducerOK(l, d, v)
BY DEF Alike, ReducerOK, ClientOK

\* Readers keep what they have when the applied number grows.
LEMMA ReadersOfMore ==
    ASSUME NEW l, NEW a \in 0..MaxSeq, NEW b \in 0..MaxSeq, a <= b, NEW rd, ReadersOK(l, a, rd)
    PROVE  ReadersOK(l, b, rd)
<1>1. \A s \in Streams : StreamOK(l, a, s) => StreamOK(l, b, s)
  <2> SUFFICES ASSUME NEW s \in Streams, StreamOK(l, a, s) PROVE StreamOK(l, b, s)
    OBVIOUS
  <2>1. s.busy \in 0..MaxSeq
    BY DEF Streams
  <2>2. s.busy <= a + 1 => s.busy <= b + 1
    BY <2>1, Bounds
  <2> QED BY <2>2 DEF StreamOK
<1> QED BY <1>1 DEF ReadersOK

\* One of them goes on with s.
LEMMA ReadersWith ==
    ASSUME NEW l, NEW a, NEW rd, ReadersOK(l, a, rd), NEW r \in Readers,
           NEW s \in Streams, StreamOK(l, a, s)
    PROVE  ReadersOK(l, a, [rd EXCEPT ![r] = s])
BY DEF ReadersOK

\* A stream that takes a frame, keeps a list to replay, or waits for a fold.
LEMMA StreamUpdates ==
    ASSUME NEW l, NEW a \in 0..MaxSeq, NEW s \in Streams, StreamOK(l, a, s)
    PROVE  /\ s.in # <<>> =>
                 LET t == [s EXCEPT !.in = Tail(s.in)] IN t \in Streams /\ StreamOK(l, a, t)
           /\ \A q \in Seq(0..MaxSeq) :
                 (\A i \in 1..Len(q) : q[i] # 0 => Durable(l, q[i])) =>
                 LET t == [s EXCEPT !.todo = q] IN t \in Streams /\ StreamOK(l, a, t)
           /\ \A n \in 0..MaxSeq : (n # 0 => Durable(l, n) /\ n <= a + 1) =>
                 LET t == [s EXCEPT !.busy = n] IN t \in Streams /\ StreamOK(l, a, t)
<1>1. s.in # <<>> => LET t == [s EXCEPT !.in = Tail(s.in)] IN t \in Streams /\ StreamOK(l, a, t)
  <2>1. s.in \in Seq(Frames) /\ FramesOK(l, s.in)
    BY DEF Streams, StreamOK
  <2>2. s.in # <<>> => Tail(s.in) \in Seq(Frames) /\ FramesOK(l, Tail(s.in))
    BY <2>1, FramesOps
  <2> QED BY <2>2, StreamInput
<1>2. ASSUME NEW q \in Seq(0..MaxSeq), \A i \in 1..Len(q) : q[i] # 0 => Durable(l, q[i])
      PROVE  [s EXCEPT !.todo = q] \in Streams /\ StreamOK(l, a, [s EXCEPT !.todo = q])
  <2> DEFINE t == [s EXCEPT !.todo = q]
  <2>1. t \in Streams /\ t.todo = q /\ t.in = s.in /\ t.busy = s.busy
    BY DEF Streams
  <2> HIDE DEF t
  <2>2. t \in Streams /\ StreamOK(l, a, t)
    BY <1>2, <2>1 DEF StreamOK
  <2> QED BY <2>2 DEF t
<1>3. ASSUME NEW n \in 0..MaxSeq, n # 0 => Durable(l, n) /\ n <= a + 1
      PROVE  [s EXCEPT !.busy = n] \in Streams /\ StreamOK(l, a, [s EXCEPT !.busy = n])
  <2> DEFINE t == [s EXCEPT !.busy = n]
  <2>1. t \in Streams /\ t.todo = s.todo /\ t.in = s.in /\ t.busy = n
    BY DEF Streams
  <2> HIDE DEF t
  <2>2. t \in Streams /\ StreamOK(l, a, t)
    BY <1>3, <2>1 DEF StreamOK
  <2> QED BY <2>2 DEF t
<1> QED BY <1>1, <1>2, <1>3

\* reconnectWithSnapshot: what is left of the readers had been received.
LEMMA ReconnectOK ==
    ASSUME NEW rd, NEW b \in BOOLEAN, NEW a, ReadersOK(log, a, rd), Reconnect(rd, b), log' = log
    PROVE  ConnOK' /\ ReadersOK(log', a, reader')
<1>1. ConnOK'
  <2>1. conn' = Down
    BY DEF Reconnect
  <2>2. conn' \in Conns /\ conn'.q = <<>> /\ conn'.shot = -1
    BY <2>1, Nothing
  <2>3. Solid(log', -1) /\ Len(<<>>) = 0
    BY Nothing
  <2> QED BY <2>2, <2>3, Bounds DEF ConnOK, FramesOK
<1>2. Asleep \in Streams /\ StreamOK(log, a, Asleep) /\ "new" \in Readers /\ "old" \in Readers
  BY Nothing DEF Readers
<1>3. rd["new"] \in Streams /\ StreamOK(log, a, rd["new"]) /\ rd["new"].in \in Seq(Frames)
      /\ FramesOK(log, rd["new"].in)
  BY <1>2 DEF ReadersOK, Streams, StreamOK
<1>4. CASE reader' = [rd EXCEPT !["new"] = Asleep]
  <2>1. ReadersOK(log, a, [rd EXCEPT !["new"] = Asleep])
    BY <1>2, ReadersWith
  <2> QED BY <1>1, <1>4, <2>1
<1>5. ASSUME NEW k \in 0..Len(rd["new"].in),
             reader' = [r \in Readers |-> IF r = "old" THEN [rd["new"] EXCEPT !.in = SubSeq(@, 1, k)]
                                          ELSE Asleep]
      PROVE  ReadersOK(log', a, reader')
  <2> DEFINE q == SubSeq(rd["new"].in, 1, k)
             s == [rd["new"] EXCEPT !.in = q]
  <2>1. q \in Seq(Frames) /\ FramesOK(log, q)
    BY <1>3, FramesOps
  <2>2. s \in Streams /\ StreamOK(log, a, s)
    BY <1>3, <2>1, StreamInput
  <2>3. reader' = [r \in Readers |-> IF r = "old" THEN s ELSE Asleep]
    BY <1>3, <1>5 DEF Streams
  <2> HIDE DEF s
  <2> QED BY <1>2, <2>2, <2>3 DEF ReadersOK
<1> QED BY <1>1, <1>4, <1>5 DEF Reconnect
\* A stream that is kept.
LEMMA StayOK ==
    ASSUME ConnOK, log' = log, NEW rd, NEW a, ReadersOK(log, a, rd), Stay(rd)
    PROVE  ConnOK' /\ ReadersOK(log', a, reader')
BY PartsStay DEF Stay

\* onConnected
LEMMA ConnectedOK ==
    ASSUME ConnOK, ReducerOK(log, client, view), NEW rd, ReadersOK(log, client.applied, rd),
           log' = log, NEW n \in -1..MaxSeq, OnConnected(rd, n)
    PROVE  ConnOK' /\ BrowserOK'
<1>1. ConnOK' /\ ReadersOK(log', client.applied, reader')
  BY StayOK DEF OnConnected
<1>2. client.applied \in 0..MaxSeq /\ \A m \in view : Durable(log, m)
  BY DEF ReducerOK, Clients, ClientOK
<1>3. Fresh \in Clients /\ Fresh.early = <<>> /\ Fresh.window = {} /\ Fresh.snap = FALSE
  BY Bounds DEF Fresh, Clients
<1>4. client' \in Clients /\ client'.early = <<>> /\ client'.window = {} /\ client'.snap = FALSE
      /\ client'.applied = client.applied
  <2>1. CASE n = -1
    BY <1>2, <1>3, <2>1 DEF OnConnected, Clients
  <2>2. CASE n # -1
    <3>1. n \in 0..MaxSeq /\ {"boot"} \in SUBSET Timers
      BY <2>2, Bounds DEF Timers
    <3> QED BY <1>2, <1>3, <2>2, <3>1 DEF OnConnected, Clients
  <2> QED BY <2>1, <2>2
<1>5. view' = view /\ view \subseteq Slots /\ Len(<<>>) = 0
  BY DEF OnConnected, ReducerOK
<1>6. ReducerOK(log', client', view')
  BY <1>2, <1>4, <1>5, Bounds DEF ReducerOK, ClientOK
<1> QED BY <1>1, <1>4, <1>6 DEF BrowserOK

\* Covered names events.
LEMMA CoveredOK ==
    ASSUME NEW n \in 0..MaxSeq
    PROVE  Covered(n) \subseteq Slots /\ \A m \in Covered(n) : Durable(log, m)
BY Bounds DEF Covered, Durable, Slots

\* onSnapshot: a sequenced client takes only a snapshot that covers what it has
\* applied, and then shows exactly what the snapshot covers.
LEMMA SnapshotOK ==
    ASSUME ConnOK, ReducerOK(log, client, view), NEW rd, ReadersOK(log, client.applied, rd),
           log' = log, NEW r \in Readers, NEW n \in 0..MaxSeq, Solid(log, n),
           OnSnapshot(rd, r, n)
    PROVE  ConnOK' /\ BrowserOK'
<1>1. CASE client.cap # "seq" /\ Stay(rd) /\ view' = Covered(n) /\ UNCHANGED client
  <2>1. ReducerOK(log', client', view')
    BY <1>1, CoveredOK DEF ReducerOK, ClientOK
  <2> QED BY <1>1, <2>1, StayOK DEF BrowserOK
<1>2. CASE Reconnect(rd, r = "new" \/ Waiting("new")) /\ UNCHANGED <<client, view>>
  <2>1. (r = "new" \/ Waiting("new")) \in BOOLEAN
    OBVIOUS
  <2> QED BY <1>2, <2>1, ReconnectOK DEF BrowserOK
<1>3. CASE /\ client.cap = "seq" /\ ~Stale(n)
           /\ view' = Covered(n)
           /\ client' = WithWindow([client EXCEPT !.snap = TRUE, !.last = n, !.early = <<>>,
                                      !.applied = Greater(@, n), !.seen = Greater(@, n),
                                      !.timers = @ \ {"boot"}],
                                   {m \in client.window : m > n})
           /\ Stay([rd EXCEPT ![r].todo =
                      Append(Kept(client.early, {i \in DOMAIN client.early : client.early[i] > n}), 0)])
  <2> DEFINE w == {m \in client.window : m > n}
             sn == Greater(client.seen, n)
             tm == client.timers \ {"boot"}
             d == [client EXCEPT !.snap = TRUE, !.last = n, !.early = <<>>,
                                 !.applied = n, !.seen = sn, !.timers = tm]
             I == {i \in DOMAIN client.early : client.early[i] > n}
             k == Kept(client.early, I)
             q == Append(k, 0)
             s == [rd[r] EXCEPT !.todo = q]
  <2>1. /\ client \in Clients /\ client.applied \in 0..MaxSeq /\ client.seen \in 0..MaxSeq
        /\ client.early \in Seq(Slots) /\ client.window \in SUBSET Slots /\ client.timers \in SUBSET Timers
    BY DEF ReducerOK, Clients
  <2>2. client.applied <= n /\ Greater(client.applied, n) = n
    BY <1>3, <2>1, Bounds DEF Stale, Greater
  <2>3. sn \in 0..MaxSeq /\ tm \in SUBSET Timers /\ w \in SUBSET Slots
    BY <2>1 DEF Greater
  <2>4. client' = WithWindow(d, w)
    BY <1>3, <2>2
  <2> HIDE DEF sn, tm
  <2>5. d \in Clients /\ d.snap = TRUE /\ d.last = n /\ d.applied = n /\ d.early = <<>> /\ d.cap = "seq"
    <3>1. n \in 0..MaxSeq /\ TRUE \in BOOLEAN /\ <<>> \in Seq(Slots)
      OBVIOUS
    <3>2. d \in Clients
      BY <2>1, <2>3, <3>1 DEF Clients
    <3>3. d.snap = TRUE /\ d.last = n /\ d.applied = n /\ d.early = <<>> /\ d.cap = client.cap
      BY <2>1 DEF Clients
    <3> QED BY <1>3, <3>2, <3>3
  <2> HIDE DEF d, w
  <2>6. /\ client' \in Clients /\ client'.snap = TRUE /\ client'.last = n /\ client'.applied = n
        /\ client'.early = <<>> /\ client'.cap = "seq" /\ client'.window = w
    BY <2>3, <2>4, <2>5, ClientOperators DEF Alike
  <2>7. \A m \in w : Durable(log, m)
    BY DEF ReducerOK, ClientOK, w
  <2>8. view' = {m \in 1..n : log[m] \in Events}
    BY <1>3 DEF Covered
  <2>9. ReducerOK(log', client', view')
    <3>1. Len(<<>>) = 0 /\ n <= n
      OBVIOUS
    <3>2. view' \subseteq Slots /\ \A m \in view' : Durable(log, m)
      BY <1>3, CoveredOK
    <3> QED BY <2>6, <2>7, <2>8, <3>1, <3>2, Bounds DEF ReducerOK, ClientOK
  <2>10. q \in Seq(0..MaxSeq) /\ \A i \in 1..Len(q) : q[i] # 0 => Durable(log, q[i])
    <3>1. I \in SUBSET (1..Len(client.early))
      BY <2>1
    <3>2. \A i \in 1..Len(client.early) : Durable(log, client.early[i])
      BY DEF ReducerOK, ClientOK
    <3> HIDE DEF I
    <3>3. k \in Seq(Slots) /\ \A i \in 1..Len(k) : \E j \in I : k[i] = client.early[j]
      BY <2>1, <3>1, KeptSeq
    <3> HIDE DEF k
    <3>4. k \in Seq(0..MaxSeq) /\ 0 \in 0..MaxSeq
      BY <3>3, Bounds DEF Slots
    <3>5. Len(q) = Len(k) + 1 /\ \A i \in 1..Len(q) : q[i] = IF i = Len(k) + 1 THEN 0 ELSE k[i]
      BY <3>4
    <3>6. \A i \in 1..Len(q) : q[i] # 0 => i \in 1..Len(k)
      BY <3>4, <3>5
    <3> QED BY <3>1, <3>2, <3>3, <3>4, <3>5, <3>6
  <2> HIDE DEF q
  <2>11. rd \in [Readers -> Streams] /\ rd[r] \in Streams /\ StreamOK(log, client.applied, rd[r])
    BY DEF ReadersOK
  <2>12. s \in Streams /\ StreamOK(log, client.applied, s)
    BY <2>1, <2>10, <2>11, StreamUpdates
  <2>13. ReadersOK(log, client.applied, [rd EXCEPT ![r] = s])
    BY <2>12, ReadersWith
  <2>14. Stay([rd EXCEPT ![r] = s])
    BY <1>3, <2>11 DEF q, k, I
  <2> HIDE DEF s
  <2>15. ReadersOK(log, n, [rd EXCEPT ![r] = s])
    BY <2>1, <2>2, <2>13, ReadersOfMore
  <2>16. ConnOK' /\ ReadersOK(log', n, reader')
    BY <2>14, <2>15, StayOK
  <2> QED BY <2>6, <2>9, <2>16 DEF BrowserOK
<1> QED BY <1>1, <1>2, <1>3 DEF OnSnapshot

\* onHeartbeat
LEMMA HeartbeatOK ==
    ASSUME ConnOK, ReducerOK(log, client, view), NEW rd, ReadersOK(log, client.applied, rd),
           log' = log, NEW n \in 0..MaxSeq, OnHeartbeat(rd, n)
    PROVE  ConnOK' /\ BrowserOK'
<1>1. client \in Clients
  BY DEF ReducerOK
<1> DEFINE x == Greater(client.seen, n)
           c == [client EXCEPT !.seen = x]
<1>2. x \in 0..MaxSeq
  BY <1>1 DEF Greater, Clients
<1>3. client' = client \/ client' = Reconciled(c)
  BY DEF OnHeartbeat
<1> HIDE DEF x
<1>4. c \in Clients /\ Alike(client, c) /\ c.window = client.window
  BY <1>1, <1>2 DEF Clients, Alike
<1> HIDE DEF c
<1>5. Alike(c, Reconciled(c)) /\ Reconciled(c).window = c.window
  BY <1>4, ClientOperators
<1>6. ReducerOK(log, client', view) /\ client'.applied = client.applied
  <2>1. CASE client' = client
    BY <2>1
  <2>2. CASE client' = Reconciled(c)
    <3>1. Alike(client, client') /\ client'.window = client.window
      BY <1>4, <1>5, <2>2 DEF Alike
    <3>2. ReducerOK(log, client', view)
      BY <3>1, AlikeOK
    <3> QED BY <3>1, <3>2 DEF Alike
  <2> QED BY <1>3, <2>1, <2>2
<1> QED BY <1>6, StayOK DEF OnHeartbeat, BrowserOK

\* onDelta: a fold starts only on the successor of the last one.
LEMMA DeltaOK ==
    ASSUME ConnOK, ReducerOK(log, client, view), NEW rd, ReadersOK(log, client.applied, rd),
           log' = log, NEW r \in Readers, NEW n, Durable(log, n), OnDelta(rd, r, n)
    PROVE  ConnOK' /\ BrowserOK'
<1>0. /\ client \in Clients /\ client.applied \in 0..MaxSeq /\ client.last \in 0..MaxSeq
      /\ client.early \in Seq(Slots) /\ Len(client.early) \in Nat /\ Len(client.early) <= EarlyMax
      /\ client.window \in SUBSET Slots /\ client.timers \in SUBSET Timers
      /\ view' = view /\ n \in Slots
  BY DEF ReducerOK, Clients, OnDelta, Durable
<1>1. CASE Stay(rd) /\ UNCHANGED client
  BY <1>0, <1>1, StayOK DEF BrowserOK
<1>2. CASE /\ client.cap = "seq" /\ ~client.snap
           /\ client' = [client EXCEPT !.boot = TRUE,
                                       !.early = IF Len(@) < EarlyMax THEN Append(@, n) ELSE @]
           /\ IF client.boot THEN Stay(rd) ELSE Reconnect(rd, r = "new" \/ Waiting("new"))
  <2> DEFINE q == IF Len(client.early) < EarlyMax THEN Append(client.early, n) ELSE client.early
  <2>1. q \in Seq(Slots) /\ Len(q) <= EarlyMax /\ \A i \in 1..Len(q) : Durable(log, q[i])
    <3>1. \A i \in 1..Len(client.early) : Durable(log, client.early[i])
      BY DEF ReducerOK, ClientOK
    <3>2. CASE Len(client.early) < EarlyMax
      <4>1. q = Append(client.early, n)
        BY <3>2
      <4>2. q \in Seq(Slots) /\ Len(q) = Len(client.early) + 1
            /\ \A i \in 1..Len(q) : q[i] = IF i = Len(client.early) + 1 THEN n ELSE client.early[i]
        BY <1>0, <4>1
      <4> HIDE DEF q
      <4> QED BY <1>0, <3>1, <3>2, <4>2, Bounds
    <3>3. CASE ~(Len(client.early) < EarlyMax)
      BY <1>0, <3>1, <3>3
    <3> QED BY <3>2, <3>3
  <2>2. client' = [client EXCEPT !.boot = TRUE, !.early = q]
    BY <1>0, <1>2
  <2> HIDE DEF q
  <2>3. TRUE \in BOOLEAN
    OBVIOUS
  <2>4. client' \in Clients
    BY <1>0, <2>1, <2>2, <2>3 DEF Clients
  <2>5. /\ client'.early = q /\ client'.window = client.window /\ client'.applied = client.applied
        /\ client'.snap = client.snap
    BY <1>0, <2>2 DEF Clients
  <2>6. ReducerOK(log', client', view')
    BY <1>0, <1>2, <2>1, <2>4, <2>5 DEF ReducerOK, ClientOK
  <2>7. (r = "new" \/ Waiting("new")) \in BOOLEAN
    OBVIOUS
  <2>8. ConnOK' /\ ReadersOK(log', client.applied, reader')
    BY <1>2, <2>7, StayOK, ReconnectOK
  <2> QED BY <2>5, <2>6, <2>8 DEF BrowserOK
<1>3. CASE client.snap /\ InTurn(n) /\ UNCHANGED client /\ Stay([rd EXCEPT ![r].busy = n])
  <2> DEFINE s == [rd[r] EXCEPT !.busy = n]
  <2>1. rd \in [Readers -> Streams] /\ rd[r] \in Streams /\ StreamOK(log, client.applied, rd[r])
    BY DEF ReadersOK
  <2>2. client.last <= client.applied
    BY <1>3 DEF ReducerOK, ClientOK
  <2>3. n \in 0..MaxSeq /\ n <= client.applied + 1
    BY <1>0, <1>3, <2>2, Bounds DEF InTurn, Slots
  <2>4. s \in Streams /\ StreamOK(log, client.applied, s)
    BY <1>0, <2>1, <2>3, StreamUpdates
  <2>5. ReadersOK(log, client.applied, [rd EXCEPT ![r] = s])
    BY <2>4, ReadersWith
  <2>6. Stay([rd EXCEPT ![r] = s])
    BY <1>3, <2>1
  <2> HIDE DEF s
  <2> QED BY <1>0, <1>3, <2>5, <2>6, StayOK DEF BrowserOK
<1>4. CASE /\ client.snap
           /\ client' = [client EXCEPT !.window = @ \cup {n}, !.timers = @ \cup {"reorder"}]
           /\ Stay(rd)
  <2> DEFINE w == client.window \cup {n}
             t == client.timers \cup {"reorder"}
  <2>1. w \in SUBSET Slots /\ t \in SUBSET Timers
    BY <1>0 DEF Timers
  <2>2. client' = [client EXCEPT !.window = w, !.timers = t]
    BY <1>4
  <2>3. \A m \in w : Durable(log, m)
    BY DEF ReducerOK, ClientOK
  <2> HIDE DEF w, t
  <2>4. client' \in Clients /\ client'.window = w /\ Alike(client, client')
    BY <1>0, <2>1, <2>2 DEF Clients, Alike
  <2>5. ReducerOK(log', client', view') /\ client'.applied = client.applied
    BY <1>0, <1>4, <2>3, <2>4 DEF ReducerOK, ClientOK, Alike
  <2> QED BY <1>4, <2>5, StayOK DEF BrowserOK
<1> QED BY <1>1, <1>2, <1>3, <1>4 DEF OnDelta

\* Steps of the browser leave the log and its writers alone.
LEMMA BrowserStep ==
    ASSUME IInv, ConnOK', BrowserOK', UNCHANGED <<logVars, pub, edge>>, faults' \in 0..MaxFaults
    PROVE  IInv'
BY PartsStay DEF IInv, logVars

\* What is known of a reader, and of the readers without its next frame.
LEMMA ReaderOK ==
    ASSUME BrowserOK, NEW r \in Readers
    PROVE  /\ client \in Clients /\ client.applied \in 0..MaxSeq
           /\ reader \in [Readers -> Streams] /\ reader[r] \in Streams
           /\ StreamOK(log, client.applied, reader[r])
BY DEF BrowserOK, ReadersOK, ReducerOK, Clients

\* readStream hands over a frame.
LEMMA StepTake ==
    ASSUME IInv, NEW r \in Readers, Take(r)
    PROVE  IInv'
<1> DEFINE f  == Head(reader[r].in)
           t  == Tail(reader[r].in)
           s  == [reader[r] EXCEPT !.in = t]
           rd == [reader EXCEPT ![r].in = Tail(@)]
<1>0. /\ BrowserOK /\ ConnOK /\ UNCHANGED <<logVars, pub, edge>> /\ log' = log
      /\ faults' \in 0..MaxFaults
      /\ reader[r].in # <<>> /\ ReducerOK(log, client, view) /\ ReadersOK(log, client.applied, reader)
  <2>1. Fault \/ UNCHANGED faults
    BY DEF Take, OnSnapshot
  <2> QED BY <2>1, FaultCounts DEF IInv, Take, BrowserOK, logVars
<1>1. /\ client.applied \in 0..MaxSeq /\ reader \in [Readers -> Streams] /\ reader[r] \in Streams
      /\ StreamOK(log, client.applied, reader[r])
  BY <1>0, ReaderOK
<1>2. reader[r].in \in Seq(Frames) /\ FramesOK(log, reader[r].in)
  BY <1>1 DEF Streams, StreamOK
<1>3. f \in Frames /\ FrameOK(log, f)
  BY <1>0, <1>2, FramesOps
<1>4. s \in Streams /\ StreamOK(log, client.applied, s)
  BY <1>0, <1>1, StreamUpdates
<1>5. rd = [reader EXCEPT ![r] = s]
  BY <1>1
<1> HIDE DEF s
<1>6. ReadersOK(log, client.applied, rd)
  BY <1>0, <1>4, <1>5, ReadersWith
<1>7. \/ f.t = "connected" /\ OnConnected(rd, f.n)
      \/ f.t = "snapshot"  /\ OnSnapshot(rd, r, f.n)
      \/ f.t = "heartbeat" /\ OnHeartbeat(rd, f.n)
      \/ f.t = "delta"     /\ OnDelta(rd, r, f.n)
  BY DEF Take
<1> HIDE DEF f, rd
<1>8. f.n \in -1..MaxSeq
  BY <1>3 DEF Frames
<1>9. CASE f.t = "connected" /\ OnConnected(rd, f.n)
  BY <1>0, <1>6, <1>8, <1>9, ConnectedOK, BrowserStep
<1>10. CASE f.t = "snapshot" /\ OnSnapshot(rd, r, f.n)
  <2>1. f.n \in 0..MaxSeq /\ Solid(log, f.n)
    BY <1>3, <1>10 DEF FrameOK
  <2> QED BY <1>0, <1>6, <1>10, <2>1, SnapshotOK, BrowserStep
<1>11. CASE f.t = "heartbeat" /\ OnHeartbeat(rd, f.n)
  <2>1. f.n \in 0..MaxSeq
    BY <1>3, <1>11 DEF FrameOK
  <2> QED BY <1>0, <1>6, <1>11, <2>1, HeartbeatOK, BrowserStep
<1>12. CASE f.t = "delta" /\ OnDelta(rd, r, f.n)
  <2>1. Durable(log, f.n)
    BY <1>3, <1>12 DEF FrameOK
  <2> QED BY <1>0, <1>6, <1>12, <2>1, DeltaOK, BrowserStep
<1> QED BY <1>7, <1>9, <1>10, <1>11, <1>12

\* drainReorderBuffer takes the successor of the last number, if it is there.
LEMMA NextFoldOK ==
    ASSUME NEW c \in Clients, NEW l, NEW a \in 0..MaxSeq, c.window # {} => c.last <= a,
           \A m \in c.window : Durable(l, m)
    PROVE  /\ NextFold(c) \in 0..MaxSeq
           /\ NextFold(c) # 0 => Durable(l, NextFold(c)) /\ NextFold(c) <= a + 1
<1>1. c.last \in 0..MaxSeq
  BY DEF Clients
<1>2. CASE c.last + 1 \in c.window
  <2>1. NextFold(c) = c.last + 1 /\ Durable(l, c.last + 1) /\ c.last <= a
    BY <1>2 DEF NextFold
  <2>2. c.last + 1 \in 0..MaxSeq /\ c.last + 1 <= a + 1
    BY <1>1, <2>1, Bounds DEF Durable, Slots
  <2> QED BY <2>1, <2>2
<1>3. CASE c.last + 1 \notin c.window
  BY <1>3, Bounds DEF NextFold
<1> QED BY <1>2, <1>3

\* A window that is drained.
LEMMA DrainedOK ==
    ASSUME NEW c \in Clients
    PROVE  Alike(c, Drained(c)) /\ Drained(c).window \subseteq c.window
<1> DEFINE w == c.window \ {c.last + 1}
<1>1. w \in SUBSET Slots /\ w \subseteq c.window
  BY DEF Clients
<1>2. Drained(c) = WithWindow(c, w)
  BY DEF Drained
<1> HIDE DEF w
<1> QED BY <1>1, <1>2, ClientOperators

\* The deltas that came early, and then the window.
LEMMA StepReplay ==
    ASSUME IInv, NEW r \in Readers, Replay(r)
    PROVE  IInv'
<1> DEFINE n  == Head(reader[r].todo)
           t  == Tail(reader[r].todo)
           s  == [reader[r] EXCEPT !.todo = t]
           rd == [reader EXCEPT ![r].todo = Tail(@)]
           b  == NextFold(client)
           u  == [s EXCEPT !.busy = b]
<1>0. /\ BrowserOK /\ ConnOK /\ UNCHANGED <<logVars, pub, edge, faults>> /\ log' = log
      /\ faults' \in 0..MaxFaults
      /\ reader[r].todo # <<>> /\ ReducerOK(log, client, view) /\ ReadersOK(log, client.applied, reader)
  BY DEF IInv, Replay, BrowserOK, logVars
<1>1. /\ client \in Clients /\ client.applied \in 0..MaxSeq /\ reader \in [Readers -> Streams]
      /\ reader[r] \in Streams /\ StreamOK(log, client.applied, reader[r])
  BY <1>0, ReaderOK
<1>2. reader[r].todo \in Seq(0..MaxSeq)
      /\ \A i \in 1..Len(reader[r].todo) : reader[r].todo[i] # 0 => Durable(log, reader[r].todo[i])
  BY <1>1 DEF Streams, StreamOK
<1>3. n # 0 => Durable(log, n)
  BY <1>0, <1>2
<1>4. t \in Seq(0..MaxSeq) /\ \A i \in 1..Len(t) : t[i] # 0 => Durable(log, t[i])
  <2>1. t \in Seq(0..MaxSeq) /\ Len(t) = Len(reader[r].todo) - 1
        /\ \A i \in 1..Len(t) : t[i] = reader[r].todo[i + 1]
    <3> DEFINE q == reader[r].todo
    <3>1. q \in Seq(0..MaxSeq) /\ q # <<>>
      BY <1>0, <1>2
    <3> HIDE DEF q
    <3>2. Tail(q) \in Seq(0..MaxSeq) /\ Len(Tail(q)) = Len(q) - 1
      BY <3>1
    <3>3. \A i \in 1..Len(Tail(q)) : Tail(q)[i] = q[i + 1]
      BY <3>1, <3>2
    <3> QED BY <3>2, <3>3 DEF q
  <2>2. \A i \in 1..Len(t) : i + 1 \in 1..Len(reader[r].todo)
    BY <1>0, <1>2, <2>1
  <2> QED BY <1>2, <2>1, <2>2
<1> HIDE DEF t
<1>5. s \in Streams /\ StreamOK(log, client.applied, s)
  BY <1>1, <1>4, StreamUpdates
<1>6. rd = [reader EXCEPT ![r] = s]
  BY <1>1 DEF t
<1> HIDE DEF s
<1>7. ReadersOK(log, client.applied, rd)
  BY <1>0, <1>5, <1>6, ReadersWith
<1>8. CASE n # 0 /\ OnDelta(rd, r, n)
  <2> HIDE DEF n, rd
  <2> QED BY <1>0, <1>3, <1>7, <1>8, DeltaOK, BrowserStep
<1>9. CASE /\ client' = Reconciled(Drained(client)) /\ UNCHANGED view
           /\ Stay([rd EXCEPT ![r].busy = b])
  <2>1. Alike(client, Drained(client)) /\ Drained(client).window \subseteq client.window
    BY <1>1, DrainedOK
  <2>2. Drained(client) \in Clients
    BY <2>1 DEF Alike
  <2>3. Alike(Drained(client), client') /\ client'.window = Drained(client).window
    BY <1>9, <2>2, ClientOperators
  <2>4. Alike(client, client') /\ client'.window \subseteq client.window
    BY <2>1, <2>3 DEF Alike
  <2>5. ReducerOK(log', client', view') /\ client'.applied = client.applied
    BY <1>0, <1>9, <2>4, AlikeOK DEF Alike
  <2>6. client.window # {} => client.last <= client.applied
    BY <1>0 DEF ReducerOK, ClientOK
  <2>7. \A m \in client.window : Durable(log, m)
    BY <1>0 DEF ReducerOK, ClientOK
  <2>8. b \in 0..MaxSeq /\ (b # 0 => Durable(log, b) /\ b <= client.applied + 1)
    BY <1>1, <2>6, <2>7, NextFoldOK
  <2> HIDE DEF b
  <2>9. u \in Streams /\ StreamOK(log, client.applied, u)
    BY <1>1, <1>5, <2>8, StreamUpdates
  <2>10. rd[r] = s /\ rd \in [Readers -> Streams]
    BY <1>1, <1>5, <1>6
  <2> HIDE DEF rd
  <2>11. [rd EXCEPT ![r].busy = b] = [rd EXCEPT ![r] = u]
    BY <2>10
  <2> HIDE DEF u
  <2>12. ConnOK' /\ ReadersOK(log', client.applied, reader')
    <3>1. ReadersOK(log, client.applied, [rd EXCEPT ![r] = u])
      BY <1>7, <2>9, ReadersWith
    <3> QED BY <1>0, <1>9, <2>11, <3>1, StayOK
  <2> QED BY <1>0, <2>5, <2>12, BrowserStep DEF BrowserOK
<1> QED BY <1>8, <1>9 DEF Replay

\* What is shown up to a, with the event n, which is at most one beyond.
LEMMA ShowNext ==
    ASSUME NEW l, NEW a \in 0..MaxSeq, Solid(l, a), NEW n, Durable(l, n), n <= a + 1
    PROVE  LET b == Greater(a, n) IN
           /\ {m \in 1..a : l[m] \in Events} \cup {n} = {m \in 1..b : l[m] \in Events}
           /\ Solid(l, b)
<1>1. n \in 1..MaxSeq /\ l[n] \in Events /\ l[n] # "hole"
  BY Bounds DEF Durable, Slots
<1>2. CASE n <= a
  BY <1>1, <1>2 DEF Greater
<1>3. CASE n = a + 1
  <2>1. Greater(a, n) = n /\ \A m \in 1..n : m \in 1..a \/ m = n
    BY <1>1, <1>3 DEF Greater
  <2>2. \A m \in 1..a : m \in 1..n
    BY <1>1, <1>3
  <2>3. Solid(l, n)
    BY <1>1, <2>1 DEF Solid
  <2>4. n \in 1..n
    BY <1>1
  <2>5. {m \in 1..a : l[m] \in Events} \cup {n} = {m \in 1..n : l[m] \in Events}
    BY <1>1, <2>1, <2>2, <2>4
  <2> QED BY <2>1, <2>3, <2>5
<1>4. n <= a \/ n = a + 1
  BY <1>1
<1> QED BY <1>2, <1>3, <1>4

\* A fold ends, perhaps long after its stream was given up: the event it adds is
\* shown already, or is the next one.
LEMMA StepFold ==
    ASSUME IInv, NEW r \in Readers, FoldDone(r)
    PROVE  IInv'
<1> DEFINE n == reader[r].busy
           a == Greater(client.applied, n)
           e == Greater(client.seen, n)
           c == [client EXCEPT !.last = n, !.applied = a, !.seen = e]
           b == NextFold(c)
           s == [reader[r] EXCEPT !.busy = b]
<1>0. /\ BrowserOK /\ ConnOK /\ UNCHANGED <<logVars, pub, conn, edge, faults>> /\ log' = log
      /\ faults' \in 0..MaxFaults
      /\ ReducerOK(log, client, view) /\ ReadersOK(log, client.applied, reader)
      /\ view' = view \cup {n} /\ n # 0
  BY DEF IInv, FoldDone, BrowserOK, logVars, Waiting
<1>1. /\ client \in Clients /\ client.applied \in 0..MaxSeq /\ reader \in [Readers -> Streams]
      /\ reader[r] \in Streams /\ StreamOK(log, client.applied, reader[r])
  BY <1>0, ReaderOK
<1>2. client.seen \in 0..MaxSeq /\ client.window \in SUBSET Slots
  BY <1>1 DEF Clients
<1>3. Durable(log, n) /\ n <= client.applied + 1 /\ n \in 0..MaxSeq /\ n \in Slots
  BY <1>0, <1>1 DEF StreamOK, Streams, Durable
<1>4. client' = Drained(Reconciled(c)) /\ reader' = [reader EXCEPT ![r] = s]
  <2>1. client' = Drained(Reconciled(c))
    BY <1>1 DEF FoldDone
  <2>2. reader' = [reader EXCEPT ![r].busy = b]
    BY <1>1 DEF FoldDone
  <2> QED BY <1>1, <2>1, <2>2
<1> HIDE DEF n
<1>5. a \in 0..MaxSeq /\ e \in 0..MaxSeq /\ client.applied <= a /\ n <= a
  BY <1>1, <1>2, <1>3, Bounds DEF Greater
<1> HIDE DEF a, e
<1>6. c \in Clients
  BY <1>1, <1>3, <1>5 DEF Clients
<1>7. /\ c.last = n /\ c.applied = a /\ c.cap = client.cap /\ c.snap = client.snap
      /\ c.early = client.early /\ c.window = client.window
  BY <1>1 DEF Clients
<1> HIDE DEF c
<1>8. ReducerOK(log, c, view')
  <2>1. \A i \in 1..Len(client.early) : Durable(log, client.early[i])
    BY <1>0 DEF ReducerOK, ClientOK
  <2>2. \A m \in client.window \cup view' : Durable(log, m)
    BY <1>0, <1>3 DEF ReducerOK, ClientOK
  <2>3. view' \subseteq Slots /\ Len(client.early) <= EarlyMax /\ (~client.snap => client.window = {})
    BY <1>0, <1>3 DEF ReducerOK, ClientOK
  <2>4. ASSUME client.snap
        PROVE  view' = {m \in 1..a : log[m] \in Events} /\ Solid(log, a) /\ client.cap = "seq"
    <3>1. client.cap = "seq" /\ view = {m \in 1..client.applied : log[m] \in Events}
          /\ Solid(log, client.applied)
      BY <1>0, <2>4 DEF ReducerOK, ClientOK
    <3> QED BY <1>0, <1>1, <1>3, <3>1, ShowNext DEF a
  <2> QED BY <1>5, <1>6, <1>7, <2>1, <2>2, <2>3, <2>4 DEF ReducerOK, ClientOK
<1>9. ReducerOK(log, client', view') /\ client'.applied = a
  <2>1. Alike(c, Reconciled(c)) /\ Reconciled(c).window = c.window
    BY <1>2, <1>6, ClientOperators
  <2>2. Reconciled(c) \in Clients
    BY <2>1 DEF Alike
  <2>3. Alike(Reconciled(c), client') /\ client'.window \subseteq Reconciled(c).window
    BY <1>4, <2>2, DrainedOK
  <2>4. Alike(c, client') /\ client'.window \subseteq c.window
    BY <2>1, <2>3 DEF Alike
  <2>5. ReducerOK(log, client', view')
    BY <1>8, <2>4, AlikeOK
  <2> QED BY <1>7, <2>4, <2>5 DEF Alike
<1>10. b \in 0..MaxSeq /\ (b # 0 => Durable(log, b) /\ b <= a + 1)
  <2>1. c.window # {} => c.last <= a
    BY <1>5, <1>7
  <2>2. \A m \in c.window : Durable(log, m)
    BY <1>8 DEF ReducerOK, ClientOK
  <2> QED BY <1>5, <1>6, <2>1, <2>2, NextFoldOK
<1> HIDE DEF b
<1>11. ReadersOK(log, a, reader)
  BY <1>0, <1>1, <1>5, ReadersOfMore
<1>12. s \in Streams /\ StreamOK(log, a, s)
  <2>1. StreamOK(log, a, reader[r])
    BY <1>11 DEF ReadersOK
  <2> QED BY <1>1, <1>5, <1>10, <2>1, StreamUpdates
<1> HIDE DEF s
<1>13. ReadersOK(log, a, reader')
  BY <1>4, <1>11, <1>12, ReadersWith
<1>14. ConnOK' /\ BrowserOK'
  BY <1>0, <1>9, <1>13, PartsStay DEF BrowserOK
<1> QED BY <1>0, <1>14, BrowserStep

\* A timer fires.
LEMMA StepFire ==
    ASSUME IInv, NEW t \in Timers, Fire(t)
    PROVE  IInv'
<1>0. /\ BrowserOK /\ ConnOK /\ UNCHANGED <<logVars, pub, edge, view, faults>> /\ log' = log
      /\ faults' \in 0..MaxFaults
      /\ ReducerOK(log, client, view) /\ ReadersOK(log, client.applied, reader)
      /\ client' = [client EXCEPT !.timers = @ \ {t}]
      /\ Reconnect(reader, Waiting("new")) \/ Stay(reader)
  BY DEF IInv, Fire, BrowserOK, logVars
<1>1. client \in Clients /\ client.timers \ {t} \in SUBSET Timers
  BY <1>0 DEF ReducerOK, Clients
<1>2. Alike(client, client') /\ client'.window = client.window
  BY <1>0, <1>1 DEF Clients, Alike
<1>3. ReducerOK(log', client', view') /\ client'.applied = client.applied
  BY <1>0, <1>2, AlikeOK DEF Alike
<1>4. Waiting("new") \in BOOLEAN
  BY DEF Waiting
<1>5. ConnOK' /\ ReadersOK(log', client.applied, reader')
  BY <1>0, <1>4, StayOK, ReconnectOK
<1> QED BY <1>0, <1>3, <1>5, BrowserStep DEF BrowserOK
-----------------------------------------------------------------------------
(* The invariant                                                           *)

LEMMA InitIInv ==
    Init => IInv
<1> SUFFICES ASSUME Init PROVE IInv
  OBVIOUS
<1>1. LogOK
  <2>1. pub \in [Publishers -> Memory]
    BY Bounds DEF Init, Memory
  <2>2. \A p \in Publishers : pub[p].pc = "idle"
    BY DEF Init
  <2>3. \A p \in Publishers : PubOK(log, seq, pub[p])
    BY <2>2 DEF PubOK
  <2>4. log \in [Slots -> Events \cup {"hole", "skip"}] /\ \A n \in Slots : log[n] = "hole"
    BY DEF Init
  <2>5. seq \in 0..MaxSeq /\ healed \in 0..MaxSeq
    BY Bounds DEF Init
  <2> QED BY <2>1, <2>3, <2>4, <2>5, Bounds DEF LogOK
<1>2. ConnOK
  <2>1. conn \in Conns /\ conn.q = <<>> /\ conn.shot = -1 /\ Len(<<>>) = 0 /\ Solid(log, -1)
    BY Nothing DEF Init
  <2> QED BY <2>1, Bounds DEF ConnOK, FramesOK
<1>3. EdgeOK
  BY Nothing DEF Init, EdgeOK, NoEdge
<1>4. ReadersOK(log, client.applied, reader)
  BY Nothing DEF Init, ReadersOK
<1>5. ReducerOK(log, client, view)
  <2>1. client \in Clients /\ client.early = <<>> /\ client.window = {} /\ client.snap = FALSE /\ view = {}
    BY Bounds DEF Init, Fresh, Clients
  <2>2. Len(<<>>) = 0
    OBVIOUS
  <2> QED BY <2>1, <2>2, Bounds DEF ReducerOK, ClientOK
<1>6. faults \in 0..MaxFaults
  BY Bounds DEF Init
<1> QED BY <1>1, <1>2, <1>3, <1>4, <1>5, <1>6 DEF IInv, BrowserOK

LEMMA IInvStep ==
    IInv /\ [Next]_vars => IInv'
<1> SUFFICES ASSUME IInv, [Next]_vars PROVE IInv'
  OBVIOUS
<1>1. ASSUME NEW p \in Publishers, Publish(p) \/ Crash(p) PROVE IInv'
  BY <1>1, StepAlloc, StepInsert, StepFill, StepHeal, StepSend DEF Publish
<1>2. ASSUME NEW p \in Publishers, NEW e \in Events, Emit(p, e) PROVE IInv'
  BY <1>2, StepEmit
<1>3. ASSUME NEW k \in Edges, BuildEdge(k) \/ SendEdge(k) PROVE IInv'
  BY <1>3, StepEdge
<1>4. CASE Connect \/ Handshake \/ Deliver \/ ResyncShot \/ Break
  BY <1>4, StepConnection
<1>5. ASSUME NEW r \in Readers, Take(r) \/ Replay(r) \/ FoldDone(r) PROVE IInv'
  BY <1>5, StepTake, StepReplay, StepFold
<1>6. ASSUME NEW t \in Timers, Fire(t) PROVE IInv'
  BY <1>6, StepFire
<1>7. CASE UNCHANGED vars
  BY <1>7, PartsStay DEF vars, IInv
<1> QED BY <1>1, <1>2, <1>3, <1>4, <1>5, <1>6, <1>7 DEF Next

\* The inductive invariant: the log only grows, what is under way names events of
\* it, and a client with a snapshot shows what it has applied.
THEOREM IInvHolds == Spec => []IInv
BY InitIInv, IInvStep, PTL DEF Spec

\* Queue and buffers keep their limits and an event has one slot (append,
\* send_frame, RoomReducer), for every value of the limits.
THEOREM TypeCorrect == Spec => []TypeOK
<1>1. IInv => TypeOK
  BY DEF IInv, LogOK, ConnOK, EdgeOK, BrowserOK, ReadersOK, ReducerOK, TypeOK
<1> QED BY <1>1, IInvHolds, PTL

\* No delta precedes its event in the log, and none names a tombstone
\* (_persist_frame before broadcast_frame_to_room).
THEOREM DeltasDurable == Spec => []DeltaIsDurable
<1>1. IInv => DeltaIsDurable
  <2> SUFFICES ASSUME IInv PROVE DeltaIsDurable
    OBVIOUS
  <2>1. conn.q \in Seq(Frames) /\ FramesOK(log, conn.q)
    BY DEF IInv, ConnOK, Conns
  <2>2. \A r \in Readers : reader[r].in \in Seq(Frames) /\ FramesOK(log, reader[r].in)
    BY DEF IInv, BrowserOK, ReadersOK, StreamOK, Streams
  <2>3. \A n \in client.window : log[n] \in Events
    BY DEF IInv, BrowserOK, ReducerOK, ClientOK, Durable
  <2> QED BY <2>1, <2>2, <2>3 DEF DeltaIsDurable, FramesOK, FrameOK, Durable
<1> QED BY <1>1, IInvHolds, PTL

\* A sequenced room shows no event above one that is missing (_snapshot_locked's
\* contiguous prefix, drainReorderBuffer), whatever streams were given up.
THEOREM ViewsArePrefixes == Spec => []ViewIsPrefix
<1>1. IInv => ViewIsPrefix
  <2> SUFFICES ASSUME IInv, client.snap, NEW n \in view, NEW m \in 1..n
               PROVE  log[m] = "skip" \/ m \in view
    BY DEF ViewIsPrefix
  <2>1. /\ view = {k \in 1..client.applied : log[k] \in Events} /\ Solid(log, client.applied)
        /\ client.applied \in 0..MaxSeq
    BY DEF IInv, BrowserOK, ReducerOK, ClientOK, Clients
  <2>2. m \in 1..client.applied /\ m \in Slots
    BY <2>1, Bounds DEF Slots
  <2>3. log[m] \in Events \cup {"hole", "skip"} /\ log[m] # "hole"
    BY <2>1, <2>2 DEF IInv, LogOK, Solid
  <2> QED BY <2>1, <2>2, <2>3
<1> QED BY <1>1, IInvHolds, PTL

\* What a sequenced client has folded is not taken off the screen by a snapshot
\* that comes late, on whatever stream (onSnapshot, appliedRoomSeq).
THEOREM FoldedStaysShown == Spec => ShownStays
<1>1. IInv /\ [Next]_vars =>
        [client.cap = "seq" => {n \in view : n <= client.applied} \subseteq view']_vars
  <2> SUFFICES ASSUME IInv, Next, client.cap = "seq", NEW n \in view, n <= client.applied
               PROVE  n \in view'
    BY DEF vars
  <2>1. /\ client.applied \in 0..MaxSeq /\ n \in Slots /\ log[n] \in Events
    BY DEF IInv, BrowserOK, ReducerOK, ClientOK, Clients, Durable
  <2>2. CASE view' = view
    BY <2>2
  <2>3. ASSUME NEW r \in Readers, FoldDone(r) PROVE n \in view'
    BY <2>3 DEF FoldDone
  <2>4. ASSUME NEW rd, NEW r \in Readers, NEW m, OnSnapshot(rd, r, m), view' # view, m \in 0..MaxSeq
        PROVE  n \in view'
    <3>1. view' = Covered(m) /\ ~(m < client.applied)
      BY <2>4 DEF OnSnapshot, Stale
    <3>2. n \in 1..m
      BY <2>1, <2>4, <3>1, Bounds DEF Slots
    <3> QED BY <2>1, <3>1, <3>2 DEF Covered
  <2>5. ASSUME NEW r \in Readers, Take(r), view' # view PROVE n \in view'
    <3> DEFINE f == Head(reader[r].in)
               rd == [reader EXCEPT ![r].in = Tail(@)]
    <3>1. f \in Frames /\ FrameOK(log, f)
      <4>1. reader[r].in \in Seq(Frames) /\ FramesOK(log, reader[r].in) /\ reader[r].in # <<>>
        BY <2>5 DEF IInv, BrowserOK, ReadersOK, StreamOK, Streams, Take
      <4> QED BY <4>1, FramesOps
    <3>2. f.t = "snapshot" /\ OnSnapshot(rd, r, f.n)
      BY <2>5 DEF Take, OnConnected, OnHeartbeat, OnDelta
    <3> HIDE DEF f, rd
    <3>3. f.n \in 0..MaxSeq
      BY <3>1, <3>2 DEF FrameOK
    <3> QED BY <2>4, <2>5, <3>2, <3>3
  <2>6. ASSUME NEW r \in Readers, Replay(r) PROVE view' = view
    BY <2>6 DEF Replay, OnDelta
  <2>7. ASSUME NEW p \in Publishers, Publish(p) \/ Crash(p) PROVE view' = view
    BY <2>7 DEF Publish, Alloc, Insert, Fill, Heal, Send, Crash
  <2>8. ASSUME NEW p \in Publishers, NEW e \in Events, Emit(p, e) PROVE view' = view
    BY <2>8 DEF Emit
  <2>9. ASSUME NEW k \in Edges, BuildEdge(k) \/ SendEdge(k) PROVE view' = view
    BY <2>9 DEF BuildEdge, SendEdge
  <2>11. ASSUME Connect \/ Handshake \/ Deliver \/ ResyncShot \/ Break PROVE view' = view
    BY <2>11 DEF Connect, Handshake, Deliver, ResyncShot, Break
  <2>10. ASSUME NEW t \in Timers, Fire(t) PROVE view' = view
    BY <2>10 DEF Fire
  <2> QED BY <2>2, <2>3, <2>5, <2>6, <2>7, <2>8, <2>9, <2>10, <2>11 DEF Next
<1> QED BY <1>1, IInvHolds, PTL DEF Spec, ShownStays
=============================================================================
