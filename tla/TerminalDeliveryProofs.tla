---------------------- MODULE TerminalDeliveryProofs ----------------------
(***************************************************************************)
(* Proofs about TerminalDelivery, for any number of instances, emitters    *)
(* and disturbances.                                                       *)
(*                                                                         *)
(* The inductive invariant adds to the three properties who may hold a     *)
(* lock, which program counters imply an accepted frame, and a budget: a   *)
(* frame in the hands of an emitter counts as sent, and the one free       *)
(* delivery is either not taken yet, or Redis holds the marker or a claim  *)
(* whose emitter still guards it.                                          *)
(***************************************************************************)
EXTENDS TerminalDelivery, FiniteSetTheorems, TLAPS

Reserving == {"setnx", "get"}

\* Who reserves holds the lock alone and a claim; a confirmation is in Redis.
LockOK ==
    /\ lock \in [Instances -> SUBSET Emitters]
    /\ \A e \in Emitters : em[e].pc \in Reserving => lock[em[e].at] = {e} /\ em[e].claim # None
    /\ \A e \in Emitters : em[e].pc = "confirmed" => redis = Delivered

\* Who is past the fan-out has had the frame accepted.
Accepted == \A e \in Emitters :
    em[e].pc \in {"confirm", "confirmed", "mark", "set"} => sent > 0

\* The heartbeat starts with the delivery.
Unlost == \A e \in Emitters : em[e].pc \in {"idle", "setnx", "get"} => em[e].lost = FALSE

InHand == {e \in Emitters : em[e].pc = "deliver"}
Spent  == sent + Cardinality(InHand)
Slack  == Spent <= faults

\* The emitter keeps everyone else from the key until its frame is marked.
Guards(e) ==
    /\ redis # None /\ em[e].claim = redis /\ em[e].l2 /\ ~em[e].lost
    /\ em[e].pc \in {"deliver", "confirm", "mark", "set"}
    /\ em[e].pc = "deliver" => Owns(e) /\ lock[em[e].at] = {}

Budget ==
    /\ Spent <= 1 + faults
    /\ Slack \/ redis = Delivered \/ \E e \in Emitters : Guards(e)

IInv == TypeOK /\ LockOK /\ MarkedIsAccepted /\ Accepted /\ Unlost /\ Budget
-----------------------------------------------------------------------------
(* Claim ids                                                               *)

\* A set that a function enumerates is no larger than the function's domain.
LEMMA ImageCardinality ==
    ASSUME NEW S, IsFiniteSet(S), NEW f, DOMAIN f = S
    PROVE  /\ IsFiniteSet({f[x] : x \in S})
           /\ Cardinality({f[x] : x \in S}) <= Cardinality(S)
<1> DEFINE T == {f[x] : x \in S}
           g == [x \in S |-> f[x]]
<1>1. g \in Surjection(S, T)
  BY DEF Surjection
<1> QED BY <1>1, FS_Surjection

\* There are more claim ids than can be in use: one is free (uuid4).
LEMMA FreshIsFree ==
    ASSUME TypeOK
    PROVE  Fresh \in Claims /\ Fresh \notin Used
<1> DEFINE f == [i \in Instances |-> l1[i].res]
           g == [e \in Emitters |-> em[e].claim]
           F == {f[i] : i \in Instances}
           G == {g[e] : e \in Emitters}
<1>1. IsFiniteSet(F) /\ Cardinality(F) <= Cardinality(Instances)
  BY ImageCardinality, TerminalDeliveryAssumption
<1>2. IsFiniteSet(G) /\ Cardinality(G) <= Cardinality(Emitters)
  BY ImageCardinality, TerminalDeliveryAssumption
<1>3. Used = (F \cup G) \cup {redis}
  BY DEF Used
<1>4. IsFiniteSet(F \cup G) /\ Cardinality(F \cup G) <= Cardinality(F) + Cardinality(G)
  <2>1. Cardinality(F \cap G) \in Nat
    BY <1>1, FS_Intersection, FS_CardinalityType
  <2>2. Cardinality(F) \in Nat /\ Cardinality(G) \in Nat
    BY <1>1, <1>2, FS_CardinalityType
  <2> HIDE DEF F, G
  <2>3. /\ IsFiniteSet(F \cup G)
        /\ Cardinality(F \cup G) = Cardinality(F) + Cardinality(G) - Cardinality(F \cap G)
    BY <1>1, <1>2, FS_Union
  <2> QED BY <2>1, <2>2, <2>3
<1>5. IsFiniteSet(Used) /\ Cardinality(Used) <= Cardinality(Instances) + Cardinality(Emitters) + 1
  <2>1. Cardinality(F) \in Nat /\ Cardinality(G) \in Nat /\ Cardinality(F \cup G) \in Nat
        /\ Cardinality(Instances) \in Nat /\ Cardinality(Emitters) \in Nat
    BY <1>1, <1>2, <1>4, FS_CardinalityType, TerminalDeliveryAssumption
  <2>2. Cardinality(Used) <= Cardinality(F \cup G) + 1 /\ IsFiniteSet(Used)
    BY <1>3, <1>4, <2>1, FS_AddElement
  <2>3. Cardinality(Used) \in Nat
    BY <2>2, FS_CardinalityType
  <2> HIDE DEF F, G
  <2> QED BY <1>1, <1>2, <1>4, <2>1, <2>2, <2>3
<1>6. Cardinality(Claims) = Cardinality(Emitters) + Cardinality(Instances) + 2
  BY FS_Interval, FS_CardinalityType, TerminalDeliveryAssumption DEF Claims
<1>7. ~ (Claims \subseteq Used)
  <2> SUFFICES ASSUME Claims \subseteq Used PROVE FALSE
    OBVIOUS
  <2>1. Cardinality(Claims) <= Cardinality(Used)
    BY <1>5, FS_Subset
  <2> QED BY <1>5, <1>6, <2>1, FS_CardinalityType, TerminalDeliveryAssumption
<1> QED BY <1>7 DEF Fresh
-----------------------------------------------------------------------------
(* What a step does to the memory of the emitter that takes it             *)

\* e goes to pc with this claim, and nobody else's memory changes.
Moves(e, pc, claim) ==
    /\ em' \in [Emitters -> Memory]
    /\ em'[e].pc = pc /\ em'[e].claim = claim /\ em'[e].at = em[e].at
    /\ \A d \in Emitters : d # e => em'[d] = em[d]

Becomes(e, pc, claim, l2, lost) ==
    Moves(e, pc, claim) /\ em'[e].l2 = l2 /\ em'[e].lost = lost

\* A function of memories whose value at e is replaced.
LEMMA MemoryOfOne ==
    ASSUME em \in [Emitters -> Memory], NEW e \in Emitters, NEW m \in Memory,
           em' = [em EXCEPT ![e] = m], m.at = em[e].at
    PROVE  Becomes(e, m.pc, m.claim, m.l2, m.lost)
BY DEF Becomes, Moves

\* Go moves the program counter alone.
LEMMA GoBecomes ==
    ASSUME em \in [Emitters -> Memory], NEW e \in Emitters, NEW pc, Go(e, pc),
           pc \in {"get", "confirm", "confirmed", "mark", "set", "release", "delete"}
    PROVE  Becomes(e, pc, em[e].claim, em[e].l2, em[e].lost)
<1> DEFINE m == [em[e] EXCEPT !.pc = pc]
<1>1. m \in Memory /\ m.at = em[e].at /\ m.pc = pc /\ m.claim = em[e].claim
      /\ m.l2 = em[e].l2 /\ m.lost = em[e].lost
  BY DEF Memory
<1>2. em' = [em EXCEPT ![e] = m]
  BY DEF Go
<1> HIDE DEF m
<1> QED BY <1>1, <1>2, MemoryOfOne

\* Stop and Again leave no claim behind.
LEMMA IdleBecomes ==
    ASSUME em \in [Emitters -> Memory], NEW e \in Emitters
    PROVE  /\ Stop(e) => Becomes(e, "done", None, FALSE, FALSE)
           /\ Again(e) => Becomes(e, "idle", None, FALSE, FALSE)
<1> DEFINE m == Idle(e)
           n == [m EXCEPT !.pc = "done"]
<1>1. m \in Memory /\ m.at = em[e].at /\ m.pc = "idle" /\ m.claim = None
      /\ m.l2 = FALSE /\ m.lost = FALSE
  BY DEF Memory, Idle
<1>2. n \in Memory /\ n.at = em[e].at /\ n.pc = "done" /\ n.claim = None
      /\ n.l2 = FALSE /\ n.lost = FALSE
  BY <1>1 DEF Memory
<1>3. Stop(e) => em' = [em EXCEPT ![e] = n]
  BY DEF Stop
<1>4. Again(e) => em' = [em EXCEPT ![e] = m]
  BY DEF Again
<1> HIDE DEF m, n
<1> QED BY <1>1, <1>2, <1>3, <1>4, MemoryOfOne

\* A reservation begins with a fresh claim.
LEMMA ClaimBecomes ==
    ASSUME em \in [Emitters -> Memory], NEW e \in Emitters, NEW k \in Claims,
           em' = [em EXCEPT ![e].pc = "setnx", ![e].claim = k]
    PROVE  Becomes(e, "setnx", k, em[e].l2, em[e].lost)
<1> DEFINE m == [em[e] EXCEPT !.pc = "setnx", !.claim = k]
<1>1. m \in Memory /\ m.at = em[e].at /\ m.pc = "setnx" /\ m.claim = k
      /\ m.l2 = em[e].l2 /\ m.lost = em[e].lost
  BY DEF Memory
<1>2. em' = [em EXCEPT ![e] = m]
  OBVIOUS
<1> HIDE DEF m
<1>3. Becomes(e, m.pc, m.claim, m.l2, m.lost)
  BY <1>1, <1>2, MemoryOfOne
<1> QED BY <1>1, <1>3, Zenon

\* It ends with the entry of the instance and without the lock.
LEMMA ReservedBecomes ==
    ASSUME TypeOK, lock \in [Instances -> SUBSET Emitters],
           NEW e \in Emitters, NEW l2 \in BOOLEAN, Reserved(e, l2), em[e].claim \in Claims
    PROVE  /\ Becomes(e, "deliver", em[e].claim, l2, em[e].lost)
           /\ l1' \in [Instances -> Entries]
           /\ l1'[em[e].at].res = em[e].claim
           /\ \A i \in Instances : l1'[i].marked = l1[i].marked
           /\ \A i \in Instances : i # em[e].at => l1'[i] = l1[i] /\ lock'[i] = lock[i]
           /\ lock' \in [Instances -> SUBSET Emitters] /\ lock'[em[e].at] = {}
<1> DEFINE m == [em[e] EXCEPT !.pc = "deliver", !.l2 = l2]
<1>1. m \in Memory /\ m.at = em[e].at /\ m.pc = "deliver" /\ m.claim = em[e].claim
      /\ m.l2 = l2 /\ m.lost = em[e].lost
  <2>1. em[e] \in Memory
    BY DEF TypeOK
  <2> QED BY <2>1 DEF Memory
<1>2. em' = [em EXCEPT ![e] = m]
  BY DEF Reserved
<1>3. em[e].at \in Instances
  BY DEF TypeOK, Memory
<1>4. lock' \in [Instances -> SUBSET Emitters] /\ lock'[em[e].at] = {}
      /\ \A i \in Instances : i # em[e].at => lock'[i] = lock[i]
  BY <1>3 DEF Reserved, Unlock
<1>5. /\ l1' \in [Instances -> Entries]
      /\ l1'[em[e].at].res = em[e].claim
      /\ \A i \in Instances : l1'[i].marked = l1[i].marked
      /\ \A i \in Instances : i # em[e].at => l1'[i] = l1[i]
  <2> DEFINE n == [l1[em[e].at] EXCEPT !.res = em[e].claim, !.l2 = l2]
  <2>1. l1 \in [Instances -> Entries] /\ l1[em[e].at] \in Entries
    BY <1>3 DEF TypeOK
  <2>2. n \in Entries /\ n.res = em[e].claim /\ n.marked = l1[em[e].at].marked
    BY <2>1 DEF Entries
  <2>3. l1' = [l1 EXCEPT ![em[e].at] = n]
    BY <2>1 DEF Reserved
  <2> HIDE DEF n
  <2> QED BY <1>3, <2>1, <2>2, <2>3
<1>6. em \in [Emitters -> Memory]
  BY DEF TypeOK
<1> HIDE DEF m
<1>7. Becomes(e, m.pc, m.claim, m.l2, m.lost)
  BY <1>1, <1>2, <1>6, MemoryOfOne
<1>8. Becomes(e, "deliver", em[e].claim, l2, em[e].lost)
  BY <1>1, <1>7, Zenon
<1> QED BY <1>4, <1>5, <1>8

\* A heartbeat that ends leaves everything else alone.
LEMMA LostBecomes ==
    ASSUME em \in [Emitters -> Memory], NEW e \in Emitters,
           em' = [em EXCEPT ![e].lost = TRUE]
    PROVE  Becomes(e, em[e].pc, em[e].claim, em[e].l2, TRUE)
<1> DEFINE m == [em[e] EXCEPT !.lost = TRUE]
<1>1. m \in Memory /\ m.at = em[e].at /\ m.pc = em[e].pc /\ m.claim = em[e].claim
      /\ m.l2 = em[e].l2 /\ m.lost = TRUE
  BY DEF Memory
<1>2. em' = [em EXCEPT ![e] = m]
  OBVIOUS
<1> HIDE DEF m
<1> QED BY <1>1, <1>2, MemoryOfOne

\* The entries that steps put in the memory of an instance.
LEMMA EntryUpdates ==
    ASSUME NEW n \in Entries, NEW k \in Claims \cup {None}
    PROVE  /\ [n EXCEPT !.marked = TRUE] \in Entries
           /\ [n EXCEPT !.marked = TRUE].res = n.res
           /\ [n EXCEPT !.res = None, !.l2 = FALSE] \in Entries
           /\ [n EXCEPT !.res = None, !.l2 = FALSE].marked = n.marked
           /\ [n EXCEPT !.res = k, !.l2 = TRUE] \in Entries
           /\ [n EXCEPT !.res = k, !.l2 = TRUE].marked = n.marked
           /\ [n EXCEPT !.res = k, !.l2 = TRUE].res = k
           /\ [res |-> None, l2 |-> FALSE, marked |-> TRUE] \in Entries
           /\ [res |-> None, l2 |-> FALSE, marked |-> FALSE] \in Entries
BY DEF Entries

\* What the type says of one emitter and of one instance.
LEMMA Fields ==
    ASSUME TypeOK
    PROVE  /\ \A e \in Emitters : em[e].at \in Instances /\ em[e].claim \in Claims \cup {None}
           /\ \A e \in Emitters : l1[em[e].at] \in Entries
           /\ \A i \in Instances : l1[i].res \in Claims \cup {None}
           /\ None \notin Claims /\ Delivered \notin Claims
BY TerminalDeliveryAssumption, FS_CardinalityType DEF TypeOK, Memory, Entries, Claims, None, Delivered
-----------------------------------------------------------------------------
(* The parts of the invariant                                              *)

\* The initial states satisfy the invariant.
LEMMA InitIInv == Init => IInv
<1> SUFFICES ASSUME Init PROVE IInv
  OBVIOUS
<1>a. l1 \in [Instances -> Entries]
  BY DEF Init, Entries
<1>b. \A e \in Emitters : em[e].pc = "idle" /\ em[e].claim = None /\ em[e].at \in Instances /\ em[e] \in Memory
  BY DEF Init, Memory
<1>c. em \in [Emitters -> Memory]
  BY <1>b DEF Init
<1>1. TypeOK
  <2>1. redis \in Claims \cup {None, Delivered} /\ sent \in Nat /\ faults \in 0..MaxFaults
    BY TerminalDeliveryAssumption DEF Init
  <2>2. \A i \in Instances : lock[i] = {}
    BY DEF Init
  <2> QED BY <1>a, <1>b, <1>c, <2>1, <2>2 DEF TypeOK
<1>2. LockOK
  BY <1>b DEF Init, LockOK, Reserving
<1>5. Accepted
  BY <1>b DEF Accepted
<1>6. MarkedIsAccepted
  BY <1>b DEF Init, MarkedIsAccepted, At, Delivered, None
<1>7. Unlost
  BY DEF Init, Unlost
<1>3. InHand = {}
  BY <1>b DEF InHand
<1>4. Budget
  BY <1>3, FS_EmptySet DEF Init, Budget, Spent, Slack
<1> QED BY <1>1, <1>2, <1>4, <1>5, <1>6, <1>7 DEF IInv


\* A step of one emitter that keeps, drops or freshly makes its claim, and the
\* lock of its instance with it, keeps the type and the locks.
LEMMA OneStepTypeOK ==
    ASSUME TypeOK, LockOK, NEW e \in Emitters, NEW pc, NEW k, Moves(e, pc, k),
           k \in {em[e].claim, None} \/ \A d \in Emitters : em[d].claim # k,
           lock' \in [Instances -> SUBSET Emitters],
           \A i \in Instances : i # em[e].at => lock'[i] = lock[i],
           IF pc \in Reserving THEN lock'[em[e].at] = {e} /\ k # None
                               ELSE lock'[em[e].at] = lock[em[e].at] \ {e},
           l1' \in [Instances -> Entries],
           redis' \in Claims \cup {None, Delivered}, sent' \in Nat, faults' \in 0..MaxFaults,
           pc = "confirmed" => redis' = Delivered,
           redis = Delivered => redis' = Delivered,
           pc \in Reserving => lock[em[e].at] \in {{}, {e}}
    PROVE  TypeOK' /\ LockOK'
<1>1. em' \in [Emitters -> Memory] /\ em[e].at \in Instances
  BY Fields DEF Moves
<1>2. \A i \in Instances : \A d \in lock'[i] : em'[d].at = i /\ em'[d].pc \in {"setnx", "get"}
  BY <1>1 DEF TypeOK, Moves, Reserving, LockOK
<1>3. \A c, d \in Emitters : em'[c].claim = em'[d].claim /\ c # d => em'[c].claim = None
  BY DEF TypeOK, Moves
<1>4. \A d \in Emitters : em'[d].pc \in Reserving => lock'[em'[d].at] = {d} /\ em'[d].claim # None
  <2> SUFFICES ASSUME NEW d \in Emitters, em'[d].pc \in Reserving
               PROVE  lock'[em'[d].at] = {d} /\ em'[d].claim # None
    OBVIOUS
  <2>1. CASE d = e
    BY <2>1 DEF Moves
  <2>2. CASE d # e
    <3>1. em'[d] = em[d] /\ lock[em[d].at] = {d} /\ em[d].claim # None /\ em[d].at \in Instances
      BY <2>2, Fields DEF Moves, LockOK
    <3>2. CASE em[d].at = em[e].at
      BY <2>2, <3>1, <3>2
    <3>3. CASE em[d].at # em[e].at
      BY <3>1, <3>3
    <3> QED BY <3>2, <3>3
  <2> QED BY <2>1, <2>2
<1>5. \A d \in Emitters : em'[d].pc = "confirmed" => redis' = Delivered
  BY DEF Moves, LockOK
<1> QED BY <1>1, <1>2, <1>3, <1>4, <1>5 DEF TypeOK, LockOK

\* Every step keeps the type and the locks.
LEMMA StepTypeOK ==
    ASSUME TypeOK, LockOK, Next
    PROVE  TypeOK' /\ LockOK'
<1>0. /\ em \in [Emitters -> Memory] /\ l1 \in [Instances -> Entries]
      /\ redis \in Claims \cup {None, Delivered} /\ sent \in Nat /\ faults \in 0..MaxFaults
      /\ lock \in [Instances -> SUBSET Emitters]
  BY DEF TypeOK, LockOK
<1>f. Fault => faults' \in 0..MaxFaults
  BY <1>0, TerminalDeliveryAssumption DEF Fault
<1>n. ASSUME NEW e \in Emitters
      PROVE  /\ em[e].pc \notin Reserving => lock[em[e].at] = lock[em[e].at] \ {e}
             /\ em[e].pc \in Reserving => lock[em[e].at] = {e}
             /\ em[e].at \in Instances /\ em[e].claim \in Claims \cup {None}
  BY Fields DEF TypeOK, LockOK, Reserving
<1>1. ASSUME NEW e \in Emitters, Reserve(e) PROVE TypeOK' /\ LockOK'
  <2>1. Fresh \in Claims /\ Fresh # None /\ \A d \in Emitters : em[d].claim # Fresh
    BY FreshIsFree, Fields DEF Used
  <2>2. CASE Stop(e) /\ UNCHANGED lock
    <3>1. Moves(e, "done", None)
      BY <1>0, <2>2, IdleBecomes DEF Becomes
    <3> QED BY <1>0, <1>n, <1>1, <2>2, <3>1, OneStepTypeOK DEF Reserve, At, Reserving
  <2>3. CASE /\ lock' = [lock EXCEPT ![em[e].at] = {e}]
             /\ em' = [em EXCEPT ![e].pc = "setnx", ![e].claim = Fresh]
    <3>1. Moves(e, "setnx", Fresh)
      BY <1>0, <2>1, <2>3, ClaimBecomes DEF Becomes
    <3> QED BY <1>0, <1>n, <1>1, <2>1, <2>3, <3>1, OneStepTypeOK DEF Reserve, At, Reserving
  <2> QED BY <1>1, <2>2, <2>3 DEF Reserve
<1>2. ASSUME NEW e \in Emitters, SetNx(e) PROVE TypeOK' /\ LockOK'
  <2>0. em[e].claim \in Claims /\ lock[em[e].at] = {e}
    BY <1>2, <1>n DEF SetNx, At, Reserving, LockOK
  <2>1. CASE redis # None /\ Go(e, "get") /\ UNCHANGED <<redis, l1, lock, faults>>
    <3>1. Moves(e, "get", em[e].claim)
      BY <1>0, <2>1, GoBecomes DEF Becomes
    <3> QED BY <1>0, <1>n, <1>2, <2>0, <2>1, <3>1, Fields, OneStepTypeOK DEF SetNx, Reserving
  <2>2. ASSUME NEW l2 \in BOOLEAN, Reserved(e, l2), redis' \in {redis, em[e].claim},
               redis = Delivered => redis' = Delivered, faults' \in 0..MaxFaults
        PROVE  TypeOK' /\ LockOK'
    <3>1. Moves(e, "deliver", em[e].claim) /\ l1' \in [Instances -> Entries]
      BY <1>0, <2>0, <2>2, ReservedBecomes DEF Becomes
    <3>2. /\ lock' \in [Instances -> SUBSET Emitters] /\ lock'[em[e].at] = {}
          /\ \A i \in Instances : i # em[e].at => lock'[i] = lock[i]
      BY <1>0, <2>0, <2>2, ReservedBecomes DEF Becomes
    <3> QED BY <1>0, <1>n, <1>2, <2>0, <2>2, <3>1, <3>2, OneStepTypeOK DEF SetNx, Reserving
  <2>3. CASE redis = None /\ redis' = em[e].claim /\ Reserved(e, TRUE) /\ UNCHANGED faults
    <3>1. redis' \in {redis, em[e].claim} /\ (redis = Delivered => redis' = Delivered)
          /\ faults' \in 0..MaxFaults
      BY <1>0, <2>3 DEF None, Delivered
    <3> QED BY <2>2, <2>3, <3>1
  <2>4. CASE Fails(IF redis = None THEN em[e].claim ELSE redis) /\ Reserved(e, FALSE)
    <3>1. redis' \in {redis, em[e].claim} /\ (redis = Delivered => redis' = Delivered)
          /\ faults' \in 0..MaxFaults
      BY <1>f, <2>4 DEF Fails, None, Delivered
    <3> QED BY <2>2, <2>4, <3>1
  <2> QED BY <1>2, <2>1, <2>3, <2>4 DEF SetNx
<1>3. ASSUME NEW e \in Emitters, Get(e) PROVE TypeOK' /\ LockOK'
  <2>1. l1' \in [Instances -> Entries]
    <3>1. [l1[em[e].at] EXCEPT !.marked = TRUE] \in Entries
      BY <1>0, <1>n, EntryUpdates
    <3> QED BY <1>0, <1>n, <1>3, <3>1 DEF Get
  <2>2. \/ Moves(e, "done", None)
        \/ Moves(e, "idle", None)
    BY <1>0, <1>3, IdleBecomes DEF Becomes, Get
  <2>3. /\ lock' \in [Instances -> SUBSET Emitters] /\ lock'[em[e].at] = lock[em[e].at] \ {e}
        /\ \A i \in Instances : i # em[e].at => lock'[i] = lock[i]
    BY <1>0, <1>n, <1>3 DEF Get, Unlock, At, Reserving
  <2> QED BY <1>0, <1>f, <1>3, <2>1, <2>2, <2>3, OneStepTypeOK DEF Get, Reserving
\* Past the reservation a step leaves the lock alone, and drops or keeps its claim.
<1>p. ASSUME NEW e \in Emitters, NEW pc, NEW k \in {em[e].claim, None}, Moves(e, pc, k), pc \notin Reserving, em[e].pc \notin Reserving,
             UNCHANGED lock, l1' \in [Instances -> Entries],
             redis' \in Claims \cup {None, Delivered}, sent' \in Nat, faults' \in 0..MaxFaults,
             pc = "confirmed" => redis' = Delivered,
             redis = Delivered => redis' = Delivered
      PROVE  TypeOK' /\ LockOK'
  BY <1>0, <1>n, <1>p, OneStepTypeOK
<1>4. ASSUME NEW e \in Emitters, Deliver(e) PROVE TypeOK' /\ LockOK'
  <2>1. \E pc \in {"confirm", "mark", "release"} : Moves(e, pc, em[e].claim)
    BY <1>0, <1>4, GoBecomes DEF Becomes, Deliver
  <2>2. /\ em[e].pc \notin Reserving /\ UNCHANGED <<redis, lock, l1>>
        /\ sent' \in Nat /\ faults' \in 0..MaxFaults
    BY <1>0, <1>f, <1>4 DEF Deliver, At, Reserving
  <2> QED BY <1>0, <1>p, <2>1, <2>2 DEF Reserving
<1>5. ASSUME NEW e \in Emitters, Confirm(e) PROVE TypeOK' /\ LockOK'
  <2>1. \/ Moves(e, "mark", em[e].claim)
        \/ Moves(e, "confirmed", em[e].claim) /\ redis' = Delivered
    BY <1>0, <1>5, GoBecomes DEF Becomes, Confirm
  <2> QED BY <1>0, <1>f, <1>5, <1>p, <2>1 DEF Confirm, At, Reserving, Fails
<1>6. ASSUME NEW e \in Emitters, Confirmed(e) PROVE TypeOK' /\ LockOK'
  <2>1. Moves(e, "done", None)
    BY <1>0, <1>6, IdleBecomes DEF Becomes, Confirmed
  <2>2. l1' \in [Instances -> Entries]
    BY <1>0, <1>n, <1>6, EntryUpdates DEF Confirmed
  <2> QED BY <1>0, <1>6, <1>p, <2>1, <2>2 DEF Confirmed, At, Reserving
<1>7. ASSUME NEW e \in Emitters, Mark(e) PROVE TypeOK' /\ LockOK'
  <2>1. Moves(e, "set", em[e].claim)
    BY <1>0, <1>7, GoBecomes DEF Becomes, Mark
  <2>2. l1' \in [Instances -> Entries]
    BY <1>0, <1>n, <1>7, EntryUpdates DEF Mark
  <2>3. /\ em[e].pc \notin Reserving /\ UNCHANGED <<redis, lock>>
        /\ sent' \in Nat /\ faults' \in 0..MaxFaults
    BY <1>0, <1>7 DEF Mark, At, Reserving
  <2> QED BY <1>0, <1>p, <2>1, <2>2, <2>3 DEF Reserving
<1>8. ASSUME NEW e \in Emitters, SetMarker(e) PROVE TypeOK' /\ LockOK'
  <2>1. Moves(e, "done", None)
    BY <1>0, <1>8, IdleBecomes DEF Becomes, SetMarker
  <2> QED BY <1>0, <1>f, <1>8, <1>p, <2>1 DEF SetMarker, At, Reserving, Fails
<1>9. ASSUME NEW e \in Emitters, Release(e) PROVE TypeOK' /\ LockOK'
  <2>1. \/ Moves(e, "delete", em[e].claim)
        \/ Moves(e, "idle", None)
    BY <1>0, <1>9, GoBecomes, IdleBecomes DEF Becomes, Release
  <2>2. l1' \in [Instances -> Entries]
    <3>1. [l1[em[e].at] EXCEPT !.res = None, !.l2 = FALSE] \in Entries
      BY <1>0, <1>n, EntryUpdates
    <3> QED BY <1>0, <1>n, <1>9, <3>1 DEF Release
  <2>3. /\ em[e].pc \notin Reserving /\ UNCHANGED <<redis, lock>>
        /\ sent' \in Nat /\ faults' \in 0..MaxFaults
    BY <1>0, <1>9 DEF Release, At, Reserving
  <2> QED BY <1>0, <1>p, <2>1, <2>2, <2>3 DEF Reserving
<1>10. ASSUME NEW e \in Emitters, Delete(e) PROVE TypeOK' /\ LockOK'
  <2>1. Moves(e, "idle", None)
    BY <1>0, <1>10, IdleBecomes DEF Becomes, Delete
  <2>2. redis = Delivered => redis # em[e].claim
    BY <1>n, Fields DEF None, Delivered
  <2> QED BY <1>0, <1>f, <1>10, <1>p, <2>1, <2>2 DEF Delete, At, Reserving, Fails
<1>11. ASSUME NEW e \in Emitters, Renew(e) PROVE TypeOK' /\ LockOK'
  <2>1. l1' \in [Instances -> Entries]
    BY <1>0, <1>n, <1>11, EntryUpdates DEF Renew
  <2> QED BY <2>1, <1>11 DEF Renew, TypeOK, LockOK
<1>12. ASSUME NEW e \in Emitters, RenewFails(e) PROVE TypeOK' /\ LockOK'
  <2>1. Moves(e, em[e].pc, em[e].claim)
    BY <1>0, <1>12, LostBecomes DEF Becomes, RenewFails
  <2> QED BY <1>0, <1>f, <1>12, <1>p, <2>1 DEF RenewFails, At, Reserving
<1>13. ASSUME NEW i \in Instances, Lapse(i) PROVE TypeOK' /\ LockOK'
  <2>1. l1' \in [Instances -> Entries]
    BY <1>0, <1>13, EntryUpdates DEF Lapse
  <2> QED BY <2>1, <1>f, <1>13 DEF Lapse, TypeOK, LockOK
<1>14. ASSUME NEW i \in Instances, Crash(i) PROVE TypeOK' /\ LockOK'
  <2>1. l1' \in [Instances -> Entries]
    BY <1>0, <1>14, EntryUpdates DEF Crash
  <2>2. \A e \in Emitters : Idle(e) \in Memory /\ Idle(e).pc = "idle" /\ Idle(e).at = em[e].at
                            /\ Idle(e).claim = None
    BY <1>0 DEF Idle, Memory
  <2>3. /\ em' \in [Emitters -> Memory]
        /\ \A e \in Emitters : em'[e].at = em[e].at
        /\ \A e \in Emitters : em'[e] = em[e] \/ (em'[e].pc = "idle" /\ em'[e].claim = None)
        /\ \A e \in Emitters : em[e].at = i => em'[e].pc \in {"idle", "done"}
        /\ \A e \in Emitters : em[e].at # i => em'[e] = em[e]
    BY <1>0, <1>14, <2>2 DEF Crash, At
  <2>4. \A c, d \in Emitters : em'[c].claim = em'[d].claim /\ c # d => em'[c].claim = None
    BY <2>3 DEF TypeOK
  <2>5. lock' \in [Instances -> SUBSET Emitters] /\ lock'[i] = {} /\ \A j \in Instances : j # i => lock'[j] = lock[j]
    BY <1>0, <1>14 DEF Crash
  <2>6. \A j \in Instances : \A e \in lock'[j] : em'[e].at = j /\ em'[e].pc \in {"setnx", "get"}
    BY <2>3, <2>5 DEF TypeOK
  <2>7. \A e \in Emitters : em'[e].pc \in Reserving => lock'[em'[e].at] = {e} /\ em'[e].claim # None
    BY <2>3, <2>5, <1>n DEF LockOK, Reserving
  <2>8. \A e \in Emitters : em'[e].pc = "confirmed" => redis' = Delivered
    BY <1>14, <2>3 DEF LockOK, Crash
  <2> QED BY <1>0, <1>f, <1>14, <2>1, <2>3, <2>4, <2>5, <2>6, <2>7, <2>8 DEF TypeOK, LockOK, Crash
<1>15. ASSUME LapseInRedis PROVE TypeOK' /\ LockOK'
  BY <1>0, <1>f, <1>15, Fields DEF LapseInRedis, TypeOK, LockOK
<1> QED BY <1>1, <1>2, <1>3, <1>4, <1>5, <1>6, <1>7, <1>8, <1>9, <1>10, <1>11, <1>12, <1>13, <1>14, <1>15
        DEF Next, Step

\* Every step keeps what a marker and a program counter say of the frame.
LEMMA StepAccepted ==
    ASSUME TypeOK, LockOK, MarkedIsAccepted, Accepted, Next
    PROVE  MarkedIsAccepted' /\ Accepted'
<1> DEFINE Past == {"confirm", "confirmed", "mark", "set", "done"}
           All  == /\ redis = Delivered => sent > 0
                   /\ \A i \in Instances : l1[i].marked = TRUE => sent > 0
                   /\ \A e \in Emitters : em[e].pc \in Past => sent > 0
<1>0. /\ em \in [Emitters -> Memory] /\ l1 \in [Instances -> Entries]
      /\ sent \in Nat /\ All
      /\ \A e \in Emitters : em[e].at \in Instances /\ em[e].claim \in Claims \cup {None}
      /\ \A e \in Emitters : em[e].claim # Delivered
      /\ lock \in [Instances -> SUBSET Emitters]
  BY Fields DEF TypeOK, LockOK, MarkedIsAccepted, Accepted, At, None, Delivered
\* A step that sends nothing and puts up no marker of its own.
<1>q. ASSUME NEW e \in Emitters, NEW pc, NEW k, Moves(e, pc, k), sent' \in Nat, sent' >= sent,
             pc \in Past => sent' > 0,
             redis' \in {redis, None, em[e].claim} \/ sent' > 0,
             (\A i \in Instances : l1'[i].marked = TRUE => l1[i].marked = TRUE) \/ sent' > 0
      PROVE  All'
  BY <1>0, <1>q DEF Moves, None, Delivered
<1>1. ASSUME NEW e \in Emitters, Reserve(e) PROVE All'
  <2>1. Fresh \in Claims
    BY FreshIsFree
  <2>2. \/ Moves(e, "setnx", Fresh)
        \/ Moves(e, "done", None) /\ l1[em[e].at].marked
    BY <1>0, <1>1, <2>1, ClaimBecomes, IdleBecomes DEF Becomes, Reserve, Here
  <2>3. UNCHANGED <<l1, redis, sent>> /\ sent' \in Nat /\ sent' >= sent
    BY <1>0, <1>1 DEF Reserve
  <2>4. l1[em[e].at].marked => sent > 0
    BY <1>0
  <2>5. CASE Moves(e, "setnx", Fresh)
    BY <1>q, <2>3, <2>5
  <2>6. CASE Moves(e, "done", None) /\ l1[em[e].at].marked
    BY <1>q, <2>3, <2>4, <2>6
  <2> QED BY <2>2, <2>5, <2>6
<1>2. ASSUME NEW e \in Emitters, SetNx(e) PROVE All'
  <2>0. em[e].claim \in Claims
    BY <1>0, <1>2 DEF LockOK, SetNx, At, Reserving
  <2>1. CASE Go(e, "get") /\ UNCHANGED <<redis, l1, lock, faults>>
    <3>1. Moves(e, "get", em[e].claim)
      BY <1>0, <2>1, GoBecomes DEF Becomes
    <3>2. UNCHANGED <<l1, redis, sent>> /\ sent' \in Nat /\ sent' >= sent
      BY <1>0, <1>2, <2>1 DEF SetNx
    <3> QED BY <1>q, <3>1, <3>2
  <2>2. ASSUME NEW l2 \in BOOLEAN, Reserved(e, l2), redis' \in {redis, em[e].claim}
        PROVE  All'
    <3>1. /\ Moves(e, "deliver", em[e].claim)
          /\ \A i \in Instances : l1'[i].marked = l1[i].marked
      BY <1>0, <2>0, <2>2, ReservedBecomes DEF Becomes
    <3>2. UNCHANGED sent /\ sent' \in Nat /\ sent' >= sent
      BY <1>0, <1>2 DEF SetNx
    <3> QED BY <1>q, <2>2, <3>1, <3>2
  <2>3. CASE redis' = em[e].claim /\ Reserved(e, TRUE)
    <3>1. redis' \in {redis, em[e].claim}
      BY <2>3
    <3> QED BY <2>2, <2>3, <3>1
  <2>4. CASE Fails(IF redis = None THEN em[e].claim ELSE redis) /\ Reserved(e, FALSE)
    <3>1. redis' \in {redis, em[e].claim}
      BY <2>4 DEF Fails
    <3> QED BY <2>2, <2>4, <3>1
  <2> QED BY <1>2, <2>1, <2>3, <2>4 DEF SetNx
<1>3. ASSUME NEW e \in Emitters, Get(e) PROVE All'
  <2>1. \/ Moves(e, "done", None) /\ redis = Delivered
        \/ Moves(e, "idle", None) /\ UNCHANGED l1
    BY <1>0, <1>3, IdleBecomes DEF Becomes, Get
  <2>2. UNCHANGED <<redis, sent>> /\ sent' \in Nat /\ sent' >= sent /\ (redis = Delivered => sent > 0)
    BY <1>0, <1>3 DEF Get
  <2>3. CASE Moves(e, "done", None) /\ redis = Delivered
    BY <1>q, <2>2, <2>3
  <2>4. CASE Moves(e, "idle", None) /\ UNCHANGED l1
    BY <1>q, <2>2, <2>4
  <2> QED BY <2>1, <2>3, <2>4
<1>4. ASSUME NEW e \in Emitters, Deliver(e) PROVE All'
  <2>1. \/ Moves(e, "release", em[e].claim)
        \/ \E pc \in {"confirm", "mark"} : Moves(e, pc, em[e].claim) /\ sent' = sent + 1
    BY <1>0, <1>4, GoBecomes DEF Becomes, Deliver
  <2>2. UNCHANGED <<redis, l1>> /\ sent' \in Nat /\ sent' >= sent /\ (sent' = sent + 1 => sent' > 0)
    BY <1>0, <1>4 DEF Deliver
  <2>3. CASE Moves(e, "release", em[e].claim)
    BY <1>q, <2>2, <2>3
  <2>4. CASE \E pc \in {"confirm", "mark"} : Moves(e, pc, em[e].claim) /\ sent' = sent + 1
    BY <1>q, <2>2, <2>4
  <2> QED BY <2>1, <2>3, <2>4
<1>5. ASSUME NEW e \in Emitters, Confirm(e) \/ Confirmed(e) \/ Mark(e) \/ SetMarker(e) PROVE All'
  <2>1. sent > 0 /\ sent' = sent
    BY <1>0, <1>5 DEF Confirm, Confirmed, Mark, SetMarker, At
  <2> QED BY <2>1
<1>6. ASSUME NEW e \in Emitters, Release(e) PROVE All'
  <2>1. Moves(e, "delete", em[e].claim) \/ Moves(e, "idle", None)
    BY <1>0, <1>6, GoBecomes, IdleBecomes DEF Becomes, Release
  <2>2. \A i \in Instances : l1'[i].marked = l1[i].marked
    <3>1. [l1[em[e].at] EXCEPT !.res = None, !.l2 = FALSE].marked = l1[em[e].at].marked
      BY <1>0, EntryUpdates
    <3> QED BY <1>0, <1>6, <3>1 DEF Release
  <2>3. UNCHANGED <<redis, sent>> /\ sent' \in Nat /\ sent' >= sent
    BY <1>0, <1>6 DEF Release
  <2> QED BY <1>q, <2>1, <2>2, <2>3
<1>7. ASSUME NEW e \in Emitters, Delete(e) PROVE All'
  <2>1. Moves(e, "idle", None)
    BY <1>0, <1>7, IdleBecomes DEF Becomes, Delete
  <2>2. redis' \in {redis, None}
    BY <1>7 DEF Delete, Fails
  <2>3. UNCHANGED <<l1, sent>> /\ sent' \in Nat /\ sent' >= sent
    BY <1>0, <1>7 DEF Delete
  <2> QED BY <1>q, <2>1, <2>2, <2>3
<1>8. ASSUME NEW e \in Emitters, Renew(e) PROVE All'
  <2>1. \A i \in Instances : l1'[i].marked = l1[i].marked
    <3>1. [l1[em[e].at] EXCEPT !.res = em[e].claim, !.l2 = TRUE].marked = l1[em[e].at].marked
      BY <1>0, EntryUpdates
    <3> QED BY <1>0, <1>8, <3>1 DEF Renew
  <2> QED BY <1>0, <1>8, <2>1 DEF Renew
<1>9. ASSUME NEW e \in Emitters, RenewFails(e) PROVE All'
  <2>1. Moves(e, em[e].pc, em[e].claim)
    BY <1>0, <1>9, LostBecomes DEF Becomes, RenewFails
  <2> QED BY <1>0, <1>9, <1>q, <2>1 DEF RenewFails
<1>10. ASSUME NEW i \in Instances, Lapse(i) PROVE All'
  <2>1. \A j \in Instances : l1'[j].marked = l1[j].marked
    <3>1. [l1[i] EXCEPT !.res = None, !.l2 = FALSE].marked = l1[i].marked
      BY <1>0, EntryUpdates
    <3> QED BY <1>0, <1>10, <3>1 DEF Lapse
  <2> QED BY <1>0, <1>10, <2>1 DEF Lapse
<1>11. ASSUME NEW i \in Instances, Crash(i) PROVE All'
  <2>1. \A e \in Emitters : em'[e] = em[e] \/ em'[e].pc = "idle"
    BY <1>0, <1>11 DEF Crash, Idle, Memory
  <2>2. \A j \in Instances : l1'[j].marked = TRUE => l1[j].marked = TRUE
    BY <1>0, <1>11 DEF Crash
  <2> QED BY <1>0, <1>11, <2>1, <2>2 DEF Crash
<1>12. ASSUME LapseInRedis PROVE All'
  BY <1>0, <1>12 DEF LapseInRedis, None, Delivered
<1>13. All'
  BY <1>1, <1>2, <1>3, <1>4, <1>5, <1>6, <1>7, <1>8, <1>9, <1>10, <1>11, <1>12 DEF Next, Step
<1>14. l1' \in [Instances -> Entries]
  BY StepTypeOK DEF TypeOK
<1>15. \A i \in Instances : l1'[i].marked \in BOOLEAN
  BY <1>14 DEF Entries
<1> QED BY <1>13, <1>15 DEF MarkedIsAccepted, Accepted, At

\* Every step keeps the heartbeat of those that have none.
LEMMA StepUnlost ==
    ASSUME TypeOK, LockOK, Unlost, Next
    PROVE  Unlost'
<1>0. /\ em \in [Emitters -> Memory] /\ lock \in [Instances -> SUBSET Emitters]
      /\ \A e \in Emitters : em[e].at \in Instances
  BY Fields DEF TypeOK, LockOK
<1> DEFINE Before == {"idle", "setnx", "get"}
<1>q. ASSUME NEW e \in Emitters, NEW pc, NEW k, Moves(e, pc, k),
             pc \in Before => em'[e].lost = FALSE
      PROVE  Unlost'
  BY <1>q DEF Unlost, Moves
<1>1. ASSUME NEW e \in Emitters, Reserve(e) PROVE Unlost'
  <2>1. Fresh \in Claims
    BY FreshIsFree
  <2>2. CASE Stop(e)
    BY <1>0, <1>q, <2>2, IdleBecomes DEF Becomes
  <2>3. CASE em' = [em EXCEPT ![e].pc = "setnx", ![e].claim = Fresh]
    <3>1. Moves(e, "setnx", Fresh) /\ em'[e].lost = em[e].lost
      BY <1>0, <2>1, <2>3, ClaimBecomes DEF Becomes
    <3>2. em[e].lost = FALSE
      BY <1>1 DEF Unlost, Reserve, At
    <3> QED BY <1>q, <3>1, <3>2
  <2> QED BY <1>1, <2>2, <2>3 DEF Reserve
<1>2. ASSUME NEW e \in Emitters, SetNx(e) PROVE Unlost'
  <2>0. em[e].claim \in Claims
    BY <1>2, Fields DEF LockOK, SetNx, At, Reserving
  <2>1. CASE Go(e, "get")
    <3>1. Moves(e, "get", em[e].claim) /\ em'[e].lost = em[e].lost
      BY <1>0, <2>1, GoBecomes DEF Becomes
    <3>2. em[e].lost = FALSE
      BY <1>2 DEF Unlost, SetNx, At
    <3> QED BY <1>q, <3>1, <3>2
  <2>2. ASSUME NEW l2 \in BOOLEAN, Reserved(e, l2) PROVE Unlost'
    <3>1. Moves(e, "deliver", em[e].claim)
      BY <1>0, <2>0, <2>2, ReservedBecomes DEF Becomes
    <3> QED BY <1>q, <3>1
  <2> QED BY <1>2, <2>1, <2>2 DEF SetNx
<1>3. ASSUME NEW e \in Emitters,
             \/ Get(e) \/ Confirmed(e) \/ SetMarker(e) \/ Delete(e) \/ Release(e)
      PROVE  Unlost'
  <2>1. \/ Moves(e, "done", None) \/ Moves(e, "delete", em[e].claim)
        \/ Moves(e, "idle", None) /\ em'[e].lost = FALSE
    BY <1>0, <1>3, IdleBecomes, GoBecomes DEF Becomes, Get, Confirmed, SetMarker, Delete, Release
  <2> QED BY <1>q, <2>1
<1>4. ASSUME NEW e \in Emitters, Deliver(e) \/ Confirm(e) \/ Mark(e) PROVE Unlost'
  <2>1. \E pc \in {"confirm", "confirmed", "mark", "set", "release"} : Moves(e, pc, em[e].claim)
    BY <1>0, <1>4, GoBecomes DEF Becomes, Deliver, Confirm, Mark
  <2> QED BY <1>q, <2>1
<1>5. ASSUME NEW e \in Emitters, RenewFails(e) PROVE Unlost'
  <2>1. Moves(e, "deliver", em[e].claim)
    BY <1>0, <1>5, LostBecomes DEF Becomes, RenewFails, At
  <2> QED BY <1>q, <2>1
<1>6. ASSUME NEW i \in Instances, Crash(i) PROVE Unlost'
  <2>1. \A e \in Emitters : Idle(e).lost = FALSE
    BY <1>0 DEF Idle, Memory
  <2>2. \A e \in Emitters : em'[e] = em[e] \/ em'[e] = Idle(e)
    BY <1>6 DEF Crash
  <2> QED BY <2>1, <2>2 DEF Unlost
<1>7. ASSUME UNCHANGED em PROVE Unlost'
  BY <1>7 DEF Unlost
<1> QED BY <1>1, <1>2, <1>3, <1>4, <1>5, <1>6, <1>7 DEF Next, Step, Renew, Lapse, LapseInRedis
-----------------------------------------------------------------------------
(* The budget                                                              *)

\* The frames in hand are finitely many.
LEMMA InHandFinite == IsFiniteSet(InHand) /\ Cardinality(InHand) \in Nat
BY FS_Subset, FS_CardinalityType, TerminalDeliveryAssumption DEF InHand

\* How a step of one emitter changes the number of frames in hand.
LEMMA InHandMoves ==
    ASSUME NEW e \in Emitters, NEW pc, NEW k, Moves(e, pc, k)
    PROVE  /\ Cardinality(InHand') \in Nat
           /\ (pc = "deliver" <=> em[e].pc = "deliver")
                 => Cardinality(InHand') = Cardinality(InHand)
           /\ pc = "deliver" /\ em[e].pc # "deliver"
                 => Cardinality(InHand') = Cardinality(InHand) + 1
           /\ pc # "deliver" /\ em[e].pc = "deliver"
                 => Cardinality(InHand') = Cardinality(InHand) - 1
<1>1. CASE pc = "deliver" <=> em[e].pc = "deliver"
  <2>1. InHand' = InHand
    BY <1>1 DEF InHand, Moves
  <2> QED BY <1>1, <2>1, InHandFinite
<1>2. CASE pc = "deliver" /\ em[e].pc # "deliver"
  <2>1. InHand' = InHand \cup {e} /\ e \notin InHand
    BY <1>2 DEF InHand, Moves
  <2> QED BY <1>2, <2>1, InHandFinite, FS_AddElement
<1>3. CASE pc # "deliver" /\ em[e].pc = "deliver"
  <2>1. InHand' = InHand \ {e} /\ e \in InHand
    BY <1>3 DEF InHand, Moves
  <2>2. /\ IsFiniteSet(InHand \ {e}) /\ Cardinality(InHand \ {e}) = Cardinality(InHand) - 1
    BY <2>1, InHandFinite, FS_RemoveElement
  <2> QED BY <1>3, <2>1, <2>2, FS_CardinalityType
<1> QED BY <1>1, <1>2, <1>3

\* What is added to the deliveries is added to the disturbances.
LEMMA PaidFor ==
    ASSUME NEW s \in Nat, NEW t \in Nat, NEW f \in Nat, NEW g \in Nat, s <= 1 + f,
           (t <= s /\ g \in {f, f + 1}) \/ (t = s + 1 /\ g = f + 1)
    PROVE  t <= 1 + g /\ (s <= f => t <= g)
OBVIOUS

\* The budget survives a step that pays for what it adds, and gives up what
\* guards the key only against the marker or a disturbance.
LEMMA BudgetKept ==
    ASSUME TypeOK, Budget, sent' \in Nat, faults' \in Nat, Cardinality(InHand') \in Nat,
           \/ Spent' <= Spent /\ faults' \in {faults, faults + 1}
           \/ Spent' = Spent + 1 /\ faults' = faults + 1,
           redis = Delivered => redis' = Delivered,
           \A d \in Emitters : Guards(d) =>
               \/ Guards(d)' \/ redis' = Delivered
               \/ Spent' <= Spent /\ faults' = faults + 1
    PROVE  Budget'
<1>1. sent \in Nat /\ faults \in Nat /\ Cardinality(InHand) \in Nat
  BY InHandFinite, TerminalDeliveryAssumption DEF TypeOK
<1>2. Spent \in Nat /\ Spent' \in Nat
  BY <1>1 DEF Spent
<1>a. Spent <= 1 + faults
  BY DEF Budget
<1>3. Spent' <= 1 + faults' /\ (Spent <= faults => Spent' <= faults')
  BY <1>1, <1>2, <1>a, PaidFor
<1>4. CASE Slack
  BY <1>3, <1>4 DEF Budget, Slack
<1>5. CASE redis = Delivered
  BY <1>3, <1>5 DEF Budget
<1>6. ASSUME NEW d \in Emitters, Guards(d) PROVE Budget'
  <2>1. CASE Guards(d)'
    BY <1>3, <2>1 DEF Budget
  <2>2. CASE redis' = Delivered
    BY <1>3, <2>2 DEF Budget
  <2>3. CASE Spent' <= Spent /\ faults' = faults + 1
    <3>1. Spent <= 1 + faults
      BY DEF Budget
    <3>2. Spent' <= faults'
      BY <1>1, <1>2, <2>3, <3>1
    <3> QED BY <1>3, <3>2 DEF Budget, Slack
  <2> QED BY <1>6, <2>1, <2>2, <2>3
<1> QED BY <1>4, <1>5, <1>6 DEF Budget

\* A guard holds while its emitter, its entry, its lock and the key stay.
LEMMA GuardStays ==
    ASSUME NEW d \in Emitters, Guards(d), em'[d] = em[d], redis' = redis,
           em[d].pc = "deliver" =>
               l1'[em[d].at].res = l1[em[d].at].res /\ lock'[em[d].at] = {}
    PROVE  Guards(d)'
BY DEF Guards, Owns, Here

\* Every step keeps the budget.
LEMMA StepBudget ==
    ASSUME TypeOK, LockOK, Unlost, Budget, Next
    PROVE  Budget'
<1>0. /\ em \in [Emitters -> Memory] /\ l1 \in [Instances -> Entries]
      /\ lock \in [Instances -> SUBSET Emitters]
      /\ \A e \in Emitters : em[e].at \in Instances /\ em[e].claim \in Claims \cup {None}
  BY Fields DEF TypeOK, LockOK
<1>1. /\ sent \in Nat /\ faults \in Nat /\ Cardinality(InHand) \in Nat
      /\ sent' \in Nat /\ faults' \in Nat
  BY StepTypeOK, InHandFinite, TerminalDeliveryAssumption DEF TypeOK
<1>2. redis = Delivered => redis' = Delivered
  <2>1. \A e \in Emitters : redis = Delivered => redis # em[e].claim
    BY <1>0, Fields DEF None, Delivered
  <2>2. ASSUME NEW e \in Emitters, SetNx(e) \/ Confirm(e), redis = Delivered PROVE redis' = Delivered
    <3>1. redis # None /\ redis # em[e].claim
      BY <2>1, <2>2 DEF None, Delivered
    <3> QED BY <2>2, <3>1 DEF SetNx, Confirm, Fails
  <2>3. ASSUME NEW e \in Emitters, Delete(e) \/ SetMarker(e), redis = Delivered PROVE redis' = Delivered
    BY <2>1, <2>3 DEF Delete, SetMarker, Fails
  <2>4. ASSUME LapseInRedis PROVE redis # Delivered
    BY <2>4, Fields DEF LapseInRedis
  <2> QED BY <2>2, <2>3, <2>4 DEF Next, Step, Reserve, Get, Deliver, Confirmed, Mark, Release,
                                  Renew, RenewFails, Lapse, Crash
\* Two emitters that guard, or one that guards and one that holds the same claim, are one.
<1>3. ASSUME NEW d \in Emitters, NEW e \in Emitters, Guards(d), em[e].claim = em[d].claim
      PROVE  d = e
  BY <1>3 DEF Guards, TypeOK
\* A step of one emitter that takes nothing in hand.
<1>q. ASSUME NEW e \in Emitters, NEW pc, NEW k, Moves(e, pc, k),
             pc # "deliver" \/ em[e].pc = "deliver",
             sent' = sent \/ (sent' = sent + 1 /\ em[e].pc = "deliver" /\ pc # "deliver"),
             \/ faults' = faults + 1 
             \/ faults' = faults /\ \A d \in Emitters : Guards(d) => Guards(d)' \/ redis' = Delivered
      PROVE  Budget'
  <2>1. Cardinality(InHand') \in Nat /\ Spent' <= Spent
    BY <1>1, <1>q, InHandMoves DEF Spent
  <2>2. Spent \in Nat /\ Spent' \in Nat
    BY <1>1, <2>1 DEF Spent
  <2>3. faults' \in {faults, faults + 1}
    BY <1>q
  <2>4. \A d \in Emitters : Guards(d) =>
               \/ Guards(d)' \/ redis' = Delivered
               \/ Spent' <= Spent /\ faults' = faults + 1
    BY <1>q, <2>1
  <2> QED BY <1>1, <1>2, <2>1, <2>3, <2>4, BudgetKept
<1>4. ASSUME NEW e \in Emitters, Reserve(e) PROVE Budget'
  <2>1. Fresh \in Claims
    BY FreshIsFree
  <2>2. Moves(e, "setnx", Fresh) \/ Moves(e, "done", None)
    BY <1>0, <1>4, <2>1, ClaimBecomes, IdleBecomes DEF Becomes, Reserve
  <2>3. ASSUME NEW d \in Emitters, Guards(d) PROVE Guards(d)'
    <3>1. d # e
      BY <1>4, <2>3 DEF Guards, Reserve, At
    <3>2. em'[d] = em[d]
      BY <2>2, <3>1 DEF Moves
    <3>3. ASSUME em[d].pc = "deliver" PROVE lock'[em[d].at] = {}
      <4>1. lock[em[d].at] = {} /\ l1[em[d].at].res # None
        BY <2>3, <3>3 DEF Guards, Owns, Here
      <4> QED BY <1>0, <1>4, <4>1 DEF Reserve, Here
    <3> QED BY <1>4, <2>3, <3>2, <3>3, GuardStays DEF Reserve
  <2> QED BY <1>4, <1>q, <2>2, <2>3 DEF Reserve
<1>5. ASSUME NEW e \in Emitters, SetNx(e) PROVE Budget'
  <2>0. /\ em[e].claim \in Claims /\ lock[em[e].at] = {e} /\ em[e].lost = FALSE
        /\ em[e].pc = "setnx" /\ sent' = sent
    BY <1>0, <1>5 DEF LockOK, SetNx, At, Reserving, Unlost
  <2>1. ASSUME NEW d \in Emitters, Guards(d)
        PROVE  d # e /\ (em[d].pc = "deliver" => em[d].at # em[e].at)
    BY <2>0, <2>1 DEF Guards
  <2>2. CASE Go(e, "get") /\ UNCHANGED <<redis, l1, lock, faults>>
    <3>1. Moves(e, "get", em[e].claim)
      BY <1>0, <2>2, GoBecomes DEF Becomes
    <3>2. ASSUME NEW d \in Emitters, Guards(d) PROVE Guards(d)'
      <4>1. em'[d] = em[d]
        BY <2>1, <3>1, <3>2 DEF Moves
      <4>2. em[d].pc = "deliver" => lock[em[d].at] = {}
        BY <3>2 DEF Guards
      <4> QED BY <2>2, <3>2, <4>1, <4>2, GuardStays
    <3> QED BY <1>q, <2>0, <2>2, <3>1, <3>2
  <2>3. CASE redis = None /\ redis' = em[e].claim /\ Reserved(e, TRUE) /\ UNCHANGED faults
    <3>1. /\ Moves(e, "deliver", em[e].claim) /\ em'[e].l2 = TRUE /\ em'[e].lost = em[e].lost
          /\ l1'[em[e].at].res = em[e].claim /\ lock'[em[e].at] = {}
      BY <1>0, <2>0, <2>3, ReservedBecomes DEF Becomes
    <3>2. Cardinality(InHand') = Cardinality(InHand) + 1 /\ Spent' = Spent + 1
      BY <1>1, <2>0, <3>1, InHandMoves DEF Spent
    <3>3. Slack
      BY <2>3 DEF Budget, Guards, None, Delivered
    <3>4. Spent' <= 1 + faults'
      BY <1>1, <2>3, <3>2, <3>3 DEF Slack, Spent
    <3>5. Guards(e)'
      BY <2>0, <2>3, <3>1, Fields DEF Guards, Owns, Here, Moves
    <3> QED BY <3>4, <3>5 DEF Budget
  <2>4. CASE Fails(IF redis = None THEN em[e].claim ELSE redis) /\ Reserved(e, FALSE)
    <3>1. /\ Moves(e, "deliver", em[e].claim)
          /\ \A i \in Instances : i # em[e].at => l1'[i] = l1[i] /\ lock'[i] = lock[i]
      BY <1>0, <2>0, <2>4, ReservedBecomes DEF Becomes
    <3>2. /\ Cardinality(InHand') \in Nat /\ Cardinality(InHand') = Cardinality(InHand) + 1
          /\ Spent' = Spent + 1
      BY <1>1, <2>0, <3>1, InHandMoves DEF Spent
    <3>3. faults' = faults + 1 /\ Spent \in Nat
      BY <1>1, <2>4 DEF Fails, Fault, Spent
    <3>4. ASSUME NEW d \in Emitters, Guards(d) PROVE Guards(d)'
      <4>1. em'[d] = em[d]
        BY <2>1, <3>1, <3>4 DEF Moves
      <4>2. redis # None /\ (em[d].pc = "deliver" => lock[em[d].at] = {})
        BY <3>4 DEF Guards
      <4>3. redis' = redis
        BY <2>4, <4>2 DEF Fails
      <4> QED BY <1>0, <2>1, <3>1, <3>4, <4>1, <4>2, <4>3, GuardStays
    <3> QED BY <1>1, <1>2, <3>2, <3>3, <3>4, BudgetKept
  <2> QED BY <1>5, <2>2, <2>3, <2>4 DEF SetNx
<1>6. ASSUME NEW e \in Emitters, Get(e) PROVE Budget'
  <2>1. Moves(e, "done", None) \/ Moves(e, "idle", None)
    BY <1>0, <1>6, IdleBecomes DEF Becomes, Get
  <2>2. \A i \in Instances : l1'[i].res = l1[i].res /\ (lock[i] = {} => lock'[i] = {})
    <3>1. [l1[em[e].at] EXCEPT !.marked = TRUE].res = l1[em[e].at].res
      BY <1>0, EntryUpdates
    <3>2. \A i \in Instances : l1'[i].res = l1[i].res
      BY <1>0, <1>6, <3>1 DEF Get
    <3>3. \A i \in Instances : lock[i] = {} => lock'[i] = {}
      BY <1>0, <1>6 DEF Get, Unlock
    <3> QED BY <3>2, <3>3
  <2>3. ASSUME NEW d \in Emitters, Guards(d) PROVE Guards(d)'
    <3>1. d # e /\ (em[d].pc = "deliver" => lock[em[d].at] = {})
      BY <1>6, <2>3 DEF Guards, Get, At
    <3>2. em'[d] = em[d]
      BY <2>1, <3>1 DEF Moves
    <3> QED BY <1>0, <1>6, <2>2, <2>3, <3>1, <3>2, GuardStays DEF Get
  <2>4. sent' = sent /\ faults' \in {faults, faults + 1}
    BY <1>6 DEF Get, Fault
  <2> QED BY <1>q, <2>1, <2>3, <2>4
<1>7. ASSUME NEW e \in Emitters, Deliver(e) PROVE Budget'
  <2>1. CASE Fault /\ Go(e, "release") /\ UNCHANGED sent
    <3>1. Moves(e, "release", em[e].claim)
      BY <1>0, <2>1, GoBecomes DEF Becomes
    <3> QED BY <1>q, <2>1, <3>1 DEF Fault
  <2>2. CASE /\ sent' = sent + 1 /\ UNCHANGED faults
             /\ Go(e, IF em[e].l2 /\ ~em[e].lost THEN "confirm" ELSE "mark")
    <3> DEFINE pc == IF em[e].l2 /\ ~em[e].lost THEN "confirm" ELSE "mark"
    <3>1. Moves(e, pc, em[e].claim) /\ em'[e].l2 = em[e].l2 /\ em'[e].lost = em[e].lost
      BY <1>0, <2>2, GoBecomes DEF Becomes
    <3>2. ASSUME NEW d \in Emitters, Guards(d) PROVE Guards(d)'
      <4>1. CASE d = e
        BY <1>7, <3>1, <3>2, <4>1 DEF Guards, Moves, Deliver
      <4>2. CASE d # e
        <5>1. em'[d] = em[d]
          BY <3>1, <4>2 DEF Moves
        <5> QED BY <1>7, <3>2, <5>1, GuardStays DEF Guards, Deliver
      <4> QED BY <4>1, <4>2
    <3>3. pc # "deliver"
      OBVIOUS
    <3> HIDE DEF pc
    <3> QED BY <1>7, <1>q, <2>2, <3>1, <3>2, <3>3 DEF Deliver, At
  <2> QED BY <1>7, <2>1, <2>2 DEF Deliver
<1>8. ASSUME NEW e \in Emitters, Confirm(e) PROVE Budget'
  <2>1. /\ Moves(e, "mark", em[e].claim) \/ Moves(e, "confirmed", em[e].claim)
        /\ em'[e].l2 = em[e].l2 /\ em'[e].lost = em[e].lost
    BY <1>0, <1>8, GoBecomes DEF Becomes, Confirm
  <2>2. \/ faults' = faults + 1
        \/ faults' = faults /\ redis' = Delivered
        \/ faults' = faults /\ redis' = redis /\ Moves(e, "mark", em[e].claim)
    BY <1>0, <1>8, GoBecomes DEF Becomes, Confirm, Fails, Fault
  <2>3. ASSUME NEW d \in Emitters, Guards(d), redis' = redis, Moves(e, "mark", em[e].claim)
        PROVE  Guards(d)'
    <3>1. CASE d = e
      BY <1>8, <2>1, <2>3, <3>1 DEF Guards, Moves, Confirm
    <3>2. CASE d # e
      <4>1. em'[d] = em[d]
        BY <2>3, <3>2 DEF Moves
      <4> QED BY <1>8, <2>3, <4>1, GuardStays DEF Guards, Confirm
    <3> QED BY <3>1, <3>2
  <2> QED BY <1>8, <1>q, <2>1, <2>2, <2>3 DEF Confirm
<1>9. ASSUME NEW e \in Emitters, Confirmed(e) PROVE Budget'
  <2>1. Moves(e, "done", None)
    BY <1>0, <1>9, IdleBecomes DEF Becomes, Confirmed
  <2>2. redis' = Delivered
    BY <1>9 DEF LockOK, Confirmed, At
  <2> QED BY <1>9, <1>q, <2>1, <2>2 DEF Confirmed
<1>10. ASSUME NEW e \in Emitters, Mark(e) PROVE Budget'
  <2>1. Moves(e, "set", em[e].claim) /\ em'[e].l2 = em[e].l2 /\ em'[e].lost = em[e].lost
    BY <1>0, <1>10, GoBecomes DEF Becomes, Mark
  <2>2. \A i \in Instances : l1'[i].res = l1[i].res \/ (i = em[e].at /\ Owns(e))
    <3>1. [l1[em[e].at] EXCEPT !.marked = TRUE].res = l1[em[e].at].res
      BY <1>0, EntryUpdates
    <3> QED BY <1>0, <1>10, <3>1 DEF Mark
  <2>3. ASSUME NEW d \in Emitters, Guards(d) PROVE Guards(d)'
    <3>1. CASE d = e
      BY <1>10, <2>1, <2>3, <3>1 DEF Guards, Moves, Mark
    <3>2. CASE d # e
      <4>1. em'[d] = em[d] /\ em[e].claim # em[d].claim
        BY <1>3, <2>1, <2>3, <3>2 DEF Moves
      <4>2. em[d].pc = "deliver" => l1[em[d].at].res = em[d].claim /\ lock[em[d].at] = {}
        BY <2>3 DEF Guards, Owns, Here
      <4> QED BY <1>0, <1>10, <2>2, <2>3, <4>1, <4>2, GuardStays DEF Mark, Owns, Here
    <3> QED BY <3>1, <3>2
  <2> QED BY <1>10, <1>q, <2>1, <2>3 DEF Mark
<1>11. ASSUME NEW e \in Emitters, SetMarker(e) PROVE Budget'
  <2>1. Moves(e, "done", None)
    BY <1>0, <1>11, IdleBecomes DEF Becomes, SetMarker
  <2>2. faults' = faults + 1 \/ (faults' = faults /\ redis' = Delivered)
    BY <1>11 DEF SetMarker, Fails, Fault
  <2> QED BY <1>11, <1>q, <2>1, <2>2 DEF SetMarker
<1>12. ASSUME NEW e \in Emitters, Release(e) PROVE Budget'
  <2>1. Moves(e, "delete", em[e].claim) \/ Moves(e, "idle", None)
    BY <1>0, <1>12, GoBecomes, IdleBecomes DEF Becomes, Release
  <2>2. \A i \in Instances : l1'[i].res = l1[i].res \/ (i = em[e].at /\ Owns(e))
    BY <1>0, <1>12 DEF Release
  <2>3. ASSUME NEW d \in Emitters, Guards(d) PROVE Guards(d)'
    <3>1. d # e
      BY <1>12, <2>3 DEF Guards, Release, At
    <3>2. em'[d] = em[d] /\ em[e].claim # em[d].claim
      BY <1>3, <2>1, <2>3, <3>1 DEF Moves
    <3>3. em[d].pc = "deliver" => l1[em[d].at].res = em[d].claim /\ lock[em[d].at] = {}
      BY <2>3 DEF Guards, Owns, Here
    <3> QED BY <1>0, <1>12, <2>2, <2>3, <3>2, <3>3, GuardStays DEF Release, Owns, Here
  <2> QED BY <1>12, <1>q, <2>1, <2>3 DEF Release
<1>13. ASSUME NEW e \in Emitters, Delete(e) PROVE Budget'
  <2>1. Moves(e, "idle", None)
    BY <1>0, <1>13, IdleBecomes DEF Becomes, Delete
  <2>2. ASSUME NEW d \in Emitters, Guards(d) PROVE Guards(d)'
    <3>1. d # e
      BY <1>13, <2>2 DEF Guards, Delete, At
    <3>2. em'[d] = em[d] /\ em[e].claim # redis
      BY <1>3, <2>1, <2>2, <3>1 DEF Moves, Guards
    <3>3. redis' = redis
      BY <1>13, <3>2 DEF Delete, Fails
    <3> QED BY <1>13, <2>2, <3>2, <3>3, GuardStays DEF Delete, Guards
  <2>3. sent' = sent /\ faults' \in {faults, faults + 1} /\ em[e].pc # "deliver"
    BY <1>13 DEF Delete, Fails, Fault, At
  <2> QED BY <1>q, <2>1, <2>2, <2>3
<1>14. ASSUME NEW e \in Emitters, RenewFails(e) PROVE Budget'
  <2>1. Moves(e, "deliver", em[e].claim)
    BY <1>0, <1>14, LostBecomes DEF Becomes, RenewFails, At
  <2>2. ASSUME NEW d \in Emitters, Guards(d), ~Owns(e) \/ redis # em[e].claim PROVE Guards(d)'
    <3>1. d # e
      BY <1>14, <2>2 DEF Guards, RenewFails, At
    <3>2. em'[d] = em[d]
      BY <2>1, <3>1 DEF Moves
    <3> QED BY <1>14, <2>2, <3>2, GuardStays DEF RenewFails, Guards
  <2>3. \/ faults' = faults + 1
        \/ faults' = faults /\ (~Owns(e) \/ redis # em[e].claim)
    BY <1>14 DEF RenewFails, Fault
  <2> QED BY <1>14, <1>q, <2>1, <2>2, <2>3 DEF RenewFails, At
\* A step that is not one of an emitter's program.
<1>r. ASSUME UNCHANGED <<em, sent>>,
             \/ faults' = faults + 1
             \/ faults' = faults /\ \A d \in Emitters : Guards(d) => Guards(d)'
      PROVE  Budget'
  <2>1. InHand' = InHand /\ Spent' = Spent /\ Spent \in Nat
    BY <1>1, <1>r DEF InHand, Spent
  <2>2. Spent' <= Spent /\ faults' \in {faults, faults + 1}
    BY <1>r, <2>1
  <2>3. \A d \in Emitters : Guards(d) =>
               \/ Guards(d)' \/ redis' = Delivered
               \/ Spent' <= Spent /\ faults' = faults + 1
    BY <1>r, <2>1
  <2> QED BY <1>1, <1>2, <2>1, <2>2, <2>3, BudgetKept
<1>15. ASSUME NEW e \in Emitters, Renew(e) PROVE Budget'
  <2>1. ASSUME NEW d \in Emitters, Guards(d) PROVE FALSE
    <3>1. d = e
      BY <1>3, <1>15, <2>1 DEF Renew, Guards
    <3> QED BY <1>15, <2>1, <3>1 DEF Renew, Guards, At
  <2> QED BY <1>15, <1>r, <2>1 DEF Renew
<1>16. ASSUME NEW i \in Instances, Lapse(i) PROVE Budget'
  <2>1. \A j \in Instances : j # i => l1'[j] = l1[j]
    BY <1>0, <1>16 DEF Lapse
  <2>2. ASSUME NEW d \in Emitters, Guards(d), ~Kept(l1[i].res) PROVE Guards(d)'
    <3>1. em[d].pc = "deliver" => l1[em[d].at].res = em[d].claim /\ lock[em[d].at] = {} /\ em[d].at # i
      BY <2>2 DEF Guards, Owns, Here, Kept
    <3> QED BY <1>0, <1>16, <2>1, <2>2, <3>1, GuardStays DEF Lapse
  <2>3. faults' = faults + 1 \/ (faults' = faults /\ ~Kept(l1[i].res))
    BY <1>16 DEF Lapse, Fault
  <2> QED BY <1>16, <1>r, <2>2, <2>3 DEF Lapse
<1>17. ASSUME LapseInRedis PROVE Budget'
  <2>1. faults' = faults + 1 \/ (faults' = faults /\ ~KeptInRedis(redis))
    BY <1>17 DEF LapseInRedis, Fault
  <2>2. ~KeptInRedis(redis) => \A d \in Emitters : ~Guards(d)
    BY DEF KeptInRedis, Guards
  <2> QED BY <1>17, <1>r, <2>1, <2>2 DEF LapseInRedis
<1>18. ASSUME NEW i \in Instances, Crash(i) PROVE Budget'
  <2>1. \A e \in Emitters : em'[e] = em[e] \/ em'[e].pc = "idle"
    BY <1>0, <1>18 DEF Crash, Idle, Memory
  <2>2. InHand' \in SUBSET InHand
    BY <2>1 DEF InHand
  <2>3. Cardinality(InHand') \in Nat /\ Cardinality(InHand') <= Cardinality(InHand)
    BY <2>2, InHandFinite, FS_Subset, FS_CardinalityType
  <2>4. faults' = faults + 1 /\ Spent' <= Spent /\ Spent' \in Nat /\ Spent \in Nat
    BY <1>1, <1>18, <2>3 DEF Crash, Fault, Spent
  <2> QED BY <1>1, <1>2, <2>3, <2>4, BudgetKept
<1> QED BY <1>4, <1>5, <1>6, <1>7, <1>8, <1>9, <1>10, <1>11, <1>12, <1>13, <1>14, <1>15, <1>16, <1>17, <1>18
        DEF Next, Step
-----------------------------------------------------------------------------
(* The theorems                                                            *)

\* The invariant is inductive.
LEMMA IInvStep == IInv /\ [Next]_vars => IInv'
<1>1. CASE IInv /\ Next
  BY <1>1, StepTypeOK, StepAccepted, StepUnlost, StepBudget DEF IInv
<1>2. CASE IInv /\ UNCHANGED vars
  BY <1>2 DEF IInv, TypeOK, LockOK, MarkedIsAccepted, Accepted, Unlost, Budget, Spent, Slack,
              InHand, Guards, Owns, Here, At, vars
<1> QED BY <1>1, <1>2

\* Every reachable state satisfies the invariant.
THEOREM IInvHolds == Spec => []IInv
BY InitIInv, IInvStep, PTL DEF Spec

\* Reservations, locks and claims keep their types; no two emitters ever work
\* under one claim.
THEOREM TypeCorrect == Spec => []TypeOK
<1>1. IInv => TypeOK
  BY DEF IInv
<1> QED BY <1>1, IInvHolds, PTL

\* Nobody is told "already delivered" of a frame no transport has accepted.
THEOREM MarkedAcceptedHolds == Spec => []MarkedIsAccepted
<1>1. IInv => MarkedIsAccepted
  BY DEF IInv
<1> QED BY <1>1, IInvHolds, PTL

\* However many instances and emitters compete, the frame is delivered at most
\* once more than there were disturbances.
THEOREM DuplicatesBounded == Spec => []DuplicatesNeedDisturbance
<1>1. IInv => DuplicatesNeedDisturbance
  <2> SUFFICES ASSUME IInv PROVE DuplicatesNeedDisturbance
    OBVIOUS
  <2>1. sent \in Nat /\ faults \in Nat /\ Cardinality(InHand) \in Nat
    BY InHandFinite, TerminalDeliveryAssumption DEF IInv, TypeOK
  <2>2. sent + Cardinality(InHand) <= 1 + faults
    BY DEF IInv, Budget, Spent
  <2> QED BY <2>1, <2>2 DEF DuplicatesNeedDisturbance
<1> QED BY <1>1, IInvHolds, PTL
=============================================================================
