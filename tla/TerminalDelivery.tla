-------------------------- MODULE TerminalDelivery --------------------------
(***************************************************************************)
(* The delivery of one terminal frame by several emitters in several       *)
(* instances of the server.                                                *)
(*                                                                         *)
(* An emitter reserves the frame in the memory of its instance (L1) and in *)
(* Redis (L2), hands it to the transport, keeps the reservation alive      *)
(* meanwhile, and leaves a marker in both once the transport has accepted  *)
(* it.  Without Redis the reservation is held in the instance alone.  A    *)
(* caller that is told "in flight" or "failed" calls again.                *)
(*                                                                         *)
(* A call to Redis that fails may have had its effect.  The marker of a    *)
(* delivery outlives the behaviours considered here; a reservation lapses  *)
(* when nobody renews it.  A stall that lets a renewed one lapse is a      *)
(* disturbance, as are a death, a failed call and a refused frame.         *)
(***************************************************************************)
EXTENDS Integers, FiniteSets

CONSTANTS
    Instances,
    Emitters,
    MaxFaults    \* bound on disturbances

ASSUME TerminalDeliveryAssumption ==
    /\ IsFiniteSet(Instances) /\ IsFiniteSet(Emitters)
    /\ MaxFaults \in Nat

\* Claim ids; one is free whenever one is needed.
Claims    == 1..(Cardinality(Emitters) + Cardinality(Instances) + 2)
None      == 0
Delivered == -1

Entries == [res : Claims \cup {None}, l2 : BOOLEAN, marked : BOOLEAN]
Memory  == [pc : {"idle", "setnx", "get", "deliver", "confirm", "confirmed", "mark", "set",
                  "release", "delete", "done"},
            at : Instances, claim : Claims \cup {None}, l2 : BOOLEAN, lost : BOOLEAN]

VARIABLES
    l1,      \* per instance: reservation, whether it is one of Redis, marker
    redis,   \* the key in Redis: None, a claim or Delivered
    lock,    \* per instance: the emitters that reserve
    em,      \* per emitter: program counter, instance, claim, l2_owned, lease_lost
    sent,    \* how often the transport accepted the frame
    faults

vars == <<l1, redis, lock, em, sent, faults>>

Idle(e) == [em[e] EXCEPT !.pc = "idle", !.claim = None, !.l2 = FALSE, !.lost = FALSE]

Init ==
    /\ l1 = [i \in Instances |-> [res |-> None, l2 |-> FALSE, marked |-> FALSE]]
    /\ redis = None
    /\ lock = [i \in Instances |-> {}]
    /\ em \in [Emitters -> [pc : {"idle"}, at : Instances, claim : {None},
                            l2 : {FALSE}, lost : {FALSE}]]
    /\ sent = 0
    /\ faults = 0

Fault == faults < MaxFaults /\ faults' = faults + 1

At(e, pc) == em[e].pc = pc
Go(e, pc) == em' = [em EXCEPT ![e].pc = pc]
Stop(e)   == em' = [em EXCEPT ![e] = [Idle(e) EXCEPT !.pc = "done"]]
Again(e)  == em' = [em EXCEPT ![e] = Idle(e)]

Here(e) == l1[em[e].at]
Owns(e) == Here(e).res = em[e].claim

Unlock(e) == lock' = [lock EXCEPT ![em[e].at] = {}]

\* A call to Redis that fails, with or without the effect it would have had.
Fails(effect) == Fault /\ redis' \in {redis, effect}

\* A claim id that nothing holds.
Used  == {redis} \cup {l1[i].res : i \in Instances} \cup {em[e].claim : e \in Emitters}
Fresh == CHOOSE k \in Claims : k \notin Used
-----------------------------------------------------------------------------
(* reserve                                                                 *)

\* Under the lock of the key: delivered, in flight (nothing changes), or on.
Reserve(e) ==
    /\ At(e, "idle") /\ lock[em[e].at] = {}
    /\ \/ Here(e).marked /\ Stop(e) /\ UNCHANGED lock
       \/ /\ ~Here(e).marked /\ Here(e).res = None
          /\ lock' = [lock EXCEPT ![em[e].at] = {e}]
          /\ em' = [em EXCEPT ![e].pc = "setnx", ![e].claim = Fresh]
    /\ UNCHANGED <<l1, redis, sent, faults>>

Reserved(e, l2) ==
    /\ l1' = [l1 EXCEPT ![em[e].at].res = em[e].claim, ![em[e].at].l2 = l2]
    /\ em' = [em EXCEPT ![e].pc = "deliver", ![e].l2 = l2]
    /\ Unlock(e)

\* Fault: the key is set whether or not it is there.
SetNxPlain(e) ==
    /\ At(e, "setnx")
    /\ redis' = em[e].claim /\ Reserved(e, TRUE)
    /\ UNCHANGED <<sent, faults>>

\* setnx; when it fails the reservation is one of this instance alone.
SetNx(e) ==
    /\ At(e, "setnx")
    /\ \/ /\ redis = None /\ redis' = em[e].claim
          /\ Reserved(e, TRUE) /\ UNCHANGED faults
       \/ redis # None /\ Go(e, "get") /\ UNCHANGED <<redis, l1, lock, faults>>
       \/ Fails(IF redis = None THEN em[e].claim ELSE redis) /\ Reserved(e, FALSE)
    /\ UNCHANGED sent

\* Fault: whoever set the key has delivered.
GetAny(e) ==
    /\ At(e, "get")
    /\ l1' = [l1 EXCEPT ![em[e].at].marked = TRUE]
    /\ Stop(e) /\ Unlock(e)
    /\ UNCHANGED <<redis, sent, faults>>

\* Fault: the lock is kept on the way out.
GetLocked(e) ==
    /\ At(e, "get")
    /\ Again(e)
    /\ UNCHANGED <<l1, lock, redis, sent, faults>>

\* get: the marker of another instance, or in flight.
Get(e) ==
    /\ At(e, "get")
    /\ \/ /\ redis = Delivered /\ Stop(e) /\ UNCHANGED faults
          /\ l1' = [l1 EXCEPT ![em[e].at].marked = TRUE]
       \/ redis # Delivered /\ Again(e) /\ UNCHANGED <<l1, faults>>
       \/ Fault /\ Again(e) /\ UNCHANGED l1
    /\ Unlock(e)
    /\ UNCHANGED <<redis, sent>>
-----------------------------------------------------------------------------
(* Fan-out, and what follows it                                            *)

\* renew: the heartbeat finds the lease gone, or cannot reach Redis, and ends.
RenewFails(e) ==
    /\ At(e, "deliver") /\ ~em[e].lost
    /\ \/ (~Owns(e) \/ (Here(e).l2 /\ redis # em[e].claim)) /\ UNCHANGED faults
       \/ Owns(e) /\ Here(e).l2 /\ Fault
    /\ em' = [em EXCEPT ![e].lost = TRUE]
    /\ UNCHANGED <<l1, redis, lock, sent>>

\* renew: the entry is put back, also when it lapsed, or went to another
\* emitter, while Redis answered.
Renew(e) ==
    /\ At(e, "deliver") /\ ~em[e].lost
    /\ em[e].l2 /\ redis = em[e].claim /\ ~Owns(e)
    /\ l1' = [l1 EXCEPT ![em[e].at].res = em[e].claim, ![em[e].at].l2 = TRUE]
    /\ UNCHANGED <<redis, lock, em, sent, faults>>

\* _deliver_with_reservation: the frame is accepted, or not even logged or
\* refused by every transport.
Deliver(e) ==
    /\ At(e, "deliver")
    /\ \/ /\ sent' = sent + 1 /\ UNCHANGED faults
          /\ Go(e, IF em[e].l2 /\ ~em[e].lost THEN "confirm" ELSE "mark")
       \/ Fault /\ Go(e, "release") /\ UNCHANGED sent
    /\ UNCHANGED <<l1, redis, lock>>

\* confirm, up to the answer of Redis
Confirm(e) ==
    /\ At(e, "confirm")
    /\ \/ /\ Owns(e) /\ redis = em[e].claim /\ redis' = Delivered
          /\ Go(e, "confirmed") /\ UNCHANGED faults
       \/ /\ ~Owns(e) \/ redis # em[e].claim
          /\ Go(e, "mark") /\ UNCHANGED <<redis, faults>>
       \/ /\ Owns(e) /\ Fails(IF redis = em[e].claim THEN Delivered ELSE redis)
          /\ Go(e, "mark")
    /\ UNCHANGED <<l1, lock, sent>>

Confirmed(e) ==
    /\ At(e, "confirmed")
    /\ l1' = [l1 EXCEPT ![em[e].at] = [res |-> None, l2 |-> FALSE, marked |-> TRUE]]
    /\ Stop(e)
    /\ UNCHANGED <<redis, lock, sent, faults>>

\* mark_delivered_after_acceptance: here first, whoever holds the reservation
Mark(e) ==
    /\ At(e, "mark")
    /\ l1' = [l1 EXCEPT ![em[e].at] = IF Owns(e)
                                      THEN [res |-> None, l2 |-> FALSE, marked |-> TRUE]
                                      ELSE [@ EXCEPT !.marked = TRUE]]
    /\ Go(e, "set")
    /\ UNCHANGED <<redis, lock, sent, faults>>

\* then in Redis, whoever holds the key
SetMarker(e) ==
    /\ At(e, "set")
    /\ \/ redis' = Delivered /\ UNCHANGED faults
       \/ Fails(Delivered)
    /\ Stop(e)
    /\ UNCHANGED <<l1, lock, sent>>

\* release of the own reservation, here ...
Release(e) ==
    /\ At(e, "release")
    /\ IF Owns(e)
       THEN /\ l1' = [l1 EXCEPT ![em[e].at].res = None, ![em[e].at].l2 = FALSE]
            /\ IF Here(e).l2 THEN Go(e, "delete") ELSE Again(e)
       ELSE Again(e) /\ UNCHANGED l1
    /\ UNCHANGED <<redis, lock, sent, faults>>

\* ... and in Redis
Delete(e) ==
    /\ At(e, "delete")
    /\ LET effect == IF redis = em[e].claim THEN None ELSE redis IN
       \/ redis' = effect /\ UNCHANGED faults
       \/ Fails(effect)
    /\ Again(e)
    /\ UNCHANGED <<l1, lock, sent>>
-----------------------------------------------------------------------------
(* Time and death                                                          *)

\* Some emitter still works under the claim and has it renewed.
Kept(k) == \E e \in Emitters : /\ em[e].claim = k /\ ~em[e].lost
                               /\ em[e].pc \in {"deliver", "confirm", "confirmed", "mark", "release"}
KeptInRedis(k) == \E e \in Emitters : em[e].claim = k /\ em[e].l2 /\ ~em[e].lost

Lapse(i) ==
    /\ l1[i].res # None
    /\ IF Kept(l1[i].res) THEN Fault ELSE UNCHANGED faults
    /\ l1' = [l1 EXCEPT ![i].res = None, ![i].l2 = FALSE]
    /\ UNCHANGED <<redis, lock, em, sent>>

\* Fault: a claim has no time to live.
LapseNever == FALSE /\ UNCHANGED vars

LapseInRedis ==
    /\ redis \in Claims
    /\ IF KeptInRedis(redis) THEN Fault ELSE UNCHANGED faults
    /\ redis' = None
    /\ UNCHANGED <<l1, lock, em, sent>>

\* An instance dies and starts again; its callers are recovered.
Crash(i) ==
    /\ Fault
    /\ l1' = [l1 EXCEPT ![i] = [res |-> None, l2 |-> FALSE, marked |-> FALSE]]
    /\ lock' = [lock EXCEPT ![i] = {}]
    /\ em' = [e \in Emitters |-> IF em[e].at = i /\ ~At(e, "done") THEN Idle(e) ELSE em[e]]
    /\ UNCHANGED <<redis, sent>>
-----------------------------------------------------------------------------
Step(e) ==
    \/ Reserve(e) \/ SetNx(e) \/ Get(e)
    \/ Deliver(e) \/ Confirm(e) \/ Confirmed(e) \/ Mark(e) \/ SetMarker(e)
    \/ Release(e) \/ Delete(e)

Next ==
    \/ \E e \in Emitters : Step(e) \/ Renew(e) \/ RenewFails(e)
    \/ \E i \in Instances : Lapse(i) \/ Crash(i)
    \/ LapseInRedis

Spec == Init /\ [][Next]_vars

\* Emitters run and call again, and what nobody renews lapses.
FairSpec ==
    /\ Spec
    /\ \A e \in Emitters : WF_vars(Step(e))
    /\ \A i \in Instances : WF_vars(Lapse(i))
    /\ WF_vars(LapseInRedis)
-----------------------------------------------------------------------------
(* Properties                                                              *)

\* The lock of an instance is held by an emitter that talks to Redis, and no
\* two emitters have one claim.
TypeOK ==
    /\ l1 \in [Instances -> Entries]
    /\ redis \in Claims \cup {None, Delivered}
    /\ em \in [Emitters -> Memory]
    /\ \A i \in Instances : \A e \in lock[i] : em[e].at = i /\ em[e].pc \in {"setnx", "get"}
    /\ \A d, e \in Emitters : em[d].claim = em[e].claim /\ d # e => em[d].claim = None
    /\ sent \in Nat /\ faults \in 0..MaxFaults

\* A terminal frame is reported as delivered only after a transport accepted it:
\* no caller is told "already delivered" of a frame that nobody sent.
MarkedIsAccepted ==
    redis = Delivered \/ (\E i \in Instances : l1[i].marked) \/ (\E e \in Emitters : At(e, "done"))
        => sent > 0

\* Every further delivery of the frame is paid for by a disturbance of its own:
\* one lapse, death or failed call never lets two more through.
DuplicatesNeedDisturbance == sent <= 1 + faults

\* Every caller comes to an end, whatever claim another one left behind.
EmissionEnds == \A e \in Emitters : <>At(e, "done")
=============================================================================
