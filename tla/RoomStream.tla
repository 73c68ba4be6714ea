----------------------------- MODULE RoomStream -----------------------------
(***************************************************************************)
(* The public event stream of a room, from the log to the browser.         *)
(*                                                                         *)
(* A publisher appends an event to the room's log under the next sequence  *)
(* number, in a transaction or, without one, counter first, and then hands *)
(* its frame to the connection.  A slot that is burned or whose writer is  *)
(* slow becomes a tombstone.  A connection queues frames and sends a       *)
(* snapshot when it had to drop one; the snapshot folds the log up to its  *)
(* first hole.  The reducer in the browser folds deltas in order, keeps    *)
(* those that come early, and reconnects when it sees a gap.               *)
(*                                                                         *)
(* The reader of a stream that was given up may still hold frames it had   *)
(* received: it hands them to the same reducer while the next one reads.   *)
(* One such reader is kept.  A fold may wait, and ends in a step of its    *)
(* own.  What a client without sequence numbers shows is not recorded.     *)
(***************************************************************************)
EXTENDS Integers, Sequences, FiniteSets

CONSTANTS
    Publishers,
    Events,
    Terminal,     \* events whose frame asks for a boundary snapshot
    MaxSeq,       \* bound on the sequence numbers of the room
    Grace,        \* skip_grace
    MaxAttempts,  \* _FALLBACK_INSERT_ATTEMPTS
    QueueMax,     \* sse_connection_queue_maxsize
    EarlyMax,     \* PRE_SNAPSHOT_BUFFER_LIMIT
    WireMax,      \* bound on frames under way
    MaxFaults     \* bound on deaths, breaks, lost frames, failed and refused snapshots

ASSUME RoomStreamAssumption ==
    /\ Terminal \subseteq Events
    /\ {"hole", "skip", "none"} \cap Events = {}
    /\ {MaxSeq, Grace, MaxAttempts, QueueMax, EarlyMax, WireMax} \subseteq Nat \ {0}
    /\ MaxFaults \in Nat

Slots   == 1..MaxSeq
Readers == {"new", "old"}
Timers  == {"boot", "gap", "reorder"}
Edges   == Publishers \X Terminal

VARIABLES
    log,     \* per slot: an event, "skip" or "hole"
    seq,     \* the room's counter
    healed,  \* healed_through
    pub,     \* per publisher: program counter, event, slot, attempts, events done
    conn,    \* the server's end of the connection
    edge,    \* the boundary snapshots: a task for each terminal frame
    reader,  \* the browser's readers
    client,  \* RoomReducer
    view,    \* the slots folded into the stores
    faults

logVars == <<log, seq, healed>>
vars == <<log, seq, healed, pub, conn, edge, reader, client, view, faults>>
-----------------------------------------------------------------------------
(* Data                                                                    *)

Delta(n) == [t |-> "delta", n |-> n]
Snap(n)  == [t |-> "snapshot", n |-> n]
Beat(n)  == [t |-> "heartbeat", n |-> n]
Hello(n) == [t |-> "connected", n |-> n]     \* -1: no room_seq
Frames   == [t : {"delta", "snapshot", "heartbeat", "connected"}, n : -1..MaxSeq]

Conns   == [st : {"down", "opening", "open"}, q : Seq(Frames), resync : BOOLEAN,
            shot : -1..MaxSeq]
Streams == [in : Seq(Frames), todo : Seq(0..MaxSeq), busy : 0..MaxSeq]
Clients == [cap : {"none", "seq", "legacy"}, snap : BOOLEAN, last : 0..MaxSeq,
            applied : 0..MaxSeq, seen : 0..MaxSeq, early : Seq(Slots),
            window : SUBSET Slots, boot : BOOLEAN, timers : SUBSET Timers]
Memory  == [pc : {"idle", "alloc", "insert", "fill", "heal", "send", "dead"},
            ev : Events \cup {"none"}, n : 0..MaxSeq, tries : 0..MaxAttempts,
            done : SUBSET Events]

Down   == [st |-> "down", q |-> <<>>, resync |-> FALSE, shot |-> -1]
Asleep == [in |-> <<>>, todo |-> <<>>, busy |-> 0]
Fresh  == [cap |-> "none", snap |-> FALSE, last |-> 0, applied |-> 0, seen |-> 0,
           early |-> <<>>, window |-> {}, boot |-> FALSE, timers |-> {}]

NoEdge  == -2
EdgeDue == -1     \* else the watermark of the snapshot that was built

Greater(a, b) == IF a >= b THEN a ELSE b

\* The elements of s at the indices in I, in their order.
Kept(s, I) ==
    LET Rank(i) == Cardinality({j \in I : j <= i})
    IN [k \in 1..Cardinality(I) |-> s[CHOOSE i \in I : Rank(i) = k]]

Logged(e) == \E n \in Slots : log[n] = e
SlotOf(e) == CHOOSE n \in Slots : log[n] = e

\* Fault: a snapshot covers whatever is there.
PrefixAll == seq

\* _snapshot_locked: the contiguous prefix, up to the first hole.
Prefix == CHOOSE w \in 0..MaxSeq :
             /\ \A n \in 1..w : log[n] # "hole"
             /\ w = MaxSeq \/ log[w + 1] = "hole"

Covered(w) == {n \in 1..w : log[n] \in Events}

Init ==
    /\ log = [n \in Slots |-> "hole"]
    /\ seq = 0
    /\ healed = 0
    /\ pub = [p \in Publishers |->
                [pc |-> "idle", ev |-> "none", n |-> 0, tries |-> 0, done |-> {}]]
    /\ conn = Down
    /\ edge = [k \in Edges |-> NoEdge]
    /\ reader = [r \in Readers |-> Asleep]
    /\ client = Fresh
    /\ view = {}
    /\ faults = 0

Fault == faults < MaxFaults /\ faults' = faults + 1
-----------------------------------------------------------------------------
(* Publishers                                                              *)

At(p, pc) == pub[p].pc = pc

Go(p, pc)      == pub' = [pub EXCEPT ![p].pc = pc]
SendAs(p, n)   == pub' = [pub EXCEPT ![p].pc = "send", ![p].n = n]

Begun(p, e, pc, n) == [pub[p] EXCEPT !.pc = pc, !.ev = e, !.n = n, !.tries = 0,
                                     !.done = @ \cup {e}]

\* append: the transaction commits, finds the event, or is not available.
Emit(p, e) ==
    /\ At(p, "idle") /\ e \notin pub[p].done
    /\ LET Turn(pc, n) == pub' = [pub EXCEPT ![p] = Begun(p, e, pc, n)]
       IN \/ Logged(e) /\ Turn("send", SlotOf(e)) /\ UNCHANGED <<log, seq>>
          \/ /\ ~Logged(e) /\ seq < MaxSeq
             /\ seq' = seq + 1
             /\ log' = [log EXCEPT ![seq + 1] = e]
             /\ Turn("send", seq + 1)
          \/ ~Logged(e) /\ Turn("alloc", 0) /\ UNCHANGED <<log, seq>>
    /\ UNCHANGED <<healed, conn, edge, reader, client, view, faults>>

\* _append_fallback: the counter first.
Alloc(p) ==
    /\ At(p, "alloc") /\ seq < MaxSeq
    /\ seq' = seq + 1
    /\ pub' = [pub EXCEPT ![p].pc = "insert", ![p].n = seq + 1]
    /\ UNCHANGED <<log, healed, conn, edge, reader, client, view, faults>>

\* Fault: the slot it lost is the one it reports.
InsertReporting(p) ==
    /\ At(p, "insert")
    /\ IF ~Logged(pub[p].ev) /\ log[pub[p].n] = "hole"
       THEN log' = [log EXCEPT ![pub[p].n] = pub[p].ev] /\ Go(p, "heal")
       ELSE UNCHANGED log /\ SendAs(p, pub[p].n)
    /\ UNCHANGED <<seq, healed, conn, edge, reader, client, view, faults>>

\* The insert: a duplicate event, a slot the healer has taken, or success.
Insert(p) ==
    /\ At(p, "insert")
    /\ \/ Logged(pub[p].ev) /\ UNCHANGED log /\ Go(p, "fill")
       \/ /\ ~Logged(pub[p].ev) /\ log[pub[p].n] # "hole" /\ UNCHANGED log
          /\ pub' = [pub EXCEPT ![p].pc = IF pub[p].tries + 1 < MaxAttempts THEN "alloc" ELSE "idle",
                                ![p].tries = @ + 1]
       \/ /\ ~Logged(pub[p].ev) /\ log[pub[p].n] = "hole"
          /\ log' = [log EXCEPT ![pub[p].n] = pub[p].ev]
          /\ Go(p, "heal")
    /\ UNCHANGED <<seq, healed, conn, edge, reader, client, view, faults>>

Skipped(from, to) == [n \in Slots |-> IF n \in from..to /\ log[n] = "hole" THEN "skip" ELSE log[n]]

\* _fill_skipped: the slot burned by a concurrent append of the same event.
Fill(p) ==
    /\ At(p, "fill")
    /\ log' = Skipped(pub[p].n, pub[p].n)
    /\ SendAs(p, SlotOf(pub[p].ev))
    /\ UNCHANGED <<seq, healed, conn, edge, reader, client, view, faults>>

\* _heal_skipped: tombstones up to the grace behind this slot.
Heal(p) ==
    /\ At(p, "heal")
    /\ LET through == pub[p].n - Grace IN
       IF through > healed
       THEN log' = Skipped(healed + 1, through) /\ healed' = through
       ELSE UNCHANGED <<log, healed>>
    /\ Go(p, "send")
    /\ UNCHANGED <<seq, conn, edge, reader, client, view, faults>>

\* What an eviction leaves in the queue.
Deltas(q) == Kept(q, {i \in DOMAIN q : q[i].t # "snapshot"})

\* Fault: after the eviction there is always room.
PutKeeping(f) ==
    IF conn.st = "down" THEN conn
    ELSE IF Len(conn.q) < QueueMax THEN [conn EXCEPT !.q = Append(@, f)]
    ELSE [conn EXCEPT !.resync = TRUE, !.q = Append(Deltas(@), f)]

\* send_frame: a full queue drops the frame, but evicts snapshots for a delta.
Put(f) ==
    LET kept == IF f.t = "snapshot" THEN conn.q ELSE Deltas(conn.q)
    IN IF conn.st = "down" THEN conn
       ELSE IF Len(conn.q) < QueueMax THEN [conn EXCEPT !.q = Append(@, f)]
       ELSE [conn EXCEPT !.resync = TRUE,
                         !.q = IF Len(kept) < QueueMax THEN Append(kept, f) ELSE kept]

\* broadcast_frame_to_room, here or behind Redis, where it may be lost.
Send(p) ==
    /\ At(p, "send")
    /\ \/ /\ conn' = Put(Delta(pub[p].n))
          /\ edge' = [k \in Edges |-> IF k = <<p, pub[p].ev>> THEN EdgeDue ELSE edge[k]]
          /\ UNCHANGED faults
       \/ Fault /\ UNCHANGED <<conn, edge>>
    /\ Go(p, "idle")
    /\ UNCHANGED <<logVars, reader, client, view>>

Crash(p) ==
    /\ pub[p].pc \in {"insert", "fill", "heal", "send"}
    /\ Fault
    /\ Go(p, "dead")
    /\ UNCHANGED <<logVars, conn, edge, reader, client, view>>
-----------------------------------------------------------------------------
(* The connection                                                          *)

\* _enqueue_room_snapshot: built in one step, broadcast in another; the tasks of
\* several frames overlap.
BuildEdge(k) ==
    /\ edge[k] = EdgeDue
    /\ \/ edge' = [edge EXCEPT ![k] = Prefix] /\ UNCHANGED faults
       \/ Fault /\ edge' = [edge EXCEPT ![k] = NoEdge]
    /\ UNCHANGED <<logVars, pub, conn, reader, client, view>>

SendEdge(k) ==
    /\ edge[k] \in 0..MaxSeq
    /\ conn' = Put(Snap(edge[k]))
    /\ edge' = [edge EXCEPT ![k] = NoEdge]
    /\ UNCHANGED <<logVars, pub, reader, client, view, faults>>

\* add_connection: frames are queued from here on.
Connect ==
    /\ conn.st = "down"
    /\ conn' = [Down EXCEPT !.st = "opening"]
    /\ UNCHANGED <<logVars, pub, edge, reader, client, view, faults>>

\* The handshake and its snapshot, or a handshake without a sequence number.
Handshake ==
    /\ conn.st = "opening"
    /\ conn' = [conn EXCEPT !.st = "open"]
    /\ \/ /\ reader' = [reader EXCEPT !["new"].in = <<Hello(Prefix), Snap(Prefix)>>]
          /\ UNCHANGED faults
       \/ Fault /\ reader' = [reader EXCEPT !["new"].in = <<Hello(-1)>>]
    /\ UNCHANGED <<logVars, pub, edge, client, view>>

\* next_frame: a queued frame, or a heartbeat; unless the last attempt was less
\* than two seconds ago, a connection that dropped a frame builds a snapshot.
Deliver ==
    /\ conn.st = "open" /\ conn.shot = -1
    /\ Len(reader["new"].in) < WireMax
    /\ LET f == IF conn.q = <<>> THEN Beat(seq) ELSE Head(conn.q)
           c == [conn EXCEPT !.q = IF @ = <<>> THEN @ ELSE Tail(@)]
       IN /\ reader' = [reader EXCEPT !["new"].in = Append(@, f)]
          /\ conn' \in {c} \cup IF conn.resync THEN {[c EXCEPT !.shot = Prefix]} ELSE {}
    /\ UNCHANGED <<logVars, pub, edge, client, view, faults>>

\* _maybe_enqueue_resync_snapshot, once its snapshot is built
ResyncShot ==
    /\ conn.shot # -1
    /\ LET c == [conn EXCEPT !.shot = -1] IN
       \/ /\ conn' = IF Len(conn.q) < QueueMax
                     THEN [c EXCEPT !.q = Append(@, Snap(conn.shot)), !.resync = FALSE]
                     ELSE c
          /\ UNCHANGED faults
       \/ Fault /\ conn' = c
    /\ UNCHANGED <<logVars, pub, edge, reader, client, view>>

\* The network breaks; SSEConnection connects again.
Break ==
    /\ conn.st # "down" /\ reader["new"].busy = 0 /\ reader["new"].todo = <<>>
    /\ Fault
    /\ conn' = Down
    /\ reader' = [reader EXCEPT !["new"] = Asleep]
    /\ UNCHANGED <<logVars, pub, edge, client, view>>
-----------------------------------------------------------------------------
(* The browser                                                             *)

\* reconnectWithSnapshot: the stream is given up.  A reader in the middle of a
\* batch goes on with it; what one that waits for data had not read is lost.
Reconnect(rd, inBatch) ==
    /\ conn' = Down
    /\ IF inBatch /\ rd["old"] = Asleep
       THEN \E k \in 0..Len(rd["new"].in) :
               reader' = [r \in Readers |->
                            IF r = "old" THEN [rd["new"] EXCEPT !.in = SubSeq(@, 1, k)]
                            ELSE Asleep]
       ELSE reader' = [rd EXCEPT !["new"] = Asleep]

Waiting(r) == reader[r].busy # 0

Stay(rd) == reader' = rd /\ UNCHANGED conn

\* Fault: what is observed arms no timer.
ReconciledQuiet(c) == c

\* reconcileObservedWatermark
Reconciled(c) ==
    [c EXCEPT !.timers = IF c.seen > c.last THEN @ \cup {"gap"} ELSE @ \ {"gap"}]

\* clearReorderTimerIfEmpty
WithWindow(c, w) ==
    [c EXCEPT !.window = w, !.timers = IF w = {} THEN @ \ {"reorder"} ELSE @]

\* onConnected
OnConnected(rd, n) ==
    /\ client' = IF n = -1 THEN [Fresh EXCEPT !.cap = "legacy", !.applied = client.applied]
                 ELSE [Fresh EXCEPT !.cap = "seq", !.applied = client.applied, !.last = n,
                                    !.seen = n, !.timers = {"boot"}]
    /\ Stay(rd)
    /\ UNCHANGED view

\* Fault: an older snapshot replaces what is shown.
StaleNever(n) == FALSE

\* A snapshot below what is folded already is refused.
Stale(n) == n < client.applied

\* onSnapshot; the deltas that came before it are replayed, then the window is
\* drained (the 0).  One the stores do not take (applySnapshotToStores) changes
\* nothing, and another is requested.
OnSnapshot(rd, r, n) ==
    LET again == Reconnect(rd, r = "new" \/ Waiting("new")) /\ UNCHANGED <<client, view>> IN
    \/ client.cap # "seq" /\ Stay(rd) /\ view' = Covered(n) /\ UNCHANGED <<client, faults>>
    \/ client.cap = "seq" /\ Stale(n) /\ again /\ UNCHANGED faults
    \/ client.cap = "seq" /\ ~Stale(n) /\ Fault /\ again
    \/ /\ client.cap = "seq" /\ ~Stale(n)
       /\ view' = Covered(n)
       /\ client' = WithWindow([client EXCEPT !.snap = TRUE, !.last = n, !.early = <<>>,
                                  !.applied = Greater(@, n), !.seen = Greater(@, n),
                                  !.timers = @ \ {"boot"}],
                               {m \in client.window : m > n})
       /\ Stay([rd EXCEPT ![r].todo =
                  Append(Kept(client.early, {i \in DOMAIN client.early : client.early[i] > n}), 0)])
       /\ UNCHANGED faults

\* onHeartbeat
OnHeartbeat(rd, n) ==
    /\ client' = IF client.cap = "seq" /\ client.snap
                 THEN Reconciled([client EXCEPT !.seen = Greater(@, n)]) ELSE client
    /\ Stay(rd)
    /\ UNCHANGED view

\* Fault: any later delta is folded.
InTurnLater(n) == n > client.last

InTurn(n) == n = client.last + 1

\* onDelta
OnDelta(rd, r, n) ==
    /\ UNCHANGED view
    /\ \/ /\ client.cap # "seq" \/ (client.snap /\ n <= client.last)
          /\ Stay(rd) /\ UNCHANGED client
       \/ /\ client.cap = "seq" /\ ~client.snap
          /\ client' = [client EXCEPT !.boot = TRUE,
                                      !.early = IF Len(@) < EarlyMax THEN Append(@, n) ELSE @]
          /\ IF client.boot THEN Stay(rd) ELSE Reconnect(rd, r = "new" \/ Waiting("new"))
       \/ /\ client.cap = "seq" /\ client.snap /\ n > client.last
          /\ IF InTurn(n)
             THEN UNCHANGED client /\ Stay([rd EXCEPT ![r].busy = n])
             ELSE /\ client' = [client EXCEPT !.window = @ \cup {n},
                                              !.timers = @ \cup {"reorder"}]
                  /\ Stay(rd)

\* A handler runs until it waits: nothing else happens in the browser.
Idle == \A r \in Readers : reader[r].todo # <<>> => Waiting(r)

\* readStream hands over one frame after the other.
Take(r) ==
    /\ Idle /\ ~Waiting(r) /\ reader[r].in # <<>>
    /\ LET f  == Head(reader[r].in)
           rd == [reader EXCEPT ![r].in = Tail(@)]
       IN \/ f.t = "connected" /\ OnConnected(rd, f.n) /\ UNCHANGED faults
          \/ f.t = "snapshot"  /\ OnSnapshot(rd, r, f.n)
          \/ f.t = "heartbeat" /\ OnHeartbeat(rd, f.n) /\ UNCHANGED faults
          \/ f.t = "delta"     /\ OnDelta(rd, r, f.n) /\ UNCHANGED faults
    /\ UNCHANGED <<logVars, pub, edge>>

\* drainReorderBuffer, from c: what is left of the window and the next fold.
Drained(c) == WithWindow(c, c.window \ {c.last + 1})
NextFold(c) == IF c.last + 1 \in c.window THEN c.last + 1 ELSE 0

Replay(r) ==
    /\ ~Waiting(r) /\ reader[r].todo # <<>>
    /\ LET n  == Head(reader[r].todo)
           rd == [reader EXCEPT ![r].todo = Tail(@)]
       IN \/ n # 0 /\ OnDelta(rd, r, n)
          \/ /\ n = 0
             /\ client' = Reconciled(Drained(client))
             /\ Stay([rd EXCEPT ![r].busy = NextFold(client)])
             /\ UNCHANGED view
    /\ UNCHANGED <<logVars, pub, edge, faults>>

\* The fold ends; what it sets was decided before it waited.
FoldDone(r) ==
    /\ Idle /\ Waiting(r)
    /\ LET n == reader[r].busy
           c == [client EXCEPT !.last = n, !.applied = Greater(@, n), !.seen = Greater(@, n)]
       IN /\ view' = view \cup {n}
          /\ client' = Drained(Reconciled(c))
          /\ reader' = [reader EXCEPT ![r].busy = NextFold(c)]
    /\ UNCHANGED <<logVars, pub, conn, edge, faults>>

\* The timers.  A snapshot that is on its way comes before the bootstrap timer,
\* and a second stream is not given up while the batch of the first goes on.
Fire(t) ==
    /\ Idle /\ t \in client.timers
    /\ Waiting("new") => reader["old"] = Asleep
    /\ t = "boot" => \A i \in DOMAIN reader["new"].in : reader["new"].in[i].t # "snapshot"
    /\ client' = [client EXCEPT !.timers = @ \ {t}]
    /\ IF \/ t = "boot" /\ ~client.snap
          \/ t = "gap" /\ client.seen > client.last
          \/ t = "reorder"
       THEN Reconnect(reader, Waiting("new")) ELSE Stay(reader)
    /\ UNCHANGED <<logVars, pub, edge, view, faults>>
-----------------------------------------------------------------------------
Publish(p) == Alloc(p) \/ Insert(p) \/ Fill(p) \/ Heal(p) \/ Send(p)

Next ==
    \/ \E p \in Publishers : Publish(p) \/ Crash(p) \/ \E e \in Events : Emit(p, e)
    \/ \E k \in Edges : BuildEdge(k) \/ SendEdge(k)
    \/ Connect \/ Handshake \/ Deliver \/ ResyncShot \/ Break
    \/ \E r \in Readers : Take(r) \/ Replay(r) \/ FoldDone(r)
    \/ \E t \in Timers : Fire(t)

Spec == Init /\ [][Next]_vars

\* Processes and timers run; nobody has to publish.
FairSpec ==
    /\ Spec
    /\ \A p \in Publishers : WF_vars(Publish(p))
    /\ \A k \in Edges : WF_vars(BuildEdge(k) \/ SendEdge(k))
    /\ WF_vars(Connect) /\ WF_vars(Handshake)
    /\ WF_vars(Deliver) /\ WF_vars(ResyncShot)
    /\ \A r \in Readers : WF_vars(Take(r) \/ Replay(r) \/ FoldDone(r))
    /\ \A t \in Timers : WF_vars(Fire(t))
-----------------------------------------------------------------------------
(* Properties                                                              *)

\* The queue and the buffers keep their limits, an event has one slot.
TypeOK ==
    /\ log \in [Slots -> Events \cup {"hole", "skip"}]
    /\ \A m, n \in Slots : log[m] = log[n] /\ log[m] \in Events => m = n
    /\ seq \in 0..MaxSeq /\ healed \in 0..MaxSeq
    /\ \A n \in Slots : log[n] # "hole" => n <= seq
    /\ pub \in [Publishers -> Memory]
    /\ conn \in Conns /\ Len(conn.q) <= QueueMax
    /\ edge \in [Edges -> {NoEdge, EdgeDue} \cup 0..MaxSeq]
    /\ reader \in [Readers -> Streams]
    /\ client \in Clients /\ Len(client.early) <= EarlyMax
    /\ view \subseteq Slots /\ faults \in 0..MaxFaults

\* Every delta under way names an event of the log: delivery never precedes
\* durability, and no tombstone is delivered as an event (_persist_frame).
DeltaIsDurable ==
    LET Named(f) == f.t = "delta" => log[f.n] \in Events IN
    /\ \A i \in DOMAIN conn.q : Named(conn.q[i])
    /\ \A r \in Readers : \A i \in DOMAIN reader[r].in : Named(reader[r].in[i])
    /\ \A n \in client.window : log[n] \in Events

\* The room never shows an event above one that is missing: below what is
\* shown the log has no hole, and its events are shown (contiguous prefix and
\* reorder window).
ViewIsPrefix ==
    client.snap => \A n \in view : \A m \in 1..n : log[m] = "skip" \/ m \in view

\* What a sequenced client has folded stays shown, whatever snapshot comes late,
\* on whatever stream (appliedRoomSeq survives reconnects).
ShownStays == [][client.cap = "seq" =>
                    {n \in view : n <= client.applied} \subseteq view']_vars

\* An event of the log reaches the room, unless a dead publisher left a hole
\* below it or the client was given no sequence numbers.
EventReachesRoom ==
    \A n \in Slots :
        log[n] \in Events ~>
            \/ n \in view \/ client.cap = "legacy"
            \/ \E p \in Publishers : At(p, "dead") /\ pub[p].n < n /\ log[pub[p].n] = "hole"

\* A delta whose fold waits is not overtaken by a later frame (readStream: "A
\* later terminal frame must never overtake an earlier start/update handler").
\* The program does not have it: the reader of a stream that was given up.
NotOvertaken ==
    client.snap => \A r \in Readers : Waiting(r) => reader[r].busy > client.last
=============================================================================
