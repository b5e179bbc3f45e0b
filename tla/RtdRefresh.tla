----------------------------- MODULE RtdRefresh -----------------------------
(***************************************************************************)
(* Publication, refresh and notification of one RTD server                 *)
(* (xlfn/src/subscription: data_plane.rs, data_plane/refresh.rs,           *)
(* data_plane/notification.rs, delivery.rs).                               *)
(*                                                                         *)
(* Sources publish values into sharded topic tables, double-buffered by    *)
(* the parity of a publish epoch.  Excel is notified once per epoch, pulls *)
(* a batch (a refresh, which advances the epoch first) and the batch ends  *)
(* delivered or failed.  Connections come and go under generations, and    *)
(* termination seals the server's gate, clears the tables and drains.      *)
(***************************************************************************)
EXTENDS Integers, FiniteSets, FiniteSetsExt

CONSTANTS Topics,
          Shards,      \* the shard locks
          ShardOf,     \* shard_index
          Connected,   \* topics whose connection is committed initially
          Publishers,  \* source threads that publish
          TopicOf,     \* the topic a publisher serves
          Values,
          Ops,         \* what happens besides publishing and refreshing
          Sends,       \* how a source publishes: one value or a batch
          BatchSize,   \* values of a batch
          QueueLimit,  \* the queued-update quota
          MaxSeq,      \* the last sequence of a connection: u64::MAX in the code
          MaxGen,      \* connections per topic (bound of the model)
          MaxEpoch,    \* refreshes Excel starts unasked (bound of the model)
          MaxErrors,   \* failing notify calls and refreshes (bound of the model)
          MaxPulses,   \* heartbeats on an unanswered notice, and attachments (bound of the model)
          None

VARIABLES active,    \* active[t]: active_by_topic, gen 0 when there is none
          pending,   \* pending[b][t]: the queued update of a buffer
          tally,     \* pending_updates, deliverable_pending, deliverable_count, ready_shards
          epoch,     \* publish_epoch
          notified,  \* notified_epoch
          refresh,   \* the state behind the refresh lock
          batch,     \* the updates collected by the running refresh
          plan,      \* the running refresh: shards left, outcome
          at,        \* at[th]: program counter and locals of a thread
          locked,    \* locked[s]: the publisher inside the shard lock
          server,    \* lifecycle and gate
          told,      \* Excel has a notice it has not answered
          errors, pulses,
          accepted,  \* accepted[t]: the last generation and the last value it published
          shown      \* shown[t][g]: newest value Excel was given by a generation

vars == <<active, pending, tally, epoch, notified, refresh, batch, plan, at, locked,
          server, told, errors, pulses, accepted, shown>>
tables == <<active, pending, tally, accepted>>
bounds == <<errors, pulses>>

Excel == "excel"
Heart == "heartbeat"
Threads == Publishers \cup Topics \cup {Excel, Heart}
Buffers == {0, 1}

Empty == [st |-> "empty", seq |-> 0, val |-> None]
Resident(n, v) == [st |-> "resident", seq |-> n, val |-> v]
InFlight(n) == [st |-> "inflight", seq |-> n, val |-> None]
NoQueue == [gen |-> 0, seq |-> 0]
Inactive == [gen |-> 0, committed |-> FALSE, slots |-> [b \in Buffers |-> Empty],
             latest |-> None, next |-> 1]
Active(g, c) == [Inactive EXCEPT !.gen = g, !.committed = c]
AtRest == [pc |-> "idle", send |-> None, left |-> 0, gen |-> 0, seen |-> 0, epoch |-> 0,
           ticket |-> 0, err |-> FALSE]
Dormant == [st |-> "dormant", ticket |-> 0, attempt |-> 0]

Init ==
    /\ active = [t \in Topics |-> IF t \in Connected THEN Active(1, TRUE) ELSE Inactive]
    /\ pending = [b \in Buffers |-> [t \in Topics |-> NoQueue]]
    /\ tally = [pending |-> 0, deliverable |-> 0, count |-> [s \in Shards |-> 0], ready |-> {}]
    /\ epoch = 0
    /\ notified = None
    /\ refresh = [phase |-> "between", signal |-> Dormant, notifier |-> TRUE, next |-> 1]
    /\ batch = {}
    /\ plan = [shards |-> {}, delivered |-> FALSE]
    /\ at = [th \in Threads |-> AtRest]
    /\ locked = [s \in Shards |-> None]
    /\ server = [life |-> "open", door |-> "open", pc |-> "idle", left |-> {}]
    /\ told = FALSE
    /\ errors = 0 /\ pulses = 0
    /\ accepted = [t \in Topics |-> [gen |-> IF t \in Connected THEN 1 ELSE 0, seq |-> 0, val |-> None]]
    /\ shown = [t \in Topics |-> [g \in 1..MaxGen |-> 0]]

-----------------------------------------------------------------------------
(* Tables and counters.                                                     *)

Open == server.life = "open"
Free(s) == locked[s] = None
RefreshFree == at[Excel].pc # "snapshot"    \* plan_refresh holds the refresh lock
Buffer(e) == e % 2

Moved(local, pc) == IF pc = "idle" THEN AtRest ELSE [local EXCEPT !.pc = pc]
Go(th, pc) == at' = [at EXCEPT ![th] = Moved(@, pc)]

(* A broken variant: insertions are not counted. *)
CountsRemovals(s, entries, deliverable) ==
    [tally EXCEPT !.pending = @ + Min({entries, 0}), !.deliverable = @ + deliverable, !.count[s] = @ + deliverable]
(* Another: the ready bit stays when the last entry of the shard goes. *)
KeepsReady(s, entries, deliverable) ==
    [tally EXCEPT !.pending = @ + entries, !.deliverable = @ + deliverable, !.count[s] = @ + deliverable,
                  !.ready = IF deliverable > 0 THEN @ \cup {s} ELSE @]
\* record_pending_insert, record_pending_removal, record_deliverable_increase
\* and record_deliverable_decrease: the counters follow one change of shard s.
Tallied(s, entries, deliverable) ==
    LET before == tally.count[s]
        after == before + deliverable
    IN [pending |-> tally.pending + entries,
        deliverable |-> tally.deliverable + deliverable,
        count |-> [tally.count EXCEPT ![s] = after],
        ready |-> CASE deliverable > 0 /\ before = 0 -> tally.ready \cup {s}
                    [] deliverable < 0 /\ after = 0 -> tally.ready \ {s}
                    [] OTHER -> tally.ready]

\* Removes the queued updates of topic t in the buffers bs.
Removed(t, bs) == [b \in Buffers |-> IF b \in bs THEN [pending[b] EXCEPT ![t] = NoQueue] ELSE pending[b]]
CountRemoved(t, bs, committed) ==
    Tallied(ShardOf[t], -Cardinality(bs), IF committed THEN -Cardinality(bs) ELSE 0)

-----------------------------------------------------------------------------
(* Notification.                                                            *)

(* A broken variant: a call is numbered like the one before it. *)
SameTicket(n) == n
NextTicket(n) == n + 1

\* prepare_notification, on refresh state r; the thread goes on to drive the
\* attempt, or else to pc.
Prepare(th, r, has, pc) ==
    LET may == has /\ r.phase = "between" /\ r.signal.st = "dormant" /\ r.notifier
    IN /\ refresh' = IF may THEN [r EXCEPT !.signal = [st |-> "calling", ticket |-> r.next, attempt |-> 0],
                                           !.next = NextTicket(@)]
                     ELSE r
       /\ notified' = IF may THEN epoch ELSE notified
       /\ at' = [at EXCEPT ![th] = IF may THEN [@ EXCEPT !.pc = "call", !.ticket = r.next]
                                   ELSE Moved(@, pc)]

Continue(th) == IF at[th].left > 0 THEN "load" ELSE "idle"

\* prepare_notification_for_known_update: first without the lock, then under it.
CheckNotified(th) ==
    /\ at[th].pc = "check"
    /\ Go(th, IF notified = at[th].epoch THEN Continue(th) ELSE "prepare")
    /\ UNCHANGED <<tables, epoch, notified, refresh, batch, plan, locked, server, told, bounds, shown>>

PrepareKnown(th) ==
    /\ at[th].pc = "prepare"
    /\ RefreshFree
    /\ Prepare(th, refresh, TRUE, Continue(th))
    /\ UNCHANGED <<tables, epoch, batch, plan, locked, server, told, bounds, shown>>

\* host.notify: Excel takes the notice, or the call fails.
Call(th, ok) ==
    /\ at[th].pc = "call"
    /\ ok \/ errors < MaxErrors
    /\ told' = (told \/ ok)
    /\ errors' = IF ok THEN errors ELSE errors + 1
    /\ at' = [at EXCEPT ![th].pc = "called", ![th].err = ~ok]
    /\ UNCHANGED <<tables, epoch, notified, refresh, batch, plan, locked, server, pulses, shown>>

(* A broken variant: the answer counts for whatever call is in flight. *)
AnyTicket(th) == refresh.phase = "between" /\ refresh.signal.st = "calling"
OwnTicket(th) ==
    /\ refresh.phase = "between"
    /\ refresh.signal.st = "calling"
    /\ refresh.signal.ticket = at[th].ticket

\* finish_notification_attempt.
FinishCall(th) ==
    LET signal == refresh.signal
        retry == at[th].err /\ OwnTicket(th) /\ signal.attempt < 2
    IN /\ at[th].pc = "called"
       /\ RefreshFree
       /\ refresh' = IF ~OwnTicket(th) THEN refresh
                     ELSE [refresh EXCEPT !.signal = CASE ~at[th].err -> [@ EXCEPT !.st = "signaled"]
                                                       [] retry -> [@ EXCEPT !.attempt = @ + 1]
                                                       [] OTHER -> [@ EXCEPT !.st = "suppressed"]]
       /\ Go(th, IF retry THEN "call" ELSE Continue(th))
       /\ UNCHANGED <<tables, epoch, notified, batch, plan, locked, server, told, bounds, shown>>

-----------------------------------------------------------------------------
(* Publishing.                                                              *)

\* enter_operation, with the generation of a sink handed out earlier.
Enter(p) ==
    /\ at[p].pc = "idle"
    /\ server.door = "open"
    /\ active[TopicOf[p]].next <= MaxSeq
    /\ \E g \in 1..MaxGen, send \in Sends :
          /\ g <= accepted[TopicOf[p]].gen
          /\ at' = [at EXCEPT ![p] = [AtRest EXCEPT !.pc = "load", !.gen = g, !.send = send,
                                         !.left = IF send = "batch" THEN BatchSize ELSE 1]]
    /\ UNCHANGED <<tables, epoch, notified, refresh, batch, plan, locked, server, told, bounds, shown>>

LoadEpoch(p) ==
    /\ at[p].pc = "load"
    /\ at' = [at EXCEPT ![p] = IF Open THEN [@ EXCEPT !.pc = "lock", !.epoch = epoch] ELSE AtRest]
    /\ UNCHANGED <<tables, epoch, notified, refresh, batch, plan, locked, server, told, bounds, shown>>

\* The shard lock is taken and the epoch read again; a rotated one starts over.
LockShard(p) ==
    LET s == ShardOf[TopicOf[p]]
        same == epoch = at[p].epoch
    IN /\ at[p].pc = "lock"
       /\ Free(s)
       /\ locked' = IF same THEN [locked EXCEPT ![s] = p] ELSE locked
       /\ Go(p, IF same THEN "commit" ELSE "load")
       /\ UNCHANGED <<tables, epoch, notified, refresh, batch, plan, server, told, bounds, shown>>

\* What a publisher does after commit_value: notify, take the next value of its
\* batch (under the same lock while the epoch stands) or return.
AfterCommit(p, announce) ==
    LET left == at[p].left - 1
    IN CASE announce /\ (at[p].send = "one" \/ notified # at[p].epoch) -> "check"
         [] left = 0 -> "idle"
         [] epoch # at[p].epoch -> "load"
         [] OTHER -> "commit"

(* A broken variant: the shard lock outlives a publisher that returns. *)
KeepsLock(p, pc) ==
    /\ locked' = IF pc \in {"commit", "idle"} THEN locked ELSE [locked EXCEPT ![ShardOf[TopicOf[p]]] = None]
    /\ at' = [at EXCEPT ![p] = Moved([@ EXCEPT !.left = @ - 1], pc)]
Leave(p, pc) ==
    /\ locked' = IF pc = "commit" THEN locked ELSE [locked EXCEPT ![ShardOf[TopicOf[p]]] = None]
    /\ at' = [at EXCEPT ![p] = Moved([@ EXCEPT !.left = @ - 1], pc)]

\* commit_value refuses a sink of another generation; a batch looks at the
\* lifecycle again before every value.
CommitRefused(p) ==
    /\ at[p].pc = "commit"
    /\ active[TopicOf[p]].gen # at[p].gen \/ (at[p].send = "batch" /\ ~Open)
    /\ Leave(p, "idle")
    /\ UNCHANGED <<tables, epoch, notified, refresh, batch, plan, server, told, bounds, shown>>

MayCommit(p) ==
    /\ at[p].pc = "commit"
    /\ active[TopicOf[p]].gen = at[p].gen
    /\ at[p].send = "batch" => Open

(* A broken variant: equality is tested against the buffer being written. *)
SameInBuffer(a, b, v) == a.slots[b].st = "resident" /\ a.slots[b].val = v
SameAsLatest(a, b, v) ==
    /\ a.latest # None
    /\ a.slots[a.latest].st = "resident"
    /\ a.slots[a.latest].val = v

Entries == {e \in Buffers \X Topics : pending[e[1]][e[2]].gen # 0}

\* commit_value: an equal value is dropped and an exhausted sequence refused; a
\* new entry needs the quota, but a refused one has consumed its sequence;
\* otherwise the value becomes the latest.
CommitValue(p, v) ==
    LET t == TopicOf[p]
        a == active[t]
        b == Buffer(at[p].epoch)
        new == pending[b][t].gen = 0
    IN /\ MayCommit(p)
       /\ IF SameAsLatest(a, b, v)
          THEN /\ Leave(p, AfterCommit(p, FALSE))
               /\ accepted' = [accepted EXCEPT ![t].val = v]
               /\ UNCHANGED <<active, pending, tally>>
          ELSE IF a.next > MaxSeq \/ (new /\ Cardinality(Entries) >= QueueLimit)
          THEN /\ active' = [active EXCEPT ![t].next = Min({@, MaxSeq}) + 1]
               /\ Leave(p, "idle")
               /\ UNCHANGED <<pending, tally, accepted>>
          ELSE /\ active' = [active EXCEPT ![t] = [@ EXCEPT !.next = @ + 1, !.latest = b,
                                                      !.slots[b] = Resident(a.next, v)]]
               /\ pending' = [pending EXCEPT ![b][t] = [gen |-> a.gen, seq |-> a.next]]
               /\ tally' = IF new THEN Tallied(ShardOf[t], 1, IF a.committed THEN 1 ELSE 0) ELSE tally
               /\ accepted' = [accepted EXCEPT ![t].seq = a.next, ![t].val = v]
               /\ Leave(p, AfterCommit(p, a.committed))
       /\ UNCHANGED <<epoch, notified, refresh, batch, plan, server, told, bounds, shown>>

-----------------------------------------------------------------------------
(* Refresh, driven by Excel.                                                *)

Busy(pc) == at[Excel].pc = pc

\* plan_refresh: the epoch advances before the ready shards are read, both
\* under the refresh lock, neither under a shard lock.
Plan ==
    /\ Busy("idle")
    /\ told \/ epoch < MaxEpoch
    /\ server.door = "open" /\ Open
    /\ refresh.phase = "between"
    /\ told' = FALSE
    /\ epoch' = epoch + 1
    /\ refresh' = [refresh EXCEPT !.phase = "refreshing", !.signal = Dormant]
    /\ Go(Excel, "snapshot")
    /\ UNCHANGED <<tables, notified, batch, plan, locked, server, bounds, shown>>

Snapshot ==
    /\ Busy("snapshot")
    /\ plan' = [plan EXCEPT !.shards = tally.ready]
    /\ Go(Excel, "collect")
    /\ UNCHANGED <<tables, epoch, notified, refresh, batch, locked, server, told, bounds, shown>>

NewestBuffer(t, bs) == CHOOSE b \in bs : \A o \in bs : pending[o][t].seq <= pending[b][t].seq

\* collect_shard_into and push_deliverable: the newest queued update of each
\* committed connection, whose value leaves its slot for the batch.
Deliverable(s) ==
    LET of(t) == {b \in Buffers : pending[b][t].gen # 0 /\ pending[b][t].gen = active[t].gen}
    IN {[t |-> t, buf |-> NewestBuffer(t, of(t)), gen |-> active[t].gen,
         seq |-> pending[NewestBuffer(t, of(t))][t].seq,
         val |-> active[t].slots[NewestBuffer(t, of(t))].val] :
            t \in {u \in Topics : /\ ShardOf[u] = s /\ active[u].committed /\ of(u) # {}
                                  /\ LET b == NewestBuffer(u, of(u))
                                     IN /\ active[u].slots[b].st = "resident"
                                        /\ active[u].slots[b].seq = pending[b][u].seq}}

CollectShard(s) ==
    LET new == IF tally.count[s] = 0 THEN {} ELSE Deliverable(s)
    IN /\ Busy("collect")
       /\ s \in plan.shards /\ Free(s)
       /\ batch' = batch \cup new
       /\ active' = [t \in Topics |->
                       IF \E u \in new : u.t = t
                       THEN LET u == CHOOSE x \in new : x.t = t
                            IN [active[t] EXCEPT !.slots[u.buf] = InFlight(u.seq)]
                       ELSE active[t]]
       /\ plan' = [plan EXCEPT !.shards = @ \ {s}]
       /\ UNCHANGED <<pending, tally, accepted, epoch, notified, refresh, at, locked, server, told, bounds, shown>>

\* The batch is handed to Excel, or building or writing its array fails.
Handoff(ok) ==
    /\ Busy("collect") /\ plan.shards = {}
    /\ ok \/ errors < MaxErrors
    /\ errors' = IF ok THEN errors ELSE errors + 1
    /\ plan' = [plan EXCEPT !.delivered = ok]
    /\ shown' = [t \in Topics |-> [g \in 1..MaxGen |->
                   IF ok /\ \E u \in batch : u.t = t /\ u.gen = g
                   THEN (CHOOSE u \in batch : u.t = t).seq ELSE shown[t][g]]]
    /\ Go(Excel, "complete")
    /\ UNCHANGED <<tables, epoch, notified, refresh, batch, locked, server, told, pulses>>

(* A broken variant: delivery retires whatever is queued for the connection. *)
RetiresAll(u, q) == q.gen = u.gen
(* Another: only the delivered entry itself is retired. *)
RetiresExact(u, q) == q.gen = u.gen /\ q.seq = u.seq
Retires(u, q) == q.gen = u.gen /\ q.seq <= u.seq

SlotAfter(a, u) ==
    IF plan.delivered /\ a.latest # u.buf THEN Empty ELSE Resident(u.seq, u.val)

\* complete_refresh_inner, one update: the value returns to its slot unless a
\* newer one took it; delivery retires the queue through the sequence and
\* releases superseded values.
Completed(u) ==
    LET t == u.t
        a == active[t]
        mine == a.gen = u.gen /\ a.slots[u.buf] = InFlight(u.seq)
        back == IF mine THEN [a EXCEPT !.slots[u.buf] = SlotAfter(a, u)] ELSE a
        retired == {b \in Buffers : plan.delivered /\ pending[b][t].gen # 0 /\ Retires(u, pending[b][t])}
        queue == Removed(t, retired)
        stale(b) == /\ plan.delivered /\ a.gen = u.gen
                    /\ back.slots[b].st = "resident" /\ back.slots[b].seq <= u.seq
                    /\ a.latest # b /\ queue[b][t].gen = 0
    IN [pending |-> queue,
        tally |-> CountRemoved(t, retired, a.committed),
        active |-> [active EXCEPT ![t] = [back EXCEPT !.slots =
                      [b \in Buffers |-> IF stale(b) THEN Empty ELSE back.slots[b]]]]]

\* The shard lock is held through the updates of a shard; each is a step here,
\* since no other thread's step depends on more than one of them.
CompleteUpdate(u) ==
    /\ Busy("complete")
    /\ u \in batch /\ Free(ShardOf[u.t])
    /\ active' = Completed(u).active /\ pending' = Completed(u).pending /\ tally' = Completed(u).tally
    /\ batch' = batch \ {u}
    /\ UNCHANGED <<accepted, epoch, notified, refresh, plan, at, locked, server, told, bounds, shown>>

(* A broken variant: the end of a refresh leaves rearming to the next publisher. *)
NeverRearms == FALSE
Rearms == tally.deliverable # 0

FinishRefresh ==
    /\ Busy("complete") /\ batch = {}
    /\ Prepare(Excel, [refresh EXCEPT !.phase = "between", !.signal = Dormant], Rearms, "idle")
    /\ UNCHANGED <<tables, epoch, batch, plan, locked, server, told, bounds, shown>>

-----------------------------------------------------------------------------
(* Heartbeat and notifier.                                                  *)

(* A broken variant: the heartbeat only repeats notices that were prepared before. *)
OnlyRepeats == tally.deliverable # 0 /\ refresh.signal.st # "dormant"
PulseNeeded == tally.deliverable # 0

\* pulse_notification: an unanswered or given-up notice is repeated.
Pulse ==
    LET again == PulseNeeded /\ refresh.phase = "between"
                 /\ refresh.signal.st \in {"signaled", "suppressed"}
    IN /\ "pulse" \in Ops
       /\ at[Heart].pc = "idle" /\ server.door = "open" /\ Open /\ RefreshFree
       /\ told => pulses < MaxPulses
       /\ pulses' = IF told THEN pulses + 1 ELSE pulses
       /\ Prepare(Heart, IF again THEN [refresh EXCEPT !.signal = Dormant] ELSE refresh,
                  PulseNeeded, "idle")
       /\ UNCHANGED <<tables, epoch, batch, plan, locked, server, told, errors, shown>>

\* attach_update_notifier and detach_update_notifier both forget the signal.
Attach ==
    /\ "attach" \in Ops
    /\ at[Heart].pc = "idle" /\ server.door = "open" /\ Open /\ RefreshFree
    /\ ~refresh.notifier
    /\ pulses < MaxPulses /\ pulses' = pulses + 1
    /\ Prepare(Heart, [refresh EXCEPT !.notifier = TRUE, !.signal = Dormant], tally.deliverable # 0, "idle")
    /\ UNCHANGED <<tables, epoch, batch, plan, locked, server, told, errors, shown>>

Detached == refresh' = [refresh EXCEPT !.notifier = FALSE, !.signal = Dormant]

Detach ==
    /\ "attach" \in Ops
    /\ RefreshFree /\ refresh.notifier
    /\ Detached
    /\ UNCHANGED <<tables, epoch, notified, batch, plan, at, locked, server, told, bounds, shown>>

-----------------------------------------------------------------------------
(* Connections.                                                             *)

Reserve(t) ==
    /\ "connect" \in Ops
    /\ at[t].pc = "idle" /\ server.door = "open" /\ Open /\ Free(ShardOf[t])
    /\ active[t].gen = 0
    /\ accepted[t].gen < MaxGen
    /\ LET g == accepted[t].gen + 1
       IN /\ active' = [active EXCEPT ![t] = Active(g, FALSE)]
          /\ accepted' = [accepted EXCEPT ![t] = [gen |-> g, seq |-> 0, val |-> None]]
          /\ at' = [at EXCEPT ![t] = [AtRest EXCEPT !.pc = "reserved", !.gen = g]]
    /\ UNCHANGED <<pending, tally, epoch, notified, refresh, batch, plan, locked, server, told, bounds, shown>>

Own(t) == Open /\ active[t].gen = at[t].gen

\* install_connection: the value to answer ConnectData with, and the newest
\* queued sequence it stands for.
Install(t) ==
    /\ at[t].pc = "reserved" /\ Free(ShardOf[t])
    /\ at' = [at EXCEPT ![t] = IF Own(t)
                 THEN [@ EXCEPT !.pc = "installed",
                                !.seen = Max({0} \cup {pending[b][t].seq : b \in {x \in Buffers : pending[x][t].gen = at[t].gen}})]
                 ELSE [@ EXCEPT !.pc = "rollback"]]
    /\ UNCHANGED <<tables, epoch, notified, refresh, batch, plan, locked, server, told, bounds, shown>>

\* The source refuses, or the connection is dropped before it is committed.
Abandon(t) ==
    /\ at[t].pc \in {"reserved", "installed"}
    /\ Go(t, "rollback")
    /\ UNCHANGED <<tables, epoch, notified, refresh, batch, plan, locked, server, told, bounds, shown>>

(* A broken variant: everything queued while connecting counts as observed. *)
ObservesAll(t, q) == q.gen # 0
Observed(t, q) == q.gen # 0 /\ q.seq <= at[t].seen

\* commit_connection: what ConnectData answered is no longer pending, the rest
\* becomes deliverable and is announced.
CommitConnection(t) ==
    LET gone == {b \in Buffers : Observed(t, pending[b][t])}
        kept == {b \in Buffers : pending[b][t].gen = at[t].gen} \ gone
    IN /\ at[t].pc = "installed" /\ Free(ShardOf[t])
       /\ IF Own(t)
          THEN /\ active' = [active EXCEPT ![t].committed = TRUE]
               /\ pending' = Removed(t, gone)
               /\ tally' = Tallied(ShardOf[t], -Cardinality(gone), Cardinality(kept))
               /\ shown' = [shown EXCEPT ![t][at[t].gen] = at[t].seen]
               /\ at' = [at EXCEPT ![t] = IF kept = {} THEN AtRest ELSE [@ EXCEPT !.pc = "check", !.epoch = epoch]]
          ELSE Go(t, "rollback") /\ UNCHANGED <<active, pending, tally, shown>>
       /\ UNCHANGED <<accepted, epoch, notified, refresh, batch, plan, locked, server, told, bounds>>

(* A broken variant: the queue keeps the entries of the connection. *)
KeepsQueue(t, g) == {}
QueuedBy(t, g) == {b \in Buffers : pending[b][t].gen = g}

\* rollback_connection, which does not ask whether the server is open.
Rollback(t) ==
    LET gone == QueuedBy(t, at[t].gen)
    IN /\ at[t].pc = "rollback" /\ Free(ShardOf[t])
       /\ pending' = Removed(t, gone)
       /\ tally' = CountRemoved(t, gone, active[t].committed)
       /\ active' = IF active[t].gen = at[t].gen THEN [active EXCEPT ![t] = Inactive] ELSE active
       /\ Go(t, "idle")
       /\ UNCHANGED <<accepted, epoch, notified, refresh, batch, plan, locked, server, told, bounds, shown>>

Disconnect(t) ==
    /\ "disconnect" \in Ops
    /\ server.door = "open" /\ Open /\ Free(ShardOf[t])
    /\ active[t].gen # 0
    /\ pending' = Removed(t, Buffers)
    /\ tally' = CountRemoved(t, {b \in Buffers : pending[b][t].gen # 0}, active[t].committed)
    /\ active' = [active EXCEPT ![t] = Inactive]
    /\ UNCHANGED <<accepted, epoch, notified, refresh, batch, plan, at, locked, server, told, bounds, shown>>

-----------------------------------------------------------------------------
(* Termination: begin_termination, the wait for the gate, finish_termination. *)

StopSeal ==
    /\ "stop" \in Ops
    /\ server.pc = "idle"
    /\ server' = [server EXCEPT !.pc = "sealed", !.door = "sealed"]
    /\ UNCHANGED <<tables, epoch, notified, refresh, batch, plan, at, locked, told, bounds, shown>>

StopClosing ==
    /\ server.pc = "sealed"
    /\ server' = [server EXCEPT !.pc = "detach", !.life = "closing"]
    /\ UNCHANGED <<tables, epoch, notified, refresh, batch, plan, at, locked, told, bounds, shown>>

StopDetach ==
    /\ server.pc = "detach" /\ RefreshFree
    /\ server' = [server EXCEPT !.pc = "clear", !.left = Shards]
    /\ Detached
    /\ UNCHANGED <<tables, epoch, notified, batch, plan, at, locked, told, bounds, shown>>

\* clear_pending empties the shards one lock at a time, then the counters.
ClearShard(s) ==
    /\ server.pc = "clear"
    /\ s \in server.left /\ Free(s)
    /\ pending' = [b \in Buffers |-> [t \in Topics |-> IF ShardOf[t] = s THEN NoQueue ELSE pending[b][t]]]
    /\ tally' = [tally EXCEPT !.count[s] = 0]
    /\ server' = [server EXCEPT !.left = @ \ {s}]
    /\ UNCHANGED <<active, accepted, epoch, notified, refresh, batch, plan, at, locked, told, bounds, shown>>

ClearCounters ==
    /\ server.pc = "clear" /\ server.left = {}
    /\ server' = [server EXCEPT !.pc = "drain"]
    /\ tally' = [tally EXCEPT !.pending = 0, !.deliverable = 0, !.ready = {}]
    /\ UNCHANGED <<active, pending, accepted, epoch, notified, refresh, batch, plan, at, locked, told, bounds, shown>>

(* A broken variant: the tables are taken without waiting for the gate. *)
TakesNow == TRUE
Drained == \A th \in Threads : at[th].pc = "idle"

FinishTermination ==
    /\ server.pc = "drain" /\ Drained
    /\ server' = [server EXCEPT !.pc = "done", !.life = "terminated"]
    /\ Detached
    /\ active' = [t \in Topics |-> Inactive]
    /\ pending' = [b \in Buffers |-> [t \in Topics |-> NoQueue]]
    /\ tally' = [pending |-> 0, deliverable |-> 0, count |-> [s \in Shards |-> 0], ready |-> {}]
    /\ UNCHANGED <<accepted, epoch, notified, batch, plan, at, locked, told, bounds, shown>>

-----------------------------------------------------------------------------
ThreadStep(th) ==
    CheckNotified(th) \/ PrepareKnown(th) \/ (\E ok \in BOOLEAN : Call(th, ok)) \/ FinishCall(th)

Publish(p) ==
    \/ LoadEpoch(p) \/ LockShard(p) \/ CommitRefused(p)
    \/ \E v \in Values : CommitValue(p, v)

Refresh ==
    \/ Snapshot \/ (\E s \in Shards : CollectShard(s))
    \/ (\E ok \in BOOLEAN : Handoff(ok)) \/ (\E u \in batch : CompleteUpdate(u)) \/ FinishRefresh

Connect(t) == Install(t) \/ CommitConnection(t) \/ Rollback(t)

Stop ==
    \/ StopClosing \/ StopDetach \/ (\E s \in Shards : ClearShard(s)) \/ ClearCounters \/ FinishTermination

Quiet == \A th \in Threads : at[th].pc = "idle"
Finished == Quiet /\ server.pc \in {"idle", "done"} /\ UNCHANGED vars

Next ==
    \/ \E th \in Threads : ThreadStep(th)
    \/ \E p \in Publishers : Enter(p) \/ Publish(p)
    \/ Plan \/ Refresh \/ Pulse \/ Attach \/ Detach
    \/ \E t \in Topics : Reserve(t) \/ Abandon(t) \/ Connect(t) \/ Disconnect(t)
    \/ StopSeal \/ Stop \/ Finished

Spec == Init /\ [][Next]_vars

\* Threads run, shard locks are eventually fair, Excel pulses and answers notices.
Fairness ==
    /\ \A th \in Threads : WF_vars(ThreadStep(th))
    /\ \A p \in Publishers : SF_vars(Publish(p))
    /\ WF_vars(told /\ Plan) /\ SF_vars(Refresh)
    /\ \A o \in Ops \cap {"pulse"} : SF_vars(Pulse)
    /\ \A o \in Ops \cap {"connect"}, t \in Topics : SF_vars(Connect(t))
    /\ \A o \in Ops \cap {"stop"} : SF_vars(Stop)

LiveSpec == Spec /\ Fairness

-----------------------------------------------------------------------------
(* Properties.                                                              *)

\* The tables, counters and thread states stay in their ranges.
TypeOK ==
    /\ \A t \in Topics : active[t].gen \in 0..MaxGen /\ active[t].next \in 1..MaxSeq + 1
    /\ tally.pending \in 0..2 * Cardinality(Topics) /\ tally.deliverable \in 0..tally.pending
    /\ tally.ready \subseteq Shards /\ refresh.signal.st \in {"dormant", "calling", "signaled", "suppressed"}
    /\ \A s \in Shards : locked[s] \in Publishers \cup {None}
    /\ server.life \in {"open", "closing", "terminated"}

CommittedEntries(s) == {e \in Entries : ShardOf[e[2]] = s /\ active[e[2]].committed}

\* While the server is open, the lock-free counters and the ready mask agree
\* with the shard tables: refresh planning and rearming read only the former.
CountersAgree ==
    Open => /\ tally.pending = Cardinality(Entries)
            /\ \A s \in Shards : tally.count[s] = Cardinality(CommittedEntries(s))
            /\ tally.deliverable = SumFunction(tally.count)
            /\ tally.ready = {s \in Shards : tally.count[s] > 0}

\* The value of the queued update e is in its slot or in the running batch.
Held(t, b) ==
    LET q == pending[b][t]
    IN \/ active[t].slots[b].st = "resident" /\ active[t].slots[b].seq = q.seq
       \/ \E u \in batch : u.t = t /\ u.gen = q.gen /\ u.seq = q.seq

\* No accepted value is lost (delivery.rs: "losing the update is not"): the last
\* value a committed connection accepted is what Excel holds, or it is queued
\* and its payload is in its slot or in the running batch.
NothingLost ==
    \A t \in Topics : Open /\ active[t].committed =>
        LET g == active[t].gen
        IN \/ shown[t][g] = accepted[t].seq
           \/ \E b \in Buffers : /\ pending[b][t] = [gen |-> g, seq |-> accepted[t].seq]
                                  /\ Held(t, b)

\* Dropping an equal value never drops news: a resident latest value is the last
\* one its source published, whichever buffers and refreshes lie in between.
DedupIsExact ==
    \A t \in Topics :
        LET a == active[t]
        IN a.latest # None => \/ a.slots[a.latest].st # "resident"
                              \/ a.slots[a.latest].val = accepted[t].val

\* Excel never receives an older value of a connection after a newer one.
DeliveredInOrder ==
    [][\A t \in Topics, g \in 1..MaxGen : shown'[t][g] >= shown[t][g]]_vars

\* A call in flight belongs to one thread: heartbeat, refresh and publishers
\* never ring Excel twice under one ticket.
OneCallPerTicket ==
    \A th, other \in Threads :
        at[th].pc \in {"call", "called"} /\ at[other].pc \in {"call", "called"}
            => (th = other \/ at[th].ticket # at[other].ticket)

\* A signaled notice was really taken by Excel and not answered since.
SignaledIsTold == refresh.signal.st = "signaled" => told

\* A terminated server keeps no connection and no queued update, and none
\* appears later: its gate had drained.
TerminatedIsEmpty ==
    server.life = "terminated" =>
        /\ Entries = {} /\ batch = {}
        /\ \A t \in Topics : active[t].gen = 0

\* An update of a committed connection is signalled, or will be: somebody is on
\* the way to prepare, or is making, a call (guide/src/rtd.md: "Later
\* publications update the topic and notify Excel").
DeliverableIsSignalled ==
    Quiet /\ Open /\ refresh.notifier /\ tally.deliverable > 0 => refresh.signal.st # "dormant"

\* No counter is decremented below zero, which fail-stops the process.
NoUnderflow ==
    /\ tally.pending >= 0 /\ tally.deliverable >= 0
    /\ \A s \in Shards : tally.count[s] >= 0

\* Every accepted value reaches Excel, is superseded by a newer one that does,
\* or its connection or the server ends.
AcceptedIsDelivered ==
    \A t \in Topics, g \in 1..MaxGen, n \in 1..MaxSeq :
        (active[t].gen = g /\ active[t].committed /\ accepted[t].seq = n)
            ~> (shown[t][g] >= n \/ active[t].gen # g \/ ~Open)

\* Termination of a server completes.
StopCompletes == (server.pc # "idle") ~> (server.pc = "done")
=============================================================================
