------------------------- MODULE CalculationCache -------------------------
(***************************************************************************)
(* The calculation cache of one endpoint: a value is computed once by the  *)
(* leader of a flight, followers adopt it, a resident index of bounded     *)
(* weight answers later lookups, and clear starts a new epoch.             *)
(*                                                                         *)
(* A node lives as long as something pins it: a lease, its creator, the    *)
(* index, or the anchor a finished flight keeps for its followers.  The    *)
(* last pin retires the node; it is destroyed after the lookups that may   *)
(* still hold its address, and never under a lock of the cache.  The read  *)
(* domain is the contract of RotatingReadDomain.                           *)
(***************************************************************************)
EXTENDS Naturals, FiniteSets, FiniteSetsExt, SequencesExt

CONSTANTS Threads, Keys,
          Ops,            \* subset of {"get", "insert", "nested", "clear", "drop"}
          Weights,        \* what the weigher may measure
          Budget,         \* weight_budget
          Backpressure,   \* RECLAIM_BACKPRESSURE_NODES
          MaxNode, MaxEpoch, MaxRequests

VARIABLES epoch,          \* CacheGeneration
          nodes,          \* CacheNode by address; freed once destroyed
          index,          \* ResidentIndex: <<key, epoch>> -> node
          flights,        \* FlightRegistry and flights still referenced
          locks,          \* holders of the shard lock and of clear_lock
          domain,         \* read domain: current and pending generation, queues, lock, closed
          pending,        \* pending_nodes, pending_weight
          requests,       \* maintenance_requests
          threads

vars == <<epoch, nodes, index, flights, locks, domain, pending, requests, threads>>
values == <<epoch, nodes, index, flights>>
reclaiming == <<domain, pending, requests>>

Outside == 2                                     \* no read permit
Node == 1..MaxNode

\* A thread: the steps it still has to take, the call it is in, the versioned key, its
\* permit, an observed address, its lease, the node it created, entries it must retire,
\* a detached batch, the batches deferred to the end of the call, requests it serves.
Idle == [todo |-> <<>>, op |-> "none", vkey |-> <<>>, gen |-> Outside, seen |-> 0, lease |-> 0,
         made |-> 0, flight |-> 0, active |-> FALSE, retire |-> {}, batch |-> {}, taken |-> {},
         deferred |-> {}, serves |-> 0]

Init ==
  /\ epoch = 0 /\ nodes = <<>> /\ index = [k \in {} |-> 0] /\ flights = [f \in {} |-> 0]
  /\ locks = [shard |-> {}, clear |-> {}]
  /\ domain = [cur |-> 0, rotating |-> FALSE, queue |-> [g \in 0..1 |-> {}], lock |-> {}, closed |-> FALSE]
  /\ pending = [nodes |-> 0, weight |-> 0] /\ requests = 0
  /\ threads = [t \in Threads |-> Idle]

At(t, at) == threads[t].todo # <<>> /\ Head(threads[t].todo) = at
Free(t) == threads[t].todo = <<>>
Then(th, more) == [th EXCEPT !.todo = more \o Tail(@)]
Goes(t, th) == threads' = [threads EXCEPT ![t] = th]

Without(f, x) == [y \in DOMAIN f \ {x} |-> f[y]]
With(f, x, v) == [y \in DOMAIN f \cup {x} |-> IF y = x THEN v ELSE f[y]]
Reading(g) == {t \in Threads : threads[t].gen = g}
Queued == domain.queue[0] \cup domain.queue[1]
WeightOf(S) == MapThenSumSet(LAMBDA n : nodes[n].weight, S)
Registered(vk) == {f \in DOMAIN flights : flights[f].registered /\ flights[f].vkey = vk}

---------------------------------------------------------------------------
\* Pins.

\* ReclaimEntry::release_pin, and what its owner does with the last pin.
LastPin(n) == nodes[n].pins = 1
Unpinned(n) == [nodes EXCEPT ![n].pins = @ - 1]

\* ReclaimEntry::enqueue: into the queue of the current generation, counted under its lock.
Enqueue(t) ==
  /\ At(t, "enqueue")
  /\ domain' = [domain EXCEPT !.queue[domain.cur] = @ \cup {threads[t].seen}]
  /\ pending' = [nodes |-> pending.nodes + 1, weight |-> pending.weight + nodes[threads[t].seen].weight]
  /\ Goes(t, [Then(threads[t], <<>>) EXCEPT !.seen = 0])
  /\ UNCHANGED <<values, locks, requests>>

\* release_node_pin: a node no lookup can know is destroyed at once.
ReleasePin(t, n, th) ==
  /\ nodes' = Unpinned(n)
  /\ Goes(t, IF ~LastPin(n) THEN th
             ELSE IF ~nodes[n].published /\ ~th.active
             THEN [th EXCEPT !.seen = n, !.todo = <<"free">> \o @]
             ELSE [th EXCEPT !.seen = n, !.todo = <<"enqueue", "quiesce">> \o @])

\* ResidentPin::drop: the entry is no longer resident, then its pin is returned.
Retire(t) ==
  /\ At(t, "retire")
  /\ IF threads[t].retire = {} THEN Goes(t, Then(threads[t], <<>>)) /\ UNCHANGED nodes
     ELSE LET n == CHOOSE x \in threads[t].retire : TRUE
          IN /\ nodes' = [nodes EXCEPT ![n].resident = FALSE]
             /\ Goes(t, [threads[t] EXCEPT !.todo = <<"unpin">> \o @, !.seen = n, !.retire = @ \ {n}])
  /\ UNCHANGED <<epoch, index, flights, locks, reclaiming>>
Unpin(t) ==
  /\ At(t, "unpin") /\ nodes' = Unpinned(threads[t].seen)
  /\ Goes(t, IF LastPin(threads[t].seen) THEN Then(threads[t], <<"enqueue">>)
             ELSE [Then(threads[t], <<>>) EXCEPT !.seen = 0])
  /\ UNCHANGED <<epoch, index, flights, locks, reclaiming>>

---------------------------------------------------------------------------
\* Reclamation.

\* maintain_after_reader, maintain and quiesce_and_drain choose between a poll and a wait.
Due == IF domain.rotating THEN 1 - domain.cur ELSE domain.cur
Heavy == pending.nodes >= Backpressure \/ pending.weight >= IF Budget = 0 THEN 1 ELSE Budget

Maintain(t) ==
  /\ \/ At(t, "maintain") /\ Goes(t, Then(threads[t], <<"try">>))
     \/ /\ At(t, "maintain mutation")
        /\ Goes(t, Then(threads[t], IF Heavy /\ ~threads[t].active THEN <<"quiesce">> ELSE <<"try">>))
  /\ UNCHANGED <<values, locks, reclaiming>>

\* try_quiesce_and_drain: one driver at a time, which serves the requests made meanwhile.
Try(t) ==
  /\ At(t, "try")
  /\ Goes(t, Then(threads[t], IF pending.nodes = 0 THEN <<>> ELSE <<"ask">>))
  /\ UNCHANGED <<values, locks, reclaiming>>
Ask(t) ==
  /\ At(t, "ask") /\ requests' = requests + 1
  /\ Goes(t, [Then(threads[t], IF requests = 0 THEN <<"poll", "destroy">> ELSE <<>>)
                EXCEPT !.serves = IF requests = 0 THEN 1 ELSE 0])
  /\ UNCHANGED <<values, locks, domain, pending>>

(* A broken variant: a queue is taken while a lookup of its generation holds an address. *)
NeverBusy == FALSE
Busy == Reading(Due) # {}
Poll(t) ==
  /\ At(t, "poll")
  /\ IF pending.nodes = 0 \/ domain.lock # {} \/ domain.closed
     THEN Goes(t, Then(threads[t], <<"settle">>)) /\ UNCHANGED domain
     ELSE IF Busy
     THEN Goes(t, Then(threads[t], <<"settle">>)) /\ domain' = [domain EXCEPT !.rotating = TRUE, !.cur = 1 - Due]
     ELSE /\ domain' = [domain EXCEPT !.rotating = FALSE, !.cur = 1 - Due, !.queue[Due] = {}]
          /\ Goes(t, [Then(threads[t], <<"account", "poll">>) EXCEPT !.taken = domain.queue[Due]])
  /\ UNCHANGED <<values, locks, pending, requests>>
(* A broken variant: the driver forgets the requests made while it worked. *)
Dismisses(t) == 0
Remaining(t) == requests - threads[t].serves
Settle(t) ==
  /\ At(t, "settle") /\ requests' = Remaining(t)
  /\ Goes(t, [Then(threads[t], IF Remaining(t) = 0 THEN <<>> ELSE <<"poll">>) EXCEPT !.serves = Remaining(t)])
  /\ UNCHANGED <<values, locks, domain, pending>>

\* ReclaimEntries::account: a taken queue becomes a batch and leaves the pending counts.
Account(t) ==
  /\ At(t, "account")
  /\ pending' = [nodes |-> pending.nodes - Cardinality(threads[t].taken),
                 weight |-> pending.weight - WeightOf(threads[t].taken)]
  /\ Goes(t, [Then(threads[t], <<>>) EXCEPT !.batch = @ \cup threads[t].taken, !.taken = {}])
  /\ UNCHANGED <<values, locks, domain, requests>>

\* quiesce_and_drain: an initializer polls; others wait, holding the lock of the domain,
\* for a rotation in progress and then for their own.
Quiesce(t) ==
  /\ At(t, "quiesce")
  /\ \/ threads[t].active /\ Goes(t, Then(threads[t], <<"try">>)) /\ UNCHANGED domain
     \/ /\ ~threads[t].active /\ domain.lock = {}
        /\ domain' = [domain EXCEPT !.lock = {t}, !.rotating = TRUE, !.cur = 1 - Due]
        /\ Goes(t, Then(threads[t], IF domain.rotating
                                    THEN <<"drain", "turn", "drain", "unlock", "account", "destroy">>
                                    ELSE <<"drain", "unlock", "account", "destroy">>))
  /\ UNCHANGED <<values, locks, pending, requests>>
Drain(t) ==
  /\ At(t, "drain") /\ ~Busy
  /\ domain' = [domain EXCEPT !.rotating = FALSE, !.queue[Due] = {}]
  /\ Goes(t, [Then(threads[t], <<>>) EXCEPT !.taken = @ \cup domain.queue[Due]])
  /\ UNCHANGED <<values, locks, pending, requests>>
Turn(t) ==
  /\ \/ At(t, "turn") /\ domain' = [domain EXCEPT !.rotating = TRUE, !.cur = 1 - @]
     \/ At(t, "unlock") /\ domain' = [domain EXCEPT !.lock = {}]
  /\ Goes(t, Then(threads[t], <<>>))
  /\ UNCHANGED <<values, locks, pending, requests>>

\* reclaim_cache_entries: inside a call or an initializer the batch is kept for the end
\* of the outermost one (deferred_drop::defer); else it is destroyed here.
(* A broken variant: a detached batch is destroyed where it was detached. *)
NeverDefers(th) == FALSE
DestructionDeferred(th) == th.active \/ th.op \in {"get", "insert"}
Freed(S) == [n \in DOMAIN nodes |-> IF n \in S THEN [nodes[n] EXCEPT !.freed = TRUE] ELSE nodes[n]]
Destroy(t) ==
  /\ At(t, "destroy")
  /\ LET th == Then(threads[t], <<>>)
     IN IF DestructionDeferred(th)
        THEN /\ Goes(t, [th EXCEPT !.deferred = @ \cup th.batch, !.batch = {}]) /\ UNCHANGED nodes
        ELSE /\ nodes' = Freed(th.batch) /\ Goes(t, [th EXCEPT !.batch = {}])
  /\ UNCHANGED <<epoch, index, flights, locks, reclaiming>>
\* NeverPublished::reclaim.
Free1(t) ==
  /\ At(t, "free") /\ nodes' = Freed({threads[t].seen})
  /\ Goes(t, [Then(threads[t], <<>>) EXCEPT !.seen = 0])
  /\ UNCHANGED <<epoch, index, flights, locks, reclaiming>>
\* CacheOperationGuard::drop flushes what the call deferred.
Flush(t) ==
  /\ At(t, "flush") /\ nodes' = Freed(threads[t].deferred)
  /\ Goes(t, [Idle EXCEPT !.lease = threads[t].lease, !.todo = Tail(threads[t].todo)])
  /\ UNCHANGED <<epoch, index, flights, locks, reclaiming>>

---------------------------------------------------------------------------
\* get_at_epoch: the address is read and checked under a permit of the domain.

Lookup == <<"enter", "look", "check">>
Enter(t) ==
  /\ At(t, "enter") /\ Goes(t, [Then(threads[t], <<>>) EXCEPT !.gen = domain.cur])
  /\ UNCHANGED <<values, locks, reclaiming>>
Look(t) ==
  /\ At(t, "look")
  /\ LET vk == threads[t].vkey
     IN Goes(t, [Then(threads[t], <<>>) EXCEPT !.seen = IF vk \in DOMAIN index THEN index[vk] ELSE 0])
  /\ UNCHANGED <<values, locks, reclaiming>>
Eligible(n, vk) == nodes[n].epoch = vk[2] /\ nodes[n].resident
Check(t) ==
  /\ At(t, "check")
  /\ LET n == threads[t].seen
     IN IF n = 0 THEN Goes(t, Then(threads[t], <<"leave">>))
        ELSE IF ~Eligible(n, threads[t].vkey) THEN Goes(t, [Then(threads[t], <<"leave">>) EXCEPT !.seen = 0])
        ELSE Goes(t, Then(threads[t], <<"pin">>))
  /\ UNCHANGED <<values, locks, reclaiming>>
\* try_acquire_pin: zero pins is terminal.
(* A broken variant: a lookup revives a node whose last pin was returned. *)
Revives(n) == TRUE
MayPin(n) == nodes[n].pins > 0
Pin(t) ==
  /\ At(t, "pin")
  /\ LET n == threads[t].seen
     IN IF MayPin(n)
        THEN nodes' = [nodes EXCEPT ![n].pins = @ + 1] /\ Goes(t, Then(threads[t], <<"recheck">>))
        ELSE UNCHANGED nodes /\ Goes(t, [Then(threads[t], <<"leave">>) EXCEPT !.seen = 0])
  /\ UNCHANGED <<epoch, index, flights, locks, reclaiming>>
\* The pin is kept only if the node is still resident; else it is rolled back, and a
\* node whose last pin that was is retired after the permit was returned.
Recheck(t) ==
  /\ At(t, "recheck")
  /\ LET n == threads[t].seen
     IN IF nodes[n].resident
        THEN UNCHANGED nodes /\ Goes(t, [Then(threads[t], <<"leave">>) EXCEPT !.lease = n, !.seen = 0])
        ELSE /\ nodes' = Unpinned(n)
             /\ Goes(t, IF LastPin(n) THEN Then(threads[t], <<"leave", "enqueue">>)
                        ELSE [Then(threads[t], <<"leave">>) EXCEPT !.seen = 0])
  /\ UNCHANGED <<epoch, index, flights, locks, reclaiming>>
\* CacheDomainPermit::drop, then maintain_after_reader.
Leave(t) ==
  /\ At(t, "leave")
  /\ Goes(t, [Then(threads[t], <<"try">>) EXCEPT !.gen = Outside])
  /\ UNCHANGED <<values, locks, reclaiming>>

---------------------------------------------------------------------------
\* get_or_try_insert_at_epoch.

Creating == {t \in Threads : threads[t].op = "insert" /\ threads[t].made = 0}
Begin(t) ==
  /\ Free(t) /\ threads[t].lease = 0 /\ ~domain.closed /\ requests < MaxRequests
  /\ \E op \in Ops \cap {"get", "insert"}, k \in Keys :
       /\ op = "insert" => Len(nodes) + Cardinality(Creating) < MaxNode
       /\ Goes(t, [threads[t] EXCEPT !.op = op, !.vkey = <<k, epoch>>,
            !.todo = Lookup \o IF op = "get" THEN <<"maintain", "flush">> ELSE <<"found">>])
  /\ UNCHANGED <<values, locks, reclaiming>>

\* A hit ends the call; a miss looks again under the lock of the flight's shard.
Found(t) ==
  /\ At(t, "found")
  /\ Goes(t, Then(threads[t], IF threads[t].lease # 0 THEN <<"maintain", "flush">>
                              ELSE <<"lock">> \o Lookup \o <<"join">>))
  /\ UNCHANGED <<values, locks, reclaiming>>
Lock(t) ==
  /\ At(t, "lock") /\ locks.shard = {} /\ locks' = [locks EXCEPT !.shard = {t}]
  /\ Goes(t, Then(threads[t], <<>>))
  /\ UNCHANGED <<values, reclaiming>>

\* Under the lock: a hit, the flight of the key, or a flight of its own to lead.
(* A broken variant: the flight of another epoch of the key is joined. *)
AnyEpoch(vk) == {f \in DOMAIN flights : flights[f].registered /\ flights[f].vkey[1] = vk[1]}
Joins(vk) == Registered(vk)
NewFlight(t) == [vkey |-> threads[t].vkey, state |-> "pending", node |-> 0, registered |-> TRUE, refs |-> {t}]
Join(t) ==
  /\ At(t, "join") /\ locks' = [locks EXCEPT !.shard = {}]
  /\ LET vk == threads[t].vkey
         fresh == CHOOSE f \in 1..Cardinality(Threads) + 1 : f \notin DOMAIN flights
     IN IF threads[t].lease # 0
        THEN UNCHANGED flights /\ Goes(t, Then(threads[t], <<"maintain", "flush">>))
        ELSE IF Joins(vk) # {}
        THEN LET f == CHOOSE x \in Joins(vk) : TRUE
             IN /\ flights' = [flights EXCEPT ![f].refs = @ \cup {t}]
                /\ Goes(t, [Then(threads[t], <<"follow">>) EXCEPT !.flight = f])
        ELSE /\ flights' = With(flights, fresh, NewFlight(t))
             /\ Goes(t, [Then(threads[t], <<"compute">>) EXCEPT !.flight = fresh, !.active = TRUE])
  /\ UNCHANGED <<epoch, nodes, index, reclaiming>>

Again == Lookup \o <<"found">>
\* A follower waits for the flight and adopts its node, its error, or tries again.
Follow(t) ==
  /\ At(t, "follow")
  /\ LET f == flights[threads[t].flight]
     IN /\ f.state # "pending"
        /\ Goes(t, [Then(threads[t], CASE f.state = "ok"    -> <<"adopt">>
                                       [] f.state = "error" -> <<"maintain", "unref", "flush">>
                                       [] f.state = "retry" -> <<"unref">> \o Again)
                      EXCEPT !.seen = f.node])
  /\ UNCHANGED <<values, locks, reclaiming>>
Adopt(t) ==
  /\ At(t, "adopt")
  /\ LET n == threads[t].seen
     IN IF MayPin(n)
        THEN /\ nodes' = [nodes EXCEPT ![n].pins = @ + 1]
             /\ Goes(t, [Then(threads[t], <<"maintain", "unref", "flush">>) EXCEPT !.lease = n, !.seen = 0])
        ELSE UNCHANGED nodes /\ Goes(t, [Then(threads[t], <<"unref">> \o Again) EXCEPT !.seen = 0])
  /\ UNCHANGED <<epoch, index, flights, locks, reclaiming>>

\* The last reference to a flight drops its anchor.
Unref(t) ==
  /\ At(t, "unref")
  /\ LET f == threads[t].flight
         th == [Then(threads[t], <<>>) EXCEPT !.flight = 0]
     IN IF flights[f].refs = {t} /\ ~flights[f].registered
        THEN /\ flights' = Without(flights, f)
             /\ IF flights[f].node = 0 THEN Goes(t, th) /\ UNCHANGED nodes ELSE ReleasePin(t, flights[f].node, th)
        ELSE flights' = [flights EXCEPT ![f].refs = @ \ {t}] /\ Goes(t, th) /\ UNCHANGED nodes
  /\ UNCHANGED <<epoch, index, locks, reclaiming>>

\* The leader computes a value and publishes its node, unless it is too heavy or the
\* epoch has moved on.
(* A broken variant: a node is published whatever became of its epoch. *)
PublishesStale(vk, w) == Budget # 0 /\ w <= Budget
Publishes(vk, w) == Budget # 0 /\ w <= Budget /\ epoch = vk[2]
Completing == <<"deregister", "deactivate", "maintain mutation", "unref", "flush">>
Compute(t) ==
  /\ At(t, "compute")
  /\ \E w \in Weights :
       LET publish == Publishes(threads[t].vkey, w)
       IN /\ nodes' = Append(nodes, [pins |-> 1, resident |-> publish, published |-> publish, freed |-> FALSE,
                                     weight |-> IF w = 0 THEN 1 ELSE w, epoch |-> threads[t].vkey[2]])
          /\ Goes(t, [Then(threads[t], (IF publish THEN <<"insert", "retire", "discard", "retire">> ELSE <<>>)
                                       \o <<"complete">> \o Completing) EXCEPT !.made = Len(nodes) + 1])
  /\ UNCHANGED <<epoch, index, flights, locks, reclaiming>>

\* insert_resident takes a pin for the index; the index evicts what no longer fits.
Insert(t) ==
  /\ At(t, "insert")
  /\ LET n == threads[t].made
         all == With(index, threads[t].vkey, n)
         Fits(S) == WeightOf({all[vk] : vk \in DOMAIN all \ S}) <= Budget
     IN \E S \in SUBSET DOMAIN all :
          /\ Fits(S) /\ (Fits({}) => S = {})
          /\ index' = [vk \in DOMAIN all \ S |-> all[vk]]
          /\ nodes' = [nodes EXCEPT ![n].pins = @ + 1]
          /\ Goes(t, [Then(threads[t], <<>>) EXCEPT !.retire = {all[vk] : vk \in S}])
  /\ UNCHANGED <<epoch, flights, locks, reclaiming>>
IsStale(vk) == epoch # vk[2]
Discard(t) ==
  /\ At(t, "discard")
  /\ LET vk == threads[t].vkey
     IN IF IsStale(vk) /\ vk \in DOMAIN index
        THEN index' = Without(index, vk) /\ Goes(t, [Then(threads[t], <<>>) EXCEPT !.retire = {index[vk]}])
        ELSE UNCHANGED index /\ Goes(t, Then(threads[t], <<>>))
  /\ UNCHANGED <<epoch, nodes, flights, locks, reclaiming>>
\* The anchor is taken while the creator's pin is held; then followers are released.
(* A broken variant: the flight names the node without a pin of its own. *)
Unanchored(n) == nodes
Anchored(n) == [nodes EXCEPT ![n].pins = @ + 1]
Complete(t) ==
  /\ At(t, "complete")
  /\ nodes' = Anchored(threads[t].made)
  /\ flights' = [flights EXCEPT ![threads[t].flight].state = "ok", ![threads[t].flight].node = threads[t].made]
  /\ Goes(t, [Then(threads[t], <<>>) EXCEPT !.lease = threads[t].made, !.made = 0])
  /\ UNCHANGED <<epoch, index, locks, reclaiming>>

\* The computation fails, or unwinds: LeaderGuard::drop withdraws the flight first and
\* then sends its followers back.
Fail(t) ==
  /\ At(t, "compute") /\ UNCHANGED <<epoch, nodes, index, locks, reclaiming>>
  /\ \/ /\ flights' = [flights EXCEPT ![threads[t].flight].state = "error"]
        /\ Goes(t, Then(threads[t], Completing))
     \/ /\ UNCHANGED flights
        /\ Goes(t, Then(threads[t], <<"deregister", "retry", "deactivate", "unref", "flush", "try">>))
(* A broken variant: an unwinding leader leaves its followers waiting. *)
LeavesPending(t) == flights
Retried(t) == [flights EXCEPT ![threads[t].flight].state = "retry"]
Retry(t) ==
  /\ At(t, "retry") /\ flights' = Retried(t) /\ Goes(t, Then(threads[t], <<>>))
  /\ UNCHANGED <<epoch, nodes, index, locks, reclaiming>>
Deregister(t) ==
  /\ At(t, "deregister") /\ locks.shard = {}
  /\ flights' = [flights EXCEPT ![threads[t].flight].registered = FALSE]
  /\ Goes(t, Then(threads[t], <<>>))
  /\ UNCHANGED <<epoch, nodes, index, locks, reclaiming>>
Deactivate(t) ==
  /\ At(t, "deactivate") /\ Goes(t, [Then(threads[t], <<>>) EXCEPT !.active = FALSE])
  /\ UNCHANGED <<values, locks, reclaiming>>

\* The computation looks another key up and drops the lease it gets; a miss is the
\* error CACHE_REENTRANT, which the computation may handle.
Nested(t) ==
  /\ "nested" \in Ops /\ At(t, "compute") /\ requests < MaxRequests
  /\ \E k \in Keys \ {threads[t].vkey[1]} :
       Goes(t, [threads[t] EXCEPT !.vkey = <<k, epoch>>, !.todo = Lookup \o <<"maintain", "unnest">> \o @])
  /\ UNCHANGED <<values, locks, reclaiming>>
Unnest(t) ==
  /\ At(t, "unnest")
  /\ LET th == [Then(threads[t], <<>>) EXCEPT !.vkey = flights[threads[t].flight].vkey, !.lease = 0]
     IN IF threads[t].lease = 0 THEN Goes(t, th) /\ UNCHANGED nodes ELSE ReleasePin(t, threads[t].lease, th)
  /\ UNCHANGED <<epoch, index, flights, locks, reclaiming>>

\* CacheLease::drop.
DropLease(t) ==
  /\ Free(t) /\ threads[t].lease # 0
  /\ ReleasePin(t, threads[t].lease, [threads[t] EXCEPT !.lease = 0])
  /\ UNCHANGED <<epoch, index, flights, locks, reclaiming>>

---------------------------------------------------------------------------
\* clear: of a cache with its lock held, of a registry with the epoch advanced before it.
Invalidating == <<"invalidate", "retire", "quiesce", "clear unlock">>
Clear(t) ==
  /\ "clear" \in Ops /\ Free(t) /\ threads[t].lease = 0 /\ ~domain.closed /\ requests < MaxRequests
  /\ epoch + Cardinality({u \in Threads : threads[u].op = "clear"}) < MaxEpoch
  /\ \E todo \in {<<"clear lock", "advance", "snapshot">>, <<"advance", "snapshot", "clear lock">>} :
       Goes(t, [threads[t] EXCEPT !.op = "clear", !.todo = todo \o Invalidating])
  /\ UNCHANGED <<values, locks, reclaiming>>
Advance(t) ==
  /\ \/ At(t, "advance") /\ epoch' = epoch + 1 /\ Goes(t, Then(threads[t], <<>>))
     \/ At(t, "snapshot") /\ UNCHANGED epoch /\ Goes(t, [Then(threads[t], <<>>) EXCEPT !.vkey = <<0, epoch>>])
  /\ UNCHANGED <<nodes, index, flights, locks, reclaiming>>
ClearLock(t) ==
  /\ \/ At(t, "clear lock") /\ locks.clear = {} /\ locks' = [locks EXCEPT !.clear = {t}]
        /\ Goes(t, Then(threads[t], <<>>))
     \/ At(t, "clear unlock") /\ locks' = [locks EXCEPT !.clear = {}]
        /\ Goes(t, Idle)
  /\ UNCHANGED <<values, reclaiming>>
Old(vk, e) == vk[2] < e
Invalidate(t) ==
  /\ At(t, "invalidate")
  /\ LET S == {vk \in DOMAIN index : Old(vk, threads[t].vkey[2])}
     IN /\ index' = [vk \in DOMAIN index \ S |-> index[vk]]
        /\ Goes(t, [Then(threads[t], <<>>) EXCEPT !.retire = {index[vk] : vk \in S}])
  /\ UNCHANGED <<epoch, nodes, flights, locks, reclaiming>>

\* CalculationCache::drop has the cache to itself: no call and no lease is left.
Drop(t) ==
  /\ "drop" \in Ops /\ \A u \in Threads : Free(u) /\ threads[u].lease = 0
  /\ ~domain.closed /\ domain' = [domain EXCEPT !.closed = TRUE]
  /\ index' = [k \in {} |-> 0]
  /\ Goes(t, [threads[t] EXCEPT !.retire = {index[vk] : vk \in DOMAIN index}, !.todo = <<"retire", "detach", "destroy">>])
  /\ UNCHANGED <<epoch, nodes, flights, locks, pending, requests>>
Detach(t) ==
  /\ At(t, "detach")
  /\ domain' = [domain EXCEPT !.queue = [g \in 0..1 |-> {}]]
  /\ Goes(t, [Then(threads[t], <<>>) EXCEPT !.batch = Queued])
  /\ UNCHANGED <<values, locks, pending, requests>>

Step(t) ==
  \/ Enqueue(t) \/ Retire(t) \/ Unpin(t) \/ Maintain(t) \/ Try(t) \/ Ask(t) \/ Poll(t) \/ Settle(t)
  \/ Account(t) \/ Quiesce(t) \/ Drain(t) \/ Turn(t) \/ Destroy(t) \/ Free1(t) \/ Flush(t)
  \/ Enter(t) \/ Look(t) \/ Check(t) \/ Pin(t) \/ Recheck(t) \/ Leave(t)
  \/ Found(t) \/ Lock(t) \/ Join(t) \/ Follow(t) \/ Adopt(t) \/ Unref(t) \/ Compute(t) \/ Insert(t)
  \/ Discard(t) \/ Complete(t) \/ Fail(t) \/ Retry(t) \/ Deregister(t) \/ Deactivate(t) \/ Unnest(t)
  \/ Advance(t) \/ ClearLock(t) \/ Invalidate(t) \/ Detach(t)
Next == \E t \in Threads : Step(t) \/ Begin(t) \/ Nested(t) \/ DropLease(t) \/ Clear(t) \/ Drop(t)
Spec == Init /\ [][Next]_vars
Fairness == \A t \in Threads : SF_vars(Step(t))
LiveSpec == Spec /\ Fairness

---------------------------------------------------------------------------
TypeOK ==
  /\ epoch \in 0..MaxEpoch /\ Len(nodes) <= MaxNode /\ requests \in Nat
  /\ \A n \in DOMAIN nodes : nodes[n].pins \in Nat /\ nodes[n].epoch \in 0..MaxEpoch
  /\ \A vk \in DOMAIN index : index[vk] \in DOMAIN nodes
  /\ pending.nodes \in Nat /\ pending.weight \in Nat
  /\ \A t \in Threads : threads[t].gen \in 0..2 /\ threads[t].op \in {"none", "get", "insert", "clear"}

\* Threads between the step that takes a pin on what they saw and the one that gives it back.
Holding(t) == At(t, "recheck") \/ At(t, "unpin")
Pinning(n) ==
  Cardinality({t \in Threads : threads[t].lease = n}) + Cardinality({t \in Threads : threads[t].made = n})
  + Cardinality({t \in Threads : Holding(t) /\ threads[t].seen = n})
  + Cardinality({t \in Threads : n \in threads[t].retire})
  + Cardinality({vk \in DOMAIN index : index[vk] = n})
  + Cardinality({f \in DOMAIN flights : flights[f].node = n})
Detached == UNION {threads[t].batch \cup threads[t].taken \cup threads[t].deferred : t \in Threads}
Owned == {threads[t].seen : t \in {u \in Threads : \E i \in DOMAIN threads[u].todo : threads[u].todo[i] \in {"enqueue", "free"}}}

\* A node has as many pins as leases, creators, index entries and flights hold it; an
\* unpinned one is queued, detached or destroyed, and in one place only.
PinsExact ==
  \A n \in DOMAIN nodes :
    /\ nodes[n].pins = Pinning(n)
    /\ nodes[n].pins = 0 => /\ n \in Owned \cup Queued \cup Detached \/ nodes[n].freed
                            /\ ~(n \in Queued /\ n \in Detached)
    /\ nodes[n].pins > 0 => n \notin Queued \cup Detached /\ ~nodes[n].freed

Follows(t) == threads[t].gen # Outside \/ At(t, "adopt") \/ At(t, "enqueue") \/ At(t, "free")
\* No thread follows an address of a destroyed node: not a lookup under its permit, not
\* a follower that read it from its flight (CacheNode dereferences of get_at_epoch).
NoDangling ==
  \A t \in Threads : Follows(t) /\ threads[t].seen # 0 => ~nodes[threads[t].seen].freed

\* A follower always gets the node of its flight: the anchor keeps it pinned.
FollowersAdopt == \A t \in Threads : At(t, "adopt") => MayPin(threads[t].seen)

\* What a clear outdated does not stay: an entry of an earlier epoch is in the index only
\* while a clear, or the leader that inserted it, is still going to remove it.
ClearedStaysCleared ==
  \A vk \in DOMAIN index : vk[2] < epoch =>
    \E t \in Threads : \E i \in DOMAIN threads[t].todo :
      \/ threads[t].todo[i] = "invalidate"
      \/ threads[t].todo[i] = "discard" /\ threads[t].made = index[vk]

\* One computation per key and epoch at a time, and none for a key that is resident.
SingleFlight ==
  \A t \in Threads : At(t, "compute") =>
    /\ threads[t].vkey \notin DOMAIN index
    /\ \A u \in Threads \ {t} : At(u, "compute") => threads[u].vkey # threads[t].vkey

\* User destructors of cached values never run with a lock of the cache held.
DestructorsUnlocked ==
  \A t \in Threads : (At(t, "free") \/ (At(t, "destroy") /\ threads[t].batch # {} /\ ~DestructionDeferred(threads[t])))
                     => t \notin locks.shard \cup domain.lock

\* No retired node is lost: the pending counts are what is queued or just taken, so the
\* next call sees it; no request is left behind, and a dropped cache has destroyed all.
DebtIsSeen ==
  LET owed == Queued \cup UNION {threads[t].taken : t \in Threads}
  IN /\ ~domain.closed => pending = [nodes |-> Cardinality(owed), weight |-> WeightOf(owed)]
     /\ (\A t \in Threads : Free(t)) => /\ requests = 0
                                        /\ domain.closed => \A n \in DOMAIN nodes : nodes[n].freed

\* Every call comes back, whatever its leader met, unless computations keep unwinding.
CallsReturn == \A t \in Threads : []<>Free(t) \/ []<>(\E u \in Threads : At(u, "retry"))
===========================================================================
