-------------------------- MODULE HandleBindings --------------------------
(***************************************************************************)
(* The store of formula handles: a token names a slot and a generation of  *)
(* the binding table, a binding keeps an object of the arena alive, and a  *)
(* removed binding is destroyed after the calls that may still read it.    *)
(*                                                                         *)
(* Threads publish objects, look tokens up inside a call, alias and pin    *)
(* what they found, remove bindings, and close the registry.  No thread is *)
(* dedicated to reclamation: removals and departing readers maintain the   *)
(* read domain.  The domain is the contract of RotatingReadDomain: two     *)
(* generations of readers, each with a queue of what was retired in it.    *)
(***************************************************************************)
EXTENDS Naturals, FiniteSets, FiniteSetsExt, SequencesExt

CONSTANTS Threads,
          Slots,          \* maximum_bindings
          Ops,            \* subset of {"insert", "alias", "pin", "remove", "close", "finish"}
          HardDebt,       \* HARD_DEBT_LIMIT
          MaxObject,      \* bound of next_object_id
          LastGen,        \* the last BindingGeneration
          MaxRequests     \* bound of maintenance_requests, on calls that begin

VARIABLES slots,          \* slots and published pointers: next generation, record
          free,           \* free slots, a stack
          arena,          \* objects (bindings, pins), sealed, active_releases, next id, destroyed
          domain,         \* read domain: current and pending generation, queues, lock, closed
          debt, requests, \* RetirementAccounting::debt, maintenance_requests
          phase, door,    \* HandleRegistryPhase; the gate of the preparations
          issued,         \* token -> object, for every token ever returned
          threads

vars == <<slots, free, arena, domain, debt, requests, phase, door, issued, threads>>

Objects == 1..MaxObject
Outside == 2                                     \* no read permit
Tokens == (1..Slots) \X (1..LastGen)

\* A thread: the steps it still has to take, its permit, what a lookup found,
\* an object or a batch it owns, the debt of the batch, requests it serves.
Idle == [todo |-> <<>>, gen |-> Outside, held |-> {}, tok |-> <<>>, obj |-> 0,
         batch |-> {}, bulk |-> {}, owed |-> 0, serves |-> 0, result |-> "none"]

Init ==
  /\ slots = <<>> /\ free = <<>>
  /\ arena = [objects |-> [o \in {} |-> 0], sealed |-> FALSE, releases |-> 0, last |-> 0, dead |-> {}]
  /\ domain = [cur |-> 0, pending |-> FALSE, queue |-> [g \in 0..1 |-> {}], lock |-> {}, closed |-> FALSE]
  /\ debt = 0 /\ requests = 0 /\ phase = "open" /\ door = "open"
  /\ issued = [t \in {} |-> 0]
  /\ threads = [t \in Threads |-> Idle]

table == <<slots, free, issued>>
reading == <<domain, debt, requests>>
closing == <<phase, door>>

\* The thread is about to take the step at; it goes on with the steps of more.
At(t, at) == threads[t].todo # <<>> /\ Head(threads[t].todo) = at
Free(t) == threads[t].todo = <<>>
Then(th, more) == [th EXCEPT !.todo = more \o Tail(@)]
Goes(t, th) == threads' = [threads EXCEPT ![t] = th]
Start(t, th, steps) == Goes(t, [th EXCEPT !.todo = steps])

Reading(g) == {t \in Threads : threads[t].gen = g}
Queued == domain.queue[0] \cup domain.queue[1]
Live == {s \in DOMAIN slots : slots[s].rec # {}}
Recorded == UNION {slots[s].rec : s \in DOMAIN slots}

---------------------------------------------------------------------------
\* The object arena.
With(f, x, v) == [y \in DOMAIN f \cup {x} |-> IF y = x THEN v ELSE f[y]]

\* A capability is given back: the last one unlinks the object, whose
\* destructor then runs outside the lock, counted in active_releases.
(* A broken variant: the last binding takes the object although it is pinned. *)
IgnoresPins(e) == e.bindings = 0
Reclaimable(e) == e.bindings = 0 /\ e.pins = 0

Fewer(o, kind) == [arena.objects[o] EXCEPT ![kind] = @ - 1]
Release(t, o, kind, th) ==
  IF Reclaimable(Fewer(o, kind))
  THEN /\ arena' = [arena EXCEPT !.objects = [x \in DOMAIN @ \ {o} |-> @[x]], !.releases = @ + 1]
       /\ Goes(t, [th EXCEPT !.obj = o, !.todo = <<"destroy">> \o @])
  ELSE /\ arena' = [arena EXCEPT !.objects[o] = Fewer(o, kind)]
       /\ Goes(t, [th EXCEPT !.obj = 0])

\* ObjectArena::destroy and the end of the guard of begin_release.
Destroy(t) ==
  /\ At(t, "destroy")
  /\ arena' = [arena EXCEPT !.dead = @ \cup {threads[t].obj}, !.releases = @ - 1]
  /\ Goes(t, [Then(threads[t], <<>>) EXCEPT !.obj = 0])
  /\ UNCHANGED <<table, reading, closing>>

---------------------------------------------------------------------------
\* Publication of an object.

\* PendingObjectBinding::new: a fresh id, refused by a sealed arena.
New(t) ==
  /\ "insert" \in Ops /\ Free(t) /\ door = "open" /\ arena.last < MaxObject /\ ~arena.sealed
  /\ LET o == arena.last + 1
     IN /\ arena' = [arena EXCEPT !.last = o, !.objects = With(@, o, [bindings |-> 1, pins |-> 0])]
        /\ Start(t, [threads[t] EXCEPT !.obj = o], <<"bind">>)
  /\ UNCHANGED <<table, reading, closing>>

\* PendingObjectBinding::from_alias: one more binding of an object read in this call.
Alias(t) ==
  /\ "alias" \in Ops /\ Free(t) /\ door = "open" /\ ~arena.sealed
  /\ \E r \in threads[t].held :
       /\ arena' = [arena EXCEPT !.objects[r.obj].bindings = @ + 1]
       /\ Start(t, [threads[t] EXCEPT !.obj = r.obj], <<"bind">>)
  /\ UNCHANGED <<table, reading, closing>>

\* BindingReservation::acquire refuses new bindings at the debt limit and when
\* every slot is live or used up.
Overloaded == debt >= HardDebt
Full == Cardinality(Live) >= Slots \/ (free = <<>> /\ Len(slots) >= Slots)

\* insert_pending_object: phase, reservation and publication under the table's lock.
Bind(t) ==
  /\ At(t, "bind")
  /\ LET o == threads[t].obj
         s == IF free = <<>> THEN Len(slots) + 1 ELSE Last(free)
         tok == <<s, IF free = <<>> THEN 1 ELSE slots[s].gen>>
         slot == [gen |-> tok[2], rec |-> {[tok |-> tok, obj |-> o]}]
     IN IF phase # "open" \/ Overloaded \/ Full
        THEN Release(t, o, "bindings", Then(threads[t], <<>>)) /\ UNCHANGED table
        ELSE /\ slots' = IF free = <<>> THEN Append(slots, slot) ELSE [slots EXCEPT ![s] = slot]
             /\ free' = IF free = <<>> THEN free ELSE Front(free)
             /\ issued' = With(issued, tok, o)
             /\ Goes(t, [Then(threads[t], <<>>) EXCEPT !.obj = 0])
             /\ UNCHANGED arena
  /\ UNCHANGED <<reading, closing>>

---------------------------------------------------------------------------
\* Lookup inside a call.

Enter(t) ==
  /\ Free(t) /\ threads[t].gen = Outside /\ phase = "open" /\ ~domain.closed
  /\ requests < MaxRequests
  /\ Goes(t, [threads[t] EXCEPT !.gen = domain.cur])
  /\ UNCHANGED <<table, arena, reading, closing>>

\* read_scoped: the published record must carry the identity of the token.
(* A broken variant: any record published in the slot answers a token of it. *)
AnyRecord(tok) == {r \in Recorded : r.tok[1] = tok[1]}
Found(tok) == {r \in Recorded : r.tok = tok}

Lookup(t) ==
  /\ Free(t) /\ threads[t].gen # Outside /\ threads[t].held = {} /\ phase = "open"
  /\ \E tok \in DOMAIN issued :
       Found(tok) # {} /\ Goes(t, [threads[t] EXCEPT !.held = Found(tok), !.tok = tok])
  /\ UNCHANGED <<table, arena, reading, closing>>

\* ObjectBinding::acquire_lease; the lease outlives the call.
Pin(t) ==
  /\ "pin" \in Ops /\ Free(t) /\ ~arena.sealed
  /\ \E r \in threads[t].held :
       /\ arena.objects[r.obj].pins = 0
       /\ arena' = [arena EXCEPT !.objects[r.obj].pins = @ + 1]
  /\ UNCHANGED <<table, reading, closing, threads>>

Unpin(t) ==
  /\ Free(t)
  /\ \E o \in DOMAIN arena.objects : arena.objects[o].pins > 0 /\ Release(t, o, "pins", threads[t])
  /\ UNCHANGED <<table, reading, closing>>

\* HandleDomainPermit::drop gives the permit back, then looks for queued records.
Leave(t) ==
  /\ Free(t) /\ threads[t].gen # Outside
  /\ Start(t, [threads[t] EXCEPT !.gen = Outside, !.held = {}, !.tok = <<>>], <<"left">>)
  /\ UNCHANGED <<table, arena, reading, closing>>

(* A broken variant: a departing reader leaves the queues to the next removal. *)
NeverMaintains == FALSE
SeesQueued == Queued # {}

Left(t) ==
  /\ At(t, "left") /\ Goes(t, Then(threads[t], IF SeesQueued THEN <<"ask">> ELSE <<>>))
  /\ UNCHANGED <<table, arena, reading, closing>>

---------------------------------------------------------------------------
\* Removal and reclamation.

\* A slot whose generations are used up is not put on the free list again.
(* A broken variant: the slot keeps the generation of the removed binding. *)
SameGeneration(g) == g
NextGeneration(g) == g + 1
Withdrawn(slot) == [gen |-> IF slot.gen < LastGen THEN NextGeneration(slot.gen) ELSE slot.gen, rec |-> {}]

\* BindingRemoval::commit: withdrawn, unlinked and registered under the lock.
Remove1(t) ==
  /\ "remove" \in Ops /\ Free(t) /\ phase = "open"
  /\ \E s \in Live :
       /\ slots' = [slots EXCEPT ![s] = Withdrawn(@)]
       /\ free' = IF slots[s].gen < LastGen THEN Append(free, s) ELSE free
       /\ domain' = [domain EXCEPT !.queue[domain.cur] = @ \cup slots[s].rec]
  /\ debt' = debt + 1
  /\ Start(t, threads[t], <<"removed">>)
  /\ UNCHANGED <<arena, requests, closing, issued>>

\* maintain_after_removal.  The question whether this thread may be reading looks at
\* a stripe that other threads share.
Removed(t) ==
  /\ At(t, "removed")
  /\ \/ Goes(t, Then(threads[t], <<"ask">>))
        /\ (debt < HardDebt \/ Reading(0) \cup Reading(1) # {})
     \/ Goes(t, Then(threads[t], <<"quiesce", "ask">>))
        /\ debt >= HardDebt /\ threads[t].gen = Outside
  /\ UNCHANGED <<table, arena, reading, closing>>

\* maintain: one maintainer at a time, which serves the requests made meanwhile.
Ask(t) ==
  /\ At(t, "ask") /\ requests' = requests + 1
  /\ Goes(t, [Then(threads[t], IF requests = 0 THEN <<"poll">> ELSE <<>>)
                EXCEPT !.serves = IF requests = 0 THEN 1 ELSE 0])
  /\ UNCHANGED <<table, arena, domain, debt, closing>>

\* A thread takes over a queue: the records, and their debt.
Took(th, records) == [th EXCEPT !.batch = @ \cup records, !.owed = @ + Cardinality(records)]

\* poll_quiesce: finish a pending rotation or begin one, without waiting.
Due == IF domain.pending THEN 1 - domain.cur ELSE domain.cur
(* A broken variant: the queue is taken while a reader is in its generation. *)
NeverBusy == FALSE
Busy == Reading(Due) # {}
Poll(t) ==
  /\ At(t, "poll")
  /\ IF Queued = {} \/ domain.lock # {} \/ domain.closed
     THEN Goes(t, Then(threads[t], <<"settle">>)) /\ UNCHANGED domain
     ELSE IF Busy
     THEN Goes(t, Then(threads[t], <<"settle">>)) /\ domain' = [domain EXCEPT !.pending = TRUE, !.cur = 1 - Due]
     ELSE /\ domain' = [domain EXCEPT !.pending = FALSE, !.cur = 1 - Due, !.queue[Due] = {}]
          /\ Goes(t, Took(Then(threads[t], <<"reclaim", "poll">>), domain.queue[Due]))
  /\ UNCHANGED <<table, arena, debt, requests, closing>>

(* A broken variant: the maintainer forgets the requests made while it worked. *)
Dismisses(t) == 0
Remaining(t) == requests - threads[t].serves
Settle(t) ==
  /\ At(t, "settle") /\ requests' = Remaining(t)
  /\ Goes(t, [Then(threads[t], IF Remaining(t) = 0 THEN <<>> ELSE <<"poll">>) EXCEPT !.serves = Remaining(t)])
  /\ UNCHANGED <<table, arena, domain, debt, closing>>

\* ReclaimBatch::drop: the records one by one, then the debt and its waiters.
Reclaim(t) ==
  /\ At(t, "reclaim")
  /\ IF threads[t].batch = {}
     THEN /\ debt' = debt - threads[t].owed
          /\ Goes(t, [Then(threads[t], <<>>) EXCEPT !.owed = 0]) /\ UNCHANGED arena
     ELSE LET r == CHOOSE x \in threads[t].batch : TRUE
          IN Release(t, r.obj, "bindings", [threads[t] EXCEPT !.batch = @ \ {r}]) /\ UNCHANGED debt
  /\ UNCHANGED <<table, domain, requests, closing>>

\* quiesce: waits with the lock of the domain for a pending rotation, then for its own.
Quiesce(t) ==
  /\ At(t, "quiesce") /\ domain.lock = {}
  /\ IF domain.closed THEN Goes(t, Then(threads[t], <<"reclaim">>)) /\ UNCHANGED domain
     ELSE /\ domain' = [domain EXCEPT !.lock = {t}, !.pending = TRUE, !.cur = 1 - Due]
          /\ Goes(t, Then(threads[t], IF domain.pending THEN <<"drain", "turn", "drain", "unlock", "reclaim">>
                                      ELSE <<"drain", "unlock", "reclaim">>))
  /\ UNCHANGED <<table, arena, debt, requests, closing>>
DrainOld(t) ==
  /\ At(t, "drain") /\ ~Busy
  /\ domain' = [domain EXCEPT !.pending = FALSE, !.queue[Due] = {}]
  /\ Goes(t, Took(Then(threads[t], <<>>), domain.queue[Due]))
  /\ UNCHANGED <<table, arena, debt, requests, closing>>
Turn(t) ==
  /\ \/ At(t, "turn") /\ domain' = [domain EXCEPT !.pending = TRUE, !.cur = 1 - @]
     \/ At(t, "unlock") /\ domain' = [domain EXCEPT !.lock = {}]
  /\ Goes(t, Then(threads[t], <<>>))
  /\ UNCHANGED <<table, arena, debt, requests, closing>>

---------------------------------------------------------------------------
\* Closing: FormulaHandleService::seal around HandleRegistry::seal.

Close(t) ==
  /\ "close" \in Ops /\ Free(t) /\ threads[t].gen = Outside /\ threads[t].result = "none"
  /\ door' = "closed" /\ phase' = IF phase = "open" THEN "closing" ELSE phase
  /\ Start(t, threads[t], <<"idle preparations">>)
  /\ UNCHANGED <<table, arena, reading>>

\* wait_for_idle of the preparations, then one thread takes the phase Sealing.
Preparing == {t \in Threads : At(t, "bind")}
Claim(t) ==
  /\ At(t, "idle preparations") /\ Preparing = {}
  /\ \/ /\ phase = "closing" /\ phase' = "sealing"
        /\ arena' = [arena EXCEPT !.sealed = TRUE]
        /\ Goes(t, Then(threads[t], <<"withdraw", "quiesce", "ask", "bulk", "seal", "emptied", "reclaim", "await">>))
     \/ /\ phase = "sealing" /\ Goes(t, [Then(threads[t], <<>>) EXCEPT !.result = "error"]) /\ UNCHANGED <<phase, arena>>
     \/ /\ phase = "closed" /\ Goes(t, [Then(threads[t], <<>>) EXCEPT !.result = "ok"]) /\ UNCHANGED <<phase, arena>>
  /\ UNCHANGED <<table, reading, door>>

\* BulkRetirement: every record is withdrawn and kept aside until the readers are gone.
Withdraw(t) ==
  /\ At(t, "withdraw")
  /\ slots' = [s \in DOMAIN slots |-> Withdrawn(slots[s])]
  /\ free' = SelectSeq([s \in DOMAIN slots |-> s], LAMBDA s : slots[s].gen < LastGen)
  /\ Goes(t, [Then(threads[t], <<>>) EXCEPT !.bulk = Recorded])
  /\ UNCHANGED <<arena, reading, closing, issued>>
DropBulk(t) ==
  /\ At(t, "bulk")
  /\ IF threads[t].bulk = {} THEN Goes(t, Then(threads[t], <<>>)) /\ UNCHANGED arena
     ELSE LET r == CHOOSE x \in threads[t].bulk : TRUE
          IN Release(t, r.obj, "bindings", [threads[t] EXCEPT !.bulk = @ \ {r}])
  /\ UNCHANGED <<table, reading, closing>>

\* HandleReadDomain::seal: no reader enters, both queues are taken, every debt is paid.
SealDomain(t) ==
  /\ At(t, "seal") /\ domain.lock = {}
  /\ domain' = [domain EXCEPT !.lock = {t}, !.closed = TRUE]
  /\ Goes(t, Then(threads[t], <<>>))
  /\ UNCHANGED <<table, arena, debt, requests, closing>>
Emptied(t) ==
  /\ At(t, "emptied") /\ Reading(0) \cup Reading(1) = {}
  /\ domain' = [domain EXCEPT !.lock = {}, !.queue = [g \in 0..1 |-> {}]]
  /\ Goes(t, Took(Then(threads[t], <<>>), Queued))
  /\ UNCHANGED <<table, arena, debt, requests, closing>>
(* A broken variant: the registry is closed while another thread still destroys. *)
OwesNothing == TRUE
Settled == debt = 0
Await(t) ==
  /\ At(t, "await") /\ Settled
  /\ phase' = "closed"
  /\ Goes(t, [Then(threads[t], <<>>) EXCEPT !.result = "ok"])
  /\ UNCHANGED <<table, arena, reading, door>>

\* ObjectArena::finish_quiescence: proof that no pin, object or destructor is left.
Quiet == arena.objects = [o \in {} |-> 0] /\ arena.releases = 0
Finish(t) ==
  /\ "finish" \in Ops /\ Free(t) /\ threads[t].result = "ok" /\ phase = "closed"
  /\ Quiet /\ Goes(t, [threads[t] EXCEPT !.result = "proof"])
  /\ UNCHANGED <<table, arena, reading, closing>>

Step(t) ==
  \/ Destroy(t) \/ Bind(t) \/ Left(t) \/ Removed(t) \/ Ask(t) \/ Poll(t) \/ Settle(t) \/ Reclaim(t)
  \/ Quiesce(t) \/ DrainOld(t) \/ Turn(t) \/ Claim(t) \/ Withdraw(t) \/ DropBulk(t) \/ SealDomain(t)
  \/ Emptied(t) \/ Await(t)
Next ==
  \E t \in Threads :
    \/ Step(t) \/ New(t) \/ Alias(t) \/ Enter(t) \/ Lookup(t) \/ Pin(t) \/ Unpin(t) \/ Leave(t)
    \/ Remove1(t) \/ Close(t) \/ Finish(t)
Spec == Init /\ [][Next]_vars

\* A call returns, and so does a thread inside an operation; the locks are fair.
Fairness == \A t \in Threads : SF_vars(Step(t)) /\ WF_vars(Leave(t))
LiveSpec == Spec /\ Fairness

---------------------------------------------------------------------------
TypeOK ==
  /\ \A s \in DOMAIN slots : slots[s].gen \in 1..LastGen /\ Cardinality(slots[s].rec) <= 1
  /\ phase \in {"open", "closing", "sealing", "closed"} /\ door \in {"open", "closed"}
  /\ debt \in Nat /\ requests \in Nat /\ arena.releases \in Nat
  /\ \A t \in Threads : threads[t].gen \in 0..2 /\ threads[t].result \in {"none", "ok", "error", "proof"}

\* Everything that keeps a binding of an object: records wherever they are, and
\* objects a thread is about to bind.
Kept ==
  LET records == UNION ({Recorded, Queued} \cup {threads[t].batch \cup threads[t].bulk : t \in Threads})
  IN [o \in Objects |-> Cardinality({r \in records : r.obj = o})
                        + Cardinality({t \in Threads : At(t, "bind") /\ threads[t].obj = o})]

\* What a call read stays: its object is not destroyed before the permit is returned,
\* nor while a lease pins it (Handle::deref, HandleLease::deref).
ReadIsAlive ==
  /\ \A t \in Threads : \A r \in threads[t].held : r.obj \notin arena.dead /\ r.obj \in DOMAIN arena.objects
  /\ DOMAIN arena.objects \cap arena.dead = {}

\* A token denotes the object it was returned for, for ever: no lookup answers it
\* with another one, however often the slot was reused.
TokensDenote == \A t \in Threads : \A r \in threads[t].held : r.obj = issued[threads[t].tok]

\* The counts are exact: an object has as many bindings as records of it exist, and
\* the debt is what is queued or being destroyed.
CountsExact ==
  /\ \A o \in Objects : Kept[o] = IF o \in DOMAIN arena.objects THEN arena.objects[o].bindings ELSE 0
  /\ debt = Cardinality(Queued) + MapThenSumSet(LAMBDA t : threads[t].owed, Threads)

\* Retired records do not wait for a removal to come: with no reader inside and no
\* maintainer at work the queues are empty.
NothingStranded ==
  (\A t \in Threads : threads[t].gen = Outside /\ Free(t)) => Queued = {}

\* A closed registry holds no record, and the final proof is given when every object
\* that was ever created is destroyed.
ClosedIsEmpty ==
  /\ phase = "closed" => Recorded = {} /\ Queued = {} /\ debt = 0
  /\ (\E t \in Threads : threads[t].result = "proof") => arena.dead = 1..arena.last

\* Once the registry closes every operation ends, the seal with them; before that a
\* maintainer may go on as long as new calls keep leaving it requests.
OperationsEnd == \A t \in Threads : phase # "open" /\ ~Free(t) ~> Free(t)
===========================================================================
