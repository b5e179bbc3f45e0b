--------------------------- MODULE RtdConnections ---------------------------
(***************************************************************************)
(* The control plane of RTD subscriptions (xlfn/src/subscription: catalog, *)
(* runtime, server, disconnect, termination, runtime/termination).         *)
(*                                                                         *)
(* Worksheet calls prepare a subscription; ConnectData turns it into a     *)
(* connection by a transaction over the catalog, the server's publication  *)
(* table, the cleanup capacity and the source; DisconnectData retires it,  *)
(* at once or on the disconnect worker.  A server is terminated by one     *)
(* owner, the whole runtime by another, each in fixed stages.              *)
(*                                                                         *)
(* Sections under the catalog lock, and under a server's subscription      *)
(* lock, are one step.  Pending counts and bytes are read off the catalog, *)
(* which changes them only together with an entry.  The topics share a     *)
(* shard of the publication table; what is published there is the subject  *)
(* of RtdRefresh.                                                          *)
(***************************************************************************)
EXTENDS Naturals, FiniteSets, Sequences, Functions, TLC

CONSTANTS Keys,        \* identities: a source and its topic parts
          Preparers,   \* worksheet calls
          Clients,     \* threads that enter through COM
          Enders,      \* threads that terminate a server or the runtime
          Servers,
          Topics,      \* TopicIds of Excel
          Ops,         \* what happens besides preparing and connecting
          SharedWork,  \* a source's barrier waits for its shared work to stop
          MaxPending,  \* RtdLimits::max_pending
          Capacity,    \* RtdLimits::max_active, of the tables and of cleanup
          MaxId,       \* the last subscription id: u64::MAX in the code
          MaxGen,      \* the last connection generation: u64::MAX in the code
          MaxPrepared  \* preparations of one thread (bound of the model)

VARIABLES entries,   \* the catalog
          nextId, nextGen,
          servers,   \* servers[s]: tables, admission and termination of a server
          sinks,     \* generations whose source may still publish
          reserved,  \* outstanding of the disconnect queue
          jobs,      \* the disconnect queue
          worker,    \* the disconnect worker and its current job
          gate,      \* runtime_gate: open or sealed
          closing,   \* the runtime's termination coordinator
          sources,   \* the source arena: running, stopping or joined
          failed,    \* cleanup_failure
          preps, clients, enders

catalog == <<entries, nextId>>
cleanup == <<sinks, reserved, jobs, worker>>
ending == <<gate, closing, sources, failed>>
vars == <<catalog, nextGen, servers, cleanup, ending, preps, clients, enders>>

Nil == 0
Nobody == "nobody"
NoServer == [life |-> "absent", door |-> "open", active |-> <<>>, byId |-> <<>>,
             subs |-> <<>>, captured |-> {}, retired |-> {}, claim |-> "unclaimed", by |-> Nobody]
IdlePrep == [at |-> "idle", key |-> Nobody, id |-> Nil, holds |-> FALSE, left |-> MaxPrepared]
IdleClient == [at |-> "idle", s |-> Nobody, t |-> Nobody, id |-> Nil, gen |-> Nil,
               own |-> FALSE, deferred |-> FALSE]
IdleEnder == [at |-> "idle", s |-> Nobody, all |-> FALSE, left |-> {}]
NoJob == [s |-> Nobody, gen |-> Nil]

Init ==
  /\ entries = <<>> /\ nextId = 1 /\ nextGen = 1
  /\ servers = [s \in Servers |-> NoServer]
  /\ sinks = {} /\ reserved = 0 /\ jobs = <<>>
  /\ worker = [state |-> "dormant", job |-> NoJob]
  /\ gate = "open" /\ closing = "unclaimed" /\ sources = "running" /\ failed = FALSE
  /\ preps = [p \in Preparers |-> IdlePrep]
  /\ clients = [c \in Clients |-> IdleClient]
  /\ enders = [x \in Enders |-> IdleEnder]

Without(f, xs) == Restrict(f, DOMAIN f \ xs)

(* record_cleanup_result of a hook or a barrier that may fail.             *)
Recorded == \E fails \in (IF "fail" \in Ops THEN BOOLEAN ELSE {FALSE}) : failed' = (failed \/ fails)

-----------------------------------------------------------------------------
(* The catalog.  An entry is pending, connecting or active.                *)

IsConnected(e) == e.phase # "pending"
TracksPending(e) == ~(e.phase = "active" /\ e.reservations = 0)
CanRemove(e) == e.phase = "pending" /\ e.reservations = 0 /\ ~e.committed
Pending == {i \in DOMAIN entries : TracksPending(entries[i])}

(* with_entry, followed by remove_entry when the update says so.           *)
Put(id, e, remove) ==
  entries' = IF remove THEN Without(entries, {id}) ELSE [entries EXCEPT ![id] = e]

Unbound(e) == [e EXCEPT !.phase = "pending", !.server = Nobody, !.gen = Nil, !.committed = FALSE]

(* A broken variant: an active entry is removed whatever is reserved on it. *)
RemovesActive(e) == e.phase = "active" \/ CanRemove(Unbound(e))

(* cleanup_connection                                                      *)
RemovedByCleanup(e) == CanRemove(Unbound(e))

BoundTo(id, s, g) == id \in DOMAIN entries /\ entries[id].server = s /\ entries[id].gen = g

(* cleanup_catalog_binding_and_pending                                     *)
CleanupBinding(id, s, g) ==
  IF BoundTo(id, s, g)
  THEN Put(id, Unbound(entries[id]), RemovedByCleanup(entries[id]))
  ELSE UNCHANGED entries

(* SubscriptionEntry::rollback_connection, and the removal that follows it. *)
RollbackEntry(id, s, g) ==
  IF BoundTo(id, s, g) /\ entries[id].phase = "connecting"
  THEN LET p == [entries[id] EXCEPT !.phase = "pending", !.gen = Nil]
       IN  Put(id, p, CanRemove(p))
  ELSE UNCHANGED entries

-----------------------------------------------------------------------------
(* Preparation.                                                            *)

PrepareEnter(p, k) ==
  /\ preps[p].at = "idle" /\ preps[p].left > 0
  /\ gate = "open"
  /\ preps' = [preps EXCEPT ![p] = [@ EXCEPT !.at = "inside", !.key = k, !.left = @ - 1]]
  /\ UNCHANGED <<catalog, nextGen, servers, cleanup, ending, clients, enders>>

NewEntry(k) == [key |-> k, phase |-> "pending", reservations |-> 1, server |-> Nobody,
                gen |-> Nil, committed |-> FALSE]

(* prepare: the catalog section.  A connected entry needs no reservation.  *)
Prepare(p) ==
  LET same == {i \in DOMAIN entries : entries[i].key = preps[p].key}
      full == Cardinality(Pending) >= MaxPending \/ nextId > MaxId
      Hold(id, holds) ==
        preps' = [preps EXCEPT ![p] = [@ EXCEPT !.at = "held", !.id = id, !.holds = holds]]
  IN  /\ preps[p].at = "inside"
      /\ \/ \E i \in same :
              /\ Hold(i, ~IsConnected(entries[i]))
              /\ entries' = IF IsConnected(entries[i]) THEN entries
                            ELSE [entries EXCEPT ![i].reservations = @ + 1]
              /\ UNCHANGED nextId
         \/ /\ same = {} /\ ~full
            /\ entries' = entries @@ (nextId :> NewEntry(preps[p].key))
            /\ nextId' = nextId + 1
            /\ Hold(nextId, TRUE)
         \/ /\ same = {} /\ full
            /\ preps' = [preps EXCEPT ![p] = [@ EXCEPT !.at = "idle", !.key = Nobody]]
            /\ UNCHANGED catalog
      /\ UNCHANGED <<nextGen, servers, cleanup, ending, clients, enders>>

(* SubscriptionEntry::finish_preparation                                   *)
FinishedEntry(e, committed) ==
  [e EXCEPT !.committed = @ \/ (committed /\ e.phase # "active"),
            !.reservations = IF @ = 0 THEN 0 ELSE @ - 1]

(* commit, rollback or drop of a PreparedSubscription; needs no admission. *)
FinishPreparation(p, committed) ==
  LET id == preps[p].id IN
  /\ preps[p].at = "held"
  /\ IF preps[p].holds /\ id \in DOMAIN entries
     THEN LET e == FinishedEntry(entries[id], committed) IN Put(id, e, ~committed /\ CanRemove(e))
     ELSE UNCHANGED entries
  /\ preps' = [preps EXCEPT ![p] = [IdlePrep EXCEPT !.left = preps[p].left]]
  /\ UNCHANGED <<nextId, nextGen, servers, cleanup, ending, clients, enders>>

-----------------------------------------------------------------------------
(* Connection.  A client between Connect and its last step holds admission *)
(* to the runtime and to its server.                                       *)

Go(c, at) == clients' = [clients EXCEPT ![c].at = at]
Leave(c) == clients' = [clients EXCEPT ![c] = IdleClient]
Admitted(s) == gate = "open" /\ servers[s].life # "absent" /\ servers[s].door = "open"

(* register_server                                                         *)
Register(s) ==
  /\ gate = "open" /\ servers[s].life = "absent"
  /\ servers' = [servers EXCEPT ![s].life = "open"]
  /\ UNCHANGED <<catalog, nextGen, cleanup, ending, preps, clients, enders>>

(* claim, of ConnectData: the entry is bound to the server or refused.     *)
Claim(c, s, t, id) ==
  /\ clients[c].at = "idle"
  /\ Admitted(s) /\ servers[s].life = "open"
  /\ id \in DOMAIN entries /\ entries[id].server \in {Nobody, s}
  /\ entries' = [entries EXCEPT ![id].server = s]
  /\ clients' = [clients EXCEPT ![c] = [IdleClient EXCEPT !.at = "claimed", !.s = s,
                                                          !.t = t, !.id = id]]
  /\ UNCHANGED <<nextId, nextGen, servers, cleanup, ending, preps, enders>>

(* connect_from_handle: admission and a generation of its own.             *)
Connect(c) ==
  /\ clients[c].at = "claimed"
  /\ IF Admitted(clients[c].s) /\ nextGen <= MaxGen
     THEN /\ clients' = [clients EXCEPT ![c] = [@ EXCEPT !.at = "entered", !.gen = nextGen]]
          /\ nextGen' = nextGen + 1
     ELSE Leave(c) /\ UNCHANGED nextGen
  /\ UNCHANGED <<catalog, servers, cleanup, ending, preps, enders>>

(* begin_connection                                                        *)
Begin(c) ==
  LET me == clients[c] IN
  /\ me.at = "entered"
  /\ IF /\ me.id \in DOMAIN entries /\ entries[me.id].phase = "pending"
        /\ entries[me.id].server \in {Nobody, me.s}
     THEN /\ entries' = [entries EXCEPT ![me.id] =
                            [@ EXCEPT !.phase = "connecting", !.server = me.s, !.gen = me.gen]]
          /\ Go(c, "catalog")
     ELSE Leave(c) /\ UNCHANGED entries
  /\ UNCHANGED <<nextId, nextGen, servers, cleanup, ending, preps, enders>>

ActiveCount == Cardinality(UNION {{s} \X DOMAIN servers[s].active : s \in Servers})

(* reserve_connection is refused by a closing server, for a topic or an id *)
(* in use, and at the quota.                                               *)
ReservePublication(c) ==
  LET me == clients[c]  sv == servers[me.s] IN
  /\ me.at = "catalog"
  /\ IF sv.life = "open" /\ me.t \notin DOMAIN sv.active /\ me.id \notin DOMAIN sv.byId
                         /\ ActiveCount < Capacity
     THEN /\ servers' = [servers EXCEPT ![me.s] =
               [@ EXCEPT !.active = @ @@ (me.t :> [id |-> me.id, gen |-> me.gen]),
                         !.byId = @ @@ (me.id :> me.t)]]
          /\ Go(c, "published")
     ELSE Go(c, "unreserve") /\ UNCHANGED servers
  /\ UNCHANGED <<catalog, nextGen, cleanup, ending, preps, enders>>

(* rollback_catalog_connection_reservation                                 *)
Unreserve(c) ==
  /\ clients[c].at = "unreserve"
  /\ RollbackEntry(clients[c].id, clients[c].s, clients[c].gen)
  /\ Leave(c)
  /\ UNCHANGED <<nextId, nextGen, servers, cleanup, ending, preps, enders>>

(* DisconnectPool::reserve starts the worker on first use, which may fail. *)
ReserveCleanup(c) ==
  /\ clients[c].at = "published"
  /\ \/ /\ worker.state # "stopped" /\ reserved < Capacity
        /\ worker' = [worker EXCEPT !.state = "running"]
        /\ reserved' = reserved + 1
        /\ Go(c, "capacity")
     \/ /\ \/ worker.state = "stopped" \/ reserved >= Capacity
           \/ "fail" \in Ops /\ worker.state = "dormant"
        /\ Go(c, "undo")
        /\ UNCHANGED <<worker, reserved>>
  /\ UNCHANGED <<catalog, nextGen, servers, sinks, jobs, ending, preps, enders>>

(* The source gets a sink, or refuses (with an error or a panic) and the   *)
(* capacity goes back.                                                     *)
Subscribe(c) ==
  /\ clients[c].at = "capacity"
  /\ \/ /\ sinks' = sinks \cup {clients[c].gen}
        /\ Go(c, "subscribed")
        /\ UNCHANGED <<reserved, failed>>
     \/ /\ "fail" \in Ops
        /\ reserved' = reserved - 1
        /\ Go(c, "undo")
        /\ Recorded
        /\ UNCHANGED sinks
  /\ UNCHANGED <<catalog, nextGen, servers, jobs, worker, gate, closing, sources, preps, enders>>

(* A broken variant: an open server installs whatever its table says.      *)
InstallsBlindly(sv, t, g) == sv.life = "open"

(* install_connection; commit_connection asks the same.                    *)
MayInstall(sv, t, g) == sv.life = "open" /\ t \in DOMAIN sv.active /\ sv.active[t].gen = g

Install(c) ==
  LET me == clients[c] IN
  /\ me.at = "subscribed"
  /\ IF MayInstall(servers[me.s], me.t, me.gen)
     THEN /\ servers' = [servers EXCEPT ![me.s].subs = (me.t :> me.gen) @@ @]
          /\ Go(c, "installed")
     ELSE Go(c, "refused") /\ UNCHANGED servers
  /\ UNCHANGED <<catalog, nextGen, cleanup, ending, preps, enders>>

(* PublishCore::commit_connection, or ConnectData fails and rolls back.    *)
CommitPublication(c) ==
  LET me == clients[c] IN
  /\ me.at = "installed"
  /\ \/ MayInstall(servers[me.s], me.t, me.gen) /\ Go(c, "committed")
     \/ Go(c, "undo")
  /\ UNCHANGED <<catalog, nextGen, servers, cleanup, ending, preps, enders>>

(* finish_connection                                                       *)
CommitCatalog(c) ==
  LET me == clients[c] IN
  /\ me.at = "committed"
  /\ IF BoundTo(me.id, me.s, me.gen) /\ entries[me.id].phase = "connecting"
     THEN /\ entries' = [entries EXCEPT ![me.id].phase = "active"]
          /\ Leave(c)
     ELSE Go(c, "undo") /\ UNCHANGED entries
  /\ UNCHANGED <<nextId, nextGen, servers, cleanup, ending, preps, enders>>

(* A broken variant: the id leaves the index whoever it belongs to by now. *)
ForgetsId(sv, id, g) == Without(sv.byId, {id})

(* The id leaves the index unless another connection has it by now.        *)
RolledBackIndex(sv, id, g) ==
  IF id \in DOMAIN sv.byId /\ (sv.byId[id] \in DOMAIN sv.active => sv.active[sv.byId[id]].gen = g)
  THEN Without(sv.byId, {id}) ELSE sv.byId

(* rollback_connection: table and owner under the subscription lock.       *)
UndoPublication(c) ==
  LET me == clients[c]  sv == servers[me.s]
      gone == {t \in DOMAIN sv.active : t = me.t /\ sv.active[t].gen = me.gen}
      after == [sv EXCEPT !.active = Without(@, gone)]
  IN  /\ me.at = "undo"
      /\ servers' = [servers EXCEPT ![me.s] =
            [after EXCEPT !.byId = RolledBackIndex(after, me.id, me.gen),
                          !.subs = Without(@, gone)]]
      /\ clients' = [clients EXCEPT ![c] =
            [@ EXCEPT !.at = "undone", !.own = gone \cap DOMAIN sv.subs # {}]]
      /\ UNCHANGED <<catalog, nextGen, cleanup, ending, preps, enders>>

UndoCatalog(c) ==
  LET me == clients[c] IN
  /\ me.at = "undone"
  /\ RollbackEntry(me.id, me.s, me.gen)
  /\ IF me.own THEN Go(c, "barrier") ELSE Leave(c)
  /\ UNCHANGED <<nextId, nextGen, servers, cleanup, ending, preps, enders>>

-----------------------------------------------------------------------------
(* Barriers.  disconnect_and_wait returns, with or without an error, when  *)
(* the last user of the sink has stopped; the capacity is released then.   *)

Stops(g) ==
  /\ SharedWork => sources # "running"
  /\ sinks' = sinks \ {g}
  /\ reserved' = reserved - 1
  /\ Recorded

(* A refused installation disconnects first and rolls back then.           *)
Barrier(c) ==
  /\ clients[c].at \in {"barrier", "refused"}
  /\ Stops(clients[c].gen)
  /\ IF clients[c].at = "refused" THEN Go(c, "undo") ELSE Leave(c)
  /\ UNCHANGED <<catalog, nextGen, servers, jobs, worker, gate, closing, sources, preps, enders>>

-----------------------------------------------------------------------------
(* Disconnection.                                                          *)

(* disconnect_connection and the owner, under the subscription lock.  The  *)
(* deferred form does nothing for a topic without an installed owner.      *)
Disconnect(c, s, t, deferred) ==
  LET sv == servers[s] IN
  /\ clients[c].at = "idle"
  /\ Admitted(s) /\ sv.life = "open"
  /\ t \in DOMAIN sv.active /\ (deferred => t \in DOMAIN sv.subs)
  /\ servers' = [servers EXCEPT ![s] = [@ EXCEPT !.active = Without(@, {t}),
                                                 !.byId = Without(@, {sv.active[t].id}),
                                                 !.subs = Without(@, {t})]]
  /\ clients' = [clients EXCEPT ![c] =
        [at |-> "retired", s |-> s, t |-> t, id |-> sv.active[t].id, gen |-> sv.active[t].gen,
         own |-> t \in DOMAIN sv.subs, deferred |-> deferred]]
  /\ UNCHANGED <<catalog, nextGen, cleanup, ending, preps, enders>>

RetireCatalog(c) ==
  LET me == clients[c] IN
  /\ me.at = "retired"
  /\ CleanupBinding(me.id, me.s, me.gen)
  /\ IF me.own THEN Go(c, IF me.deferred THEN "defer" ELSE "barrier") ELSE Leave(c)
  /\ UNCHANGED <<nextId, nextGen, servers, cleanup, ending, preps, enders>>

(* OwnedSubscription::defer: the job takes owner, capacity and admission.  *)
Defer(c) ==
  /\ clients[c].at = "defer"
  /\ jobs' = Append(jobs, [s |-> clients[c].s, gen |-> clients[c].gen])
  /\ Leave(c)
  /\ UNCHANGED <<catalog, nextGen, servers, sinks, reserved, worker, ending, preps, enders>>

(* DisconnectQueue::run                                                    *)
TakeJob ==
  /\ worker.state = "running" /\ worker.job = NoJob /\ jobs # <<>>
  /\ worker' = [worker EXCEPT !.job = Head(jobs)]
  /\ jobs' = Tail(jobs)
  /\ UNCHANGED <<catalog, nextGen, servers, sinks, reserved, ending, preps, clients, enders>>

(* DeferredDisconnect::finish; admission is released last.                 *)
FinishJob ==
  /\ worker.job # NoJob
  /\ Stops(worker.job.gen)
  /\ worker' = [worker EXCEPT !.job = NoJob]
  /\ UNCHANGED <<catalog, nextGen, servers, jobs, gate, closing, sources, preps, clients, enders>>

-----------------------------------------------------------------------------
(* Termination of a server: sealed, captured, cancelled, drained, cleaned. *)

JobsIn == {jobs[i] : i \in DOMAIN jobs} \cup ({worker.job} \ {NoJob})
Inside(c) == clients[c].at \notin {"idle", "claimed"}
ServerUsers(s) ==
  {c \in Clients : Inside(c) /\ clients[c].s = s} \cup {j \in JobsIn : j.s = s}
RuntimeUsers ==
  {c \in Clients : Inside(c)} \cup JobsIn \cup {p \in Preparers : preps[p].at = "inside"}

Step(x, at) == enders' = [enders EXCEPT ![x].at = at]

(* terminate_server                                                        *)
Terminate(x, s) ==
  /\ "terminate" \in Ops
  /\ enders[x].at = "idle" /\ servers[s].life # "absent"
  /\ enders' = [enders EXCEPT ![x] = [@ EXCEPT !.at = "begin", !.s = s]]
  /\ UNCHANGED <<catalog, nextGen, servers, cleanup, ending, preps, clients>>

(* TerminationCoordinator::begin hands out one owner, which seals at once. *)
TermBegin(x) ==
  LET s == enders[x].s  all == enders[x].all IN
  /\ enders[x].at = "begin"
  /\ IF servers[s].claim = "unclaimed"
     THEN /\ servers' = [servers EXCEPT ![s] = [@ EXCEPT !.claim = "pending", !.by = x,
                                                         !.door = "sealed"]]
          /\ Step(x, "sealed")
     ELSE Step(x, IF all THEN "next" ELSE "await") /\ UNCHANGED servers
  /\ UNCHANGED <<catalog, nextGen, cleanup, ending, preps, clients>>

TermClosing(x) ==
  /\ enders[x].at = "sealed"
  /\ servers' = [servers EXCEPT ![enders[x].s].life = "closing"]
  /\ Step(x, "capture")
  /\ UNCHANGED <<catalog, nextGen, cleanup, ending, preps, clients>>

TermCapture(x) ==
  LET s == enders[x].s IN
  /\ enders[x].at = "capture"
  /\ servers' = [servers EXCEPT ![s] = [@ EXCEPT !.captured = Range(servers[s].subs), !.subs = <<>>]]
  /\ Step(x, IF enders[x].all THEN "next" ELSE "cancel")
  /\ UNCHANGED <<catalog, nextGen, cleanup, ending, preps, clients>>

(* request_cancel of the captured owners; a panic is recorded later.       *)
TermCancel(x) ==
  /\ enders[x].at = "cancel"
  /\ Recorded
  /\ enders' = [enders EXCEPT ![x] =
        [@ EXCEPT !.at = IF @ = "cancel" /\ enders[x].all THEN "finished" ELSE "finish"]]
  /\ UNCHANGED <<catalog, nextGen, servers, cleanup, gate, closing, sources, preps, clients>>

(* A broken variant: the tables are taken while operations still run.      *)
NoWait(s) == TRUE

Drained(s) == ServerUsers(s) = {}

(* PublishTerminationStart::wait, then finish_termination takes the tables. *)
TermDrain(x) ==
  LET s == enders[x].s  sv == servers[s] IN
  /\ enders[x].at = "finish"
  /\ Drained(s)
  /\ servers' = [servers EXCEPT ![s] =
        [@ EXCEPT !.life = "terminated", !.active = <<>>, !.byId = <<>>,
                  !.retired = {[id |-> sv.active[t].id, gen |-> sv.active[t].gen] :
                                   t \in DOMAIN sv.active}]]
  /\ Step(x, "clean")
  /\ UNCHANGED <<catalog, nextGen, cleanup, ending, preps, clients>>

(* A broken variant: only the connections of the table are cleaned up.     *)
RetiredOnly(s) ==
  {i \in DOMAIN entries : entries[i].server = s
                          /\ [id |-> i, gen |-> entries[i].gen] \in servers[s].retired}

(* The connections of the table, and every entry the server has claimed    *)
(* without getting it active.                                              *)
Affected(s) ==
  {i \in DOMAIN entries : entries[i].server = s
                          /\ (entries[i].phase = "active" =>
                                [id |-> i, gen |-> entries[i].gen] \in servers[s].retired)}

TermClean(x) ==
  LET s == enders[x].s
      reset == [i \in Affected(s) |-> Unbound(entries[i])]
      removed == {i \in Affected(s) : CanRemove(reset[i])}
  IN  /\ enders[x].at = "clean"
      /\ entries' = Without(reset @@ entries, removed)
      /\ servers' = [servers EXCEPT ![s] = [@ EXCEPT !.captured = @ \cup Range(servers[s].subs),
                                                     !.subs = <<>>, !.retired = {}]]
      /\ Step(x, "disconnect")
      /\ UNCHANGED <<nextId, nextGen, cleanup, ending, preps, clients>>

(* disconnect_all_no_unwind, one barrier after the other.                  *)
TermDisconnect(x) ==
  LET s == enders[x].s IN
  /\ enders[x].at = "disconnect"
  /\ \/ /\ servers[s].captured = {}
        /\ servers' = [servers EXCEPT ![s] = [@ EXCEPT !.claim = "done", !.by = Nobody]]
        /\ Step(x, IF enders[x].all THEN "finished" ELSE "done")
        /\ UNCHANGED <<sinks, reserved, failed>>
     \/ \E g \in servers[s].captured :
           /\ Stops(g)
           /\ servers' = [servers EXCEPT ![s].captured = @ \ {g}]
           /\ UNCHANGED enders
  /\ UNCHANGED <<catalog, nextGen, jobs, worker, gate, closing, sources, preps, clients>>

(* TerminationWaiter::wait, of a server or of the runtime.                 *)
TermAwait(x) ==
  /\ \/ /\ enders[x].at = "await" /\ servers[enders[x].s].claim = "done"
        /\ Step(x, IF enders[x].all THEN "finished" ELSE "done")
     \/ /\ enders[x].at = "awaitAll" /\ closing \in {"completed", "failed"}
        /\ Step(x, "done")
  /\ UNCHANGED <<catalog, nextGen, servers, cleanup, ending, preps, clients>>

-----------------------------------------------------------------------------
(* Termination of the runtime.                                             *)

(* RuntimeTermination::begin, and the gate is sealed by the owner.         *)
Close(x) ==
  /\ "close" \in Ops
  /\ enders[x].at = "idle"
  /\ IF closing = "unclaimed"
     THEN /\ closing' = "pending" /\ gate' = "sealed"
          /\ enders' = [enders EXCEPT ![x] = [@ EXCEPT !.at = "stop", !.all = TRUE]]
     ELSE Step(x, "awaitAll") /\ UNCHANGED <<closing, gate>>
  /\ UNCHANGED <<catalog, nextGen, servers, cleanup, sources, failed, preps, clients>>

(* A broken variant: the sources hear of the stop once everybody is out.   *)
StopsLast == RuntimeUsers = {}

StopAtOnce == TRUE

(* request_stop: every source hears of it before anybody is waited for.    *)
StopSources(x) ==
  /\ enders[x].at = "stop"
  /\ StopAtOnce
  /\ sources' = "stopping"
  /\ Recorded
  /\ Step(x, "drain")
  /\ UNCHANGED <<catalog, nextGen, servers, cleanup, gate, closing, preps, clients>>

Registered == {s \in Servers : servers[s].life # "absent"}

(* drain_sink_users: the runtime gate; then all servers are begun, all     *)
(* cancelled, and then each is finished or awaited.                        *)
CloseDrained(x) ==
  /\ enders[x].at = "drain" /\ RuntimeUsers = {}
  /\ enders' = [enders EXCEPT ![x] = [@ EXCEPT !.at = "next", !.left = Registered]]
  /\ UNCHANGED <<catalog, nextGen, servers, cleanup, ending, preps, clients>>

CloseNext(x) ==
  /\ \/ /\ enders[x].at = "next" /\ enders[x].left = {}
        /\ enders' = [enders EXCEPT ![x] = [@ EXCEPT !.at = "cancel", !.left = Registered]]
     \/ /\ enders[x].at = "finished" /\ enders[x].left = {}
        /\ Step(x, "join")
     \/ \E s \in enders[x].left :
           /\ enders[x].at \in {"next", "finished"}
           /\ enders' = [enders EXCEPT ![x] =
                 [@ EXCEPT !.s = s, !.left = @ \ {s},
                           !.at = CASE @ = "next" -> "begin"
                                    [] servers[s].by = x -> "finish"
                                    [] OTHER -> "await"]]
  /\ UNCHANGED <<catalog, nextGen, servers, cleanup, ending, preps, clients>>

Fail(x) == "fail" \in Ops /\ closing' = "failed" /\ failed' = TRUE /\ Step(x, "done")

(* join_workers: the sources; preparing the dispatch may fail.             *)
JoinSources(x) ==
  /\ enders[x].at = "join"
  /\ \/ sources' = "joined" /\ Recorded /\ Step(x, "worker") /\ UNCHANGED closing
     \/ Fail(x) /\ UNCHANGED sources
  /\ UNCHANGED <<catalog, nextGen, servers, cleanup, gate, preps, clients>>

(* DisconnectPool::stop joins the worker, or keeps it when the preflight   *)
(* fails.                                                                  *)
StopWorker(x) ==
  /\ enders[x].at = "worker"
  /\ \/ /\ jobs = <<>> /\ worker.job = NoJob
        /\ worker' = [worker EXCEPT !.state = "stopped"]
        /\ Step(x, "clear")
        /\ UNCHANGED <<closing, failed>>
     \/ worker.state = "running" /\ Fail(x) /\ UNCHANGED worker
  /\ UNCHANGED <<catalog, nextGen, servers, sinks, reserved, jobs, gate, sources, preps, clients>>

CloseClear(x) ==
  /\ enders[x].at = "clear"
  /\ entries' = <<>>
  /\ closing' = "completed"
  /\ Step(x, "done")
  /\ UNCHANGED <<nextId, nextGen, servers, cleanup, gate, sources, failed, preps, clients>>

-----------------------------------------------------------------------------
PrepareStep(p) == Prepare(p) \/ \E committed \in BOOLEAN : FinishPreparation(p, committed)
ClientStep(c) ==
  \/ Connect(c) \/ Begin(c) \/ ReservePublication(c) \/ Unreserve(c) \/ ReserveCleanup(c)
  \/ Subscribe(c) \/ Install(c) \/ CommitPublication(c) \/ CommitCatalog(c)
  \/ UndoPublication(c) \/ UndoCatalog(c) \/ Barrier(c) \/ RetireCatalog(c) \/ Defer(c)
EnderStep(x) ==
  \/ TermBegin(x) \/ TermClosing(x) \/ TermCapture(x) \/ TermCancel(x) \/ TermDrain(x)
  \/ TermClean(x) \/ TermDisconnect(x) \/ TermAwait(x)
  \/ StopSources(x) \/ CloseDrained(x) \/ CloseNext(x)
  \/ JoinSources(x) \/ StopWorker(x) \/ CloseClear(x)
WorkerStep == TakeJob \/ FinishJob

Next ==
  \/ \E p \in Preparers : (\E k \in Keys : PrepareEnter(p, k)) \/ PrepareStep(p)
  \/ \E s \in Servers : Register(s)
  \/ \E c \in Clients :
       \/ \E s \in Servers, t \in Topics :
            \/ \E id \in DOMAIN entries : Claim(c, s, t, id)
            \/ \E op \in Ops \cap {"defer", "disconnect"} : Disconnect(c, s, t, op = "defer")
       \/ ClientStep(c)
  \/ WorkerStep
  \/ \E x \in Enders : (\E s \in Servers : Terminate(x, s)) \/ Close(x) \/ EnderStep(x)

Spec == Init /\ [][Next]_vars

(* Threads that are in a call run on; a worksheet call ends by committing  *)
(* or dropping what it prepared.                                           *)
Fairness ==
  /\ \A p \in Preparers : WF_vars(PrepareStep(p))
  /\ \A c \in Clients : WF_vars(ClientStep(c))
  /\ \A x \in Enders : WF_vars(EnderStep(x))
  /\ WF_vars(WorkerStep)
LiveSpec == Spec /\ Fairness

-----------------------------------------------------------------------------
TypeOK ==
  /\ \A i \in DOMAIN entries :
       /\ i < nextId
       /\ entries[i].phase \in {"pending", "connecting", "active"}
       /\ entries[i].reservations \in 0 .. Cardinality(Preparers)
       /\ entries[i].gen < nextGen
       /\ (entries[i].gen = Nil) = (entries[i].phase = "pending")
  /\ reserved \in 0 .. Capacity
  /\ ActiveCount <= Capacity
  /\ Cardinality(Pending) <= MaxPending

(* Every reservation of an entry is held by one prepared call, and an      *)
(* entry nobody has prepared, committed or connected is not kept: the      *)
(* catalog can neither leak its quota nor lose an entry under a caller.    *)
ReservationsExact ==
  \A i \in DOMAIN entries :
    /\ entries[i].reservations = Cardinality({p \in Preparers : preps[p].holds /\ preps[p].id = i})
    /\ ~CanRemove(entries[i])

(* The owner of every sink is in exactly one place: with the client that   *)
(* installs or retires it, in the server's table, captured by termination  *)
(* or in the disconnect queue.  The cleanup capacity is what they hold.    *)
HeldByClient ==
  {clients[c].gen : c \in {d \in Clients :
     \/ clients[d].at \in {"subscribed", "refused", "barrier", "defer"}
     \/ clients[d].at \in {"undone", "retired"} /\ clients[d].own}}
Owned == HeldByClient \cup {j.gen : j \in JobsIn}
         \cup UNION {Range(servers[s].subs) \cup servers[s].captured : s \in Servers}
SinkHasOwner ==
  /\ sinks = Owned
  /\ reserved = Cardinality(sinks) + Cardinality({c \in Clients : clients[c].at = "capacity"})
  /\ \A c \in Clients, s \in Servers :
       clients[c].gen \in HeldByClient => clients[c].gen \notin Range(servers[s].subs)

(* An identity has one entry, and the catalog and the publication tables   *)
(* agree about it unless a thread is under way to tell the other: an       *)
(* active entry has its row, and a row that nobody works on is active.     *)
TablesAgree ==
  /\ \A i, j \in DOMAIN entries : entries[i].key = entries[j].key => i = j
  /\ \A s \in Servers : \A t \in DOMAIN servers[s].active :
       LET row == servers[s].active[t] IN
       /\ row.id \in DOMAIN servers[s].byId /\ servers[s].byId[row.id] = t
       /\ \/ /\ BoundTo(row.id, s, row.gen) /\ entries[row.id].phase = "active"
             /\ t \in DOMAIN servers[s].subs \/ servers[s].claim # "unclaimed"
          \/ \E c \in Clients : clients[c].gen = row.gen
  /\ \A i \in DOMAIN entries :
       entries[i].phase # "pending" =>
         LET sv == servers[entries[i].server]
             row == [id |-> i, gen |-> entries[i].gen]
         IN  \/ row \in Range(sv.active) \cup sv.retired
             \/ \E c \in Clients : clients[c].gen = row.gen

(* A terminated server is left by every sink and every catalog entry, and  *)
(* a closed runtime has no sink, job, worker or entry left; a close that   *)
(* failed has not pretended to join its worker.                            *)
TerminationIsClean ==
  /\ \A s \in Servers : servers[s].claim = "done" =>
       /\ servers[s].subs = <<>> /\ servers[s].captured = {} /\ servers[s].active = <<>>
       /\ \A i \in DOMAIN entries : entries[i].server # s
  /\ closing = "completed" =>
       /\ sinks = {} /\ jobs = <<>> /\ reserved = 0 /\ entries = <<>>
       /\ worker = [state |-> "stopped", job |-> NoJob] /\ sources = "joined"

(* A thread that terminates a server or the runtime comes back, whatever   *)
(* clients, jobs and other owners are in its way, and a deferred           *)
(* disconnection is finished; sources whose barriers wait for their shared *)
(* work are told to stop in time.                                          *)
TerminationReturns ==
  \A x \in Enders : enders[x].at # "idle" ~> enders[x].at = "done"
JobsFinish == \A g \in 1 .. MaxGen : (\E j \in JobsIn : j.gen = g) ~> g \notin sinks
=============================================================================
