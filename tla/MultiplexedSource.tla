-------------------------- MODULE MultiplexedSource --------------------------
(***************************************************************************)
(* A source that serves all of its topics from one worker thread           *)
(* (subscription/multiplex.rs).  The first subscription starts the worker; *)
(* registrations and removals reach it as control events; a removal keeps  *)
(* its subscription slot until the producer has read it, and the room for  *)
(* it in the queue is reserved when the subscription registers.  Shutdown  *)
(* stops the source and joins the worker, or destroys the job that was     *)
(* never started.                                                          *)
(*                                                                         *)
(* The channel of a subscription (RtdChannel) is only open, told of the    *)
(* end (cancelled or completed) or closed here.                            *)
(***************************************************************************)
EXTENDS Naturals, Sequences, FiniteSets, SequencesExt

CONSTANTS Callers,                    \* threads that subscribe
          Stoppers,                   \* threads that request a stop or shut down
          SourceLimit,                \* subscription slots of the source
          MaxId,                      \* registrations in a behaviour
          Nobody

VARIABLES shared,      \* the registry: events, active, removals, next, closed, room
          worker,      \* the canonical slot of the worker, its mutex and the started flag
          job,         \* where the producer is
          thread,      \* the worker thread, and what it took when it completed
          slots,       \* subscription slots in use
          workers,     \* worker permits in use
          channels,    \* what the channel of a registration has been told
          callers, stoppers,
          known        \* registrations that the producer has read and not seen removed
vars == <<shared, worker, job, thread, slots, workers, channels, callers, stoppers, known>>

Ids == 1..MaxId
Nothing == [active |-> {}, events |-> <<>>]
Subscribe(i) == [kind |-> "subscribe", id |-> i]
Unsubscribe(i) == [kind |-> "unsubscribe", id |-> i]
\* The slots that a queue of events holds.
Held(events) == Cardinality({k \in DOMAIN events : events[k].kind = "unsubscribe"})

\* Shared::new, RtdMultiplexedSource::new
Init ==
  /\ shared = [events |-> <<>>, active |-> {}, removals |-> 0, next |-> 0, closed |-> FALSE, room |-> 0]
  /\ worker = [at |-> "unstarted", lock |-> Nobody, started |-> FALSE]
  /\ job = "slot"
  /\ thread = [at |-> "none", took |-> Nothing]
  /\ slots = 0 /\ workers = 0
  /\ channels = [i \in Ids |-> "none"]
  /\ callers = [t \in Callers |-> [at |-> "idle", id |-> 0]]
  /\ stoppers = [s \in Stoppers |-> [at |-> "idle", joins |-> FALSE, took |-> Nothing]]
  /\ known = {}

CallerAt(t, at) == callers' = [callers EXCEPT ![t].at = at]
Fails(t) == CallerAt(t, "idle") /\ slots' = slots - 1
Unlocks(t) == IF worker.lock = t THEN Nobody ELSE worker.lock

-----------------------------------------------------------------------------
(* RtdSource::subscribe: the channel is attached under a slot of the source; the validator *)
(* may refuse the topic, which rolls the channel back. *)
Attach(t) ==
  /\ callers[t].at = "idle" /\ slots < SourceLimit
  /\ shared.next + Cardinality({u \in Callers : callers[u].id = 0 /\ callers[u].at # "idle"}) < MaxId
  /\ slots' = slots + 1
  /\ CallerAt(t, "attached")
  /\ UNCHANGED <<shared, worker, job, thread, workers, channels, stoppers, known>>
RefuseTopic(t) ==
  /\ callers[t].at = "attached" /\ Fails(t)
  /\ UNCHANGED <<shared, worker, job, thread, workers, channels, stoppers, known>>

(* start: a worker that was seen running needs no lock. *)
LoadStarted(t) ==
  /\ callers[t].at = "attached"
  /\ CallerAt(t, IF worker.started THEN "register" ELSE "lock")
  /\ UNCHANGED <<shared, worker, job, thread, slots, workers, channels, stoppers, known>>

(* start, behind the worker's mutex. *)
LockWorker(t) ==
  /\ callers[t].at = "lock" /\ worker.lock = Nobody
  /\ IF shared.closed \/ worker.at \in {"joining", "joined"}
     THEN Fails(t) /\ UNCHANGED <<worker, job>>
     ELSE IF worker.at = "running"
     THEN /\ worker' = [worker EXCEPT !.lock = t]
          /\ CallerAt(t, "register") /\ UNCHANGED <<job, slots>>
     ELSE /\ worker' = [worker EXCEPT !.at = "joining", !.lock = t]
          /\ job' = "caller"
          /\ CallerAt(t, "permit") /\ UNCHANGED slots
  /\ UNCHANGED <<shared, thread, workers, channels, stoppers, known>>

(* A broken variant: the source keeps the slot empty after a failed start. *)
LosesJob == [worker EXCEPT !.at = "joined", !.lock = Nobody]
\* UnstartedWorker::drop, WorkerStart::drop: the job goes back where it was.
Restored == [worker EXCEPT !.at = "unstarted", !.lock = Nobody]

\* ChannelBudget::try_worker: refused when the runtime has no worker left.
TakePermit(t, ok) ==
  /\ callers[t].at = "permit"
  /\ IF ok THEN workers' = workers + 1 /\ CallerAt(t, "first") /\ UNCHANGED <<worker, job, slots>>
     ELSE worker' = Restored /\ job' = "slot" /\ Fails(t) /\ UNCHANGED workers
  /\ UNCHANGED <<shared, thread, channels, stoppers, known>>

(* A broken variant: room for one event per subscription. *)
RoomForOne == Cardinality(shared.active) + shared.removals + 1
\* The subscribe event of every retained subscription and its future removal.
Controls == 2 * (Cardinality(shared.active) + shared.removals + 1)
\* try_reserve(controls - len): at least this much room, and never less than before.
Reserved == IF Controls > shared.room THEN Controls ELSE shared.room

\* Shared::register, register_channel
Register(t) ==
  /\ callers[t].at \in {"register", "first"}
  /\ IF shared.closed
     THEN IF callers[t].at = "first"
          THEN /\ worker' = Restored /\ job' = "slot" /\ workers' = workers - 1
               /\ Fails(t) /\ UNCHANGED <<shared, channels>>
          ELSE /\ worker' = [worker EXCEPT !.lock = Unlocks(t)]
               /\ Fails(t) /\ UNCHANGED <<shared, channels, job, workers>>
     ELSE LET i == shared.next + 1 IN
          /\ shared' = [shared EXCEPT !.next = i, !.active = @ \cup {i}, !.room = Reserved,
                                      !.events = Append(@, Subscribe(i))]
          /\ channels' = [channels EXCEPT ![i] = "open"]
          /\ callers' = [callers EXCEPT ![t] =
               [at |-> IF @.at = "first" THEN "spawn" ELSE "subscribed", id |-> i]]
          /\ worker' = IF callers[t].at = "first" THEN worker
                       ELSE [worker EXCEPT !.lock = Unlocks(t)]
          /\ UNCHANGED <<job, workers, slots>>
  /\ UNCHANGED <<thread, stoppers, known>>

-----------------------------------------------------------------------------
(* A broken variant: the events that are thrown away keep their slots. *)
KeepsSlots(took) == slots
\* The events taken from a closed registry are dropped, with the slots in them.
SlotsWithout(took) == slots - Held(took.events)

Took == [active |-> shared.active, events |-> shared.events]
\* What stop and complete do under the lock; the next registration finds it closed.
Closed == [shared EXCEPT !.closed = TRUE, !.removals = 0, !.active = {}, !.events = <<>>]
\* RtdSender::cancel, complete of everyone who was registered.
Told(took) == [i \in Ids |-> IF i \in took.active /\ channels[i] = "open" THEN "told" ELSE channels[i]]

(* WorkerStart::spawn: the thread starts before the caller has installed it. *)
Spawn(t) ==
  /\ callers[t].at = "spawn"
  /\ thread' = [thread EXCEPT !.at = "running"] /\ job' = "thread"
  /\ CallerAt(t, "install")
  /\ UNCHANGED <<shared, worker, slots, workers, channels, stoppers, known>>
(* RunningWorker::install *)
Install(t) ==
  /\ callers[t].at = "install"
  /\ worker' = [at |-> "running", lock |-> Nobody, started |-> TRUE]
  /\ CallerAt(t, "subscribed")
  /\ UNCHANGED <<shared, job, thread, slots, workers, channels, stoppers, known>>
(* The system gives no thread: the job is kept, the source closed and the subscription ended *)
(* before the mutex is let go. *)
SpawnFails(t) ==
  /\ callers[t].at = "spawn"
  /\ worker' = [Restored EXCEPT !.lock = t] /\ job' = "slot"
  /\ workers' = workers - 1
  /\ shared' = Closed /\ channels' = Told(Took) /\ slots' = SlotsWithout(Took)
  /\ CallerAt(t, "unwind")
  /\ UNCHANGED <<thread, stoppers, known>>

-----------------------------------------------------------------------------
(* RtdMultiplexedSubscription::finish: the channel's barrier first. *)
CloseChannel(t) ==
  /\ callers[t].at \in {"subscribed", "unwind"}
  /\ channels' = [channels EXCEPT ![callers[t].id] = "closed"]
  /\ CallerAt(t, "unregister")
  /\ UNCHANGED <<shared, worker, job, thread, slots, workers, stoppers, known>>

(* A broken variant: a removal gives its slot back before the producer has heard of it. *)
FreesAtOnce(i) == slots - 1
\* The permit travels in the event; a closed source has no event and drops it.
SlotsAfter(i) == IF shared.closed THEN slots - 1 ELSE slots

\* Shared::unregister
Unregister(t) ==
  LET i == callers[t].id IN
  /\ callers[t].at = "unregister"
  /\ shared' = IF shared.closed THEN [shared EXCEPT !.active = @ \ {i}]
               ELSE [shared EXCEPT !.active = @ \ {i}, !.removals = @ + 1,
                                   !.events = Append(@, Unsubscribe(i))]
  /\ slots' = SlotsAfter(i)
  /\ worker' = [worker EXCEPT !.lock = Unlocks(t)]
  /\ callers' = [callers EXCEPT ![t] = [at |-> "idle", id |-> 0]]
  /\ UNCHANGED <<job, thread, workers, channels, stoppers, known>>

-----------------------------------------------------------------------------
(* RtdSourceContext::recv_timeout; a closed context gives Closing instead. *)
Receive ==
  /\ thread.at = "running" /\ ~shared.closed /\ shared.events # <<>>
  /\ LET e == Head(shared.events) IN
       IF e.kind = "subscribe"
       THEN /\ shared' = [shared EXCEPT !.events = Tail(@)]
            /\ known' = known \cup {e.id} /\ UNCHANGED slots
       ELSE /\ shared' = [shared EXCEPT !.events = Tail(@), !.removals = @ - 1]
            /\ known' = known \ {e.id} /\ slots' = slots - 1
  /\ UNCHANGED <<worker, job, thread, workers, channels, callers, stoppers>>

(* Shared::complete after the producer has returned, failed or panicked ... *)
Complete ==
  /\ thread.at = "running"
  /\ thread' = [at |-> "completing", took |-> Took] /\ job' = "gone"
  /\ shared' = Closed
  /\ UNCHANGED <<worker, slots, workers, channels, callers, stoppers, known>>
(* ... and what it does once it has let the registry go. *)
Completed ==
  /\ thread.at = "completing"
  /\ thread' = [at |-> "exited", took |-> Nothing]
  /\ channels' = Told(thread.took) /\ slots' = SlotsWithout(thread.took)
  /\ UNCHANGED <<shared, worker, job, workers, callers, stoppers, known>>

-----------------------------------------------------------------------------
(* request_stop, and the first half of shutdown_and_wait and drop: Shared::stop. *)
Stop(s, joins) ==
  /\ stoppers[s].at = "idle"
  /\ stoppers' = [stoppers EXCEPT ![s] = [at |-> "stopping", joins |-> joins, took |-> Took]]
  /\ shared' = Closed
  /\ UNCHANGED <<worker, job, thread, slots, workers, channels, callers, known>>
Stopped(s) ==
  /\ stoppers[s].at = "stopping"
  /\ stoppers' = [stoppers EXCEPT ![s].at = IF stoppers[s].joins THEN "lock" ELSE "idle",
                                  ![s].took = Nothing]
  /\ channels' = Told(stoppers[s].took) /\ slots' = SlotsWithout(stoppers[s].took)
  /\ UNCHANGED <<shared, worker, job, thread, workers, callers, known>>

(* A broken variant: whoever comes second does not wait for the first. *)
NeverWaits(s) == worker.at = "joined" \/ worker.at = "joining"
Joined(s) == worker.at = "joined"

(* WorkerOwner::finish: one thread retires the worker, the others wait for it. *)
LockToJoin(s) ==
  /\ stoppers[s].at = "lock" /\ worker.lock = Nobody
  /\ \/ Joined(s) /\ UNCHANGED worker
        /\ stoppers' = [stoppers EXCEPT ![s].at = "done"]
     \/ worker.at \in {"unstarted", "running"}
        /\ worker' = [worker EXCEPT !.at = "joining"]
        /\ stoppers' = [stoppers EXCEPT ![s].at = IF worker.at = "running" THEN "join" ELSE "destroy"]
  /\ UNCHANGED <<shared, job, thread, slots, workers, channels, callers, known>>
Join(s) ==
  /\ \/ stoppers[s].at = "destroy" /\ job' = "gone" /\ UNCHANGED workers
     \/ stoppers[s].at = "join" /\ thread.at = "exited" /\ workers' = workers - 1 /\ UNCHANGED job
  /\ stoppers' = [stoppers EXCEPT ![s].at = "publish"]
  /\ UNCHANGED <<shared, worker, thread, slots, channels, callers, known>>
PublishJoined(s) ==
  /\ stoppers[s].at = "publish" /\ worker.lock = Nobody
  /\ worker' = [worker EXCEPT !.at = "joined"]
  /\ stoppers' = [stoppers EXCEPT ![s].at = "done"]
  /\ UNCHANGED <<shared, job, thread, slots, workers, channels, callers, known>>

-----------------------------------------------------------------------------
CallerStep(t) ==
  \/ LoadStarted(t) \/ LockWorker(t) \/ Register(t) \/ Install(t) \/ Unregister(t)
  \/ \E ok \in BOOLEAN : TakePermit(t, ok)
  \/ Spawn(t) \/ SpawnFails(t) \/ (callers[t].at = "unwind" /\ CloseChannel(t))
StopperStep(s) == Stopped(s) \/ LockToJoin(s) \/ Join(s) \/ PublishJoined(s)

Next ==
  \/ \E t \in Callers : Attach(t) \/ RefuseTopic(t) \/ CloseChannel(t) \/ CallerStep(t)
  \/ Receive \/ Complete \/ Completed
  \/ \E s \in Stoppers : StopperStep(s) \/ \E joins \in BOOLEAN : Stop(s, joins)
Spec == Init /\ [][Next]_vars

(* A producer returns when its context is closed; threads run, and get the mutex. *)
Fairness ==
  /\ \A t \in Callers : SF_vars(CallerStep(t))
  /\ \A s \in Stoppers : SF_vars(StopperStep(s))
  /\ WF_vars(shared.closed /\ Complete) /\ WF_vars(Completed)

-----------------------------------------------------------------------------
TypeOK ==
  /\ worker.at \in {"unstarted", "running", "joining", "joined"}
  /\ job \in {"slot", "caller", "thread", "gone"}
  /\ slots \in 0..SourceLimit /\ workers \in 0..1
  /\ shared.removals \in 0..SourceLimit /\ known \subseteq Ids

(* Once a shutdown has returned the worker has exited or never started, its permit is back, *)
(* the producer's captures are gone, and no subscriber can start it again. *)
ShutdownIsABarrier ==
  (\E s \in Stoppers : stoppers[s].at = "done") =>
    /\ thread.at \in {"none", "exited"} /\ job = "gone" /\ workers = 0
    /\ worker.at = "joined" /\ shared.closed

Takers == {stoppers[s].took : s \in Stoppers} \cup {thread.took}

(* The slots in use are exactly those of subscribers on their way or subscribed and of *)
(* removals that the producer has not read: a reconnecting topic cannot outrun its producer. *)
SlotsExact ==
  slots = Cardinality({t \in Callers : callers[t].at # "idle"})
          + Held(shared.events)
          + FoldSet(LAMBDA x, n : n + Held(x.events), 0, Takers)

(* Whoever is still registered can always append its removal without an allocation. *)
RemovalsFit ==
  ~shared.closed =>
    /\ Len(shared.events) + Cardinality(shared.active) <= shared.room
    /\ shared.removals = Held(shared.events)

(* The producer hears of a registration before its removal, and of each once. *)
EventsInOrder ==
  \A k \in DOMAIN shared.events :
    LET e == shared.events[k]
        before == {j \in 1..(k - 1) : shared.events[j] = Subscribe(e.id)} IN
      IF e.kind = "subscribe" THEN before = {} /\ e.id \notin known
      ELSE Cardinality(before) = IF e.id \in known THEN 0 ELSE 1

(* When a source has closed, for whatever reason, no subscriber is left waiting for values. *)
EveryoneIsTold ==
  (shared.closed /\ Takers = {Nothing}) => \A i \in Ids : channels[i] # "open"

(* A shutdown returns although subscribers start, fail and leave meanwhile. *)
ShutdownReturns == \A s \in Stoppers : (stoppers[s].joins) ~> (stoppers[s].at = "done")
=============================================================================
