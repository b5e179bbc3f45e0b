----------------------------- MODULE PollerPool -----------------------------
(***************************************************************************)
(* The built-in executor: runnables are pushed to an injector, pollers     *)
(* take them in batches into local queues, steal from each other, and park *)
(* when they find nothing.  A pusher and a poller that is about to park    *)
(* agree through the mask of idle pollers and the parkers' tokens.  A      *)
(* poller that panics returns its local queue; the last one to fail seals  *)
(* the queue and drops what is left.  The owner starts, closes and joins.  *)
(*                                                                         *)
(* The order within a queue does not matter here: queues are sets, and a   *)
(* stolen batch is any subset.                                             *)
(***************************************************************************)
EXTENDS Integers, Sequences, FiniteSets, FiniteSetsExt, TLC

CONSTANTS Runnables,  \* scheduled once each
          N           \* pollers

Pollers == 1..N
NoPoller == 0

VARIABLES
  injector, local,  \* the queues
  mask,             \* idle_pollers
  token,            \* pollers whose parker holds a token
  callbacks,        \* scheduler_callbacks
  door,             \* schedule_admission
  live, failed,
  pol,              \* every poller: pc, announced idle, job, whom it wakes
  sch,              \* every schedule call: pc and whom it wakes
  ran, dropped,     \* what became of the runnables
  own               \* the thread that owns the pool

queues == <<injector, local>>
wakes == <<mask, token>>
gates == <<callbacks, door>>
vars == <<queues, wakes, gates, live, failed, pol, sch, ran, dropped, own>>

Init ==
  /\ injector = {} /\ local = [p \in Pollers |-> {}]
  /\ mask = {} /\ token = {}
  /\ callbacks = "open" /\ door = "open"
  /\ live = 0 /\ failed = "no"
  /\ pol = [p \in Pollers |-> [pc |-> "unborn", idle |-> "no", job |-> NoPoller, wakes |-> NoPoller]]
  /\ sch = [r \in Runnables |-> [pc |-> "new", wakes |-> NoPoller]]
  /\ ran = {} /\ dropped = {}
  /\ own = "starting"

Poller(p, change) == pol' = [pol EXCEPT ![p] = change @@ @]
Schedule(r, change) == sch' = [sch EXCEPT ![r] = change @@ @]
Permits == {r \in Runnables : sch[r].pc \in {"permit", "pushed", "claimed"}}
Inside == Permits \cup {r \in Runnables : sch[r].pc \in {"inside", "checked"}}

(* claim_idle_poller takes the lowest bit of the mask, if there is one.    *)
Claimed == IF mask = {} THEN NoPoller ELSE Min(mask)

-----------------------------------------------------------------------------
(* PoolShared::schedule and RunnableQueue::schedule.                       *)
ScheduleFrame == <<local, live, failed, pol, ran, own, gates>>

(* reserve and submit; afterwards the task's waker comes the same way.     *)
(* The registry admits no task, and so none is scheduled, once it closes.  *)
EnterCallback(r) ==
  /\ sch[r].pc = "new" /\ own = "running"
  /\ IF callbacks = "sealed"
     THEN Schedule(r, [pc |-> "done"]) /\ dropped' = dropped \cup {r}
     ELSE Schedule(r, [pc |-> "inside"]) /\ UNCHANGED dropped
  /\ UNCHANGED <<injector, wakes, ScheduleFrame>>

CheckLive(r) ==
  /\ sch[r].pc = "inside"
  /\ IF live = 0
     THEN Schedule(r, [pc |-> "done"]) /\ dropped' = dropped \cup {r}
     ELSE Schedule(r, [pc |-> "checked"]) /\ UNCHANGED dropped
  /\ UNCHANGED <<injector, wakes, ScheduleFrame>>

Admits == door = "open"

EnterQueue(r) ==
  /\ sch[r].pc = "checked"
  /\ IF Admits
     THEN Schedule(r, [pc |-> "permit"]) /\ UNCHANGED dropped
     ELSE Schedule(r, [pc |-> "done"]) /\ dropped' = dropped \cup {r}
  /\ UNCHANGED <<injector, wakes, ScheduleFrame>>

Push(r) ==
  /\ sch[r].pc = "permit"
  /\ injector' = injector \cup {r}
  /\ Schedule(r, [pc |-> "pushed"])
  /\ UNCHANGED <<wakes, dropped, ScheduleFrame>>

WakeOne(r) ==
  /\ sch[r].pc = "pushed"
  /\ mask' = mask \ {Claimed}
  /\ Schedule(r, [pc |-> "claimed", wakes |-> Claimed])
  /\ UNCHANGED <<injector, token, dropped, ScheduleFrame>>

Unpark(r) ==
  /\ sch[r].pc = "claimed"
  /\ token' = token \cup ({sch[r].wakes} \ {NoPoller})
  /\ Schedule(r, [pc |-> "done"])
  /\ UNCHANGED <<injector, mask, dropped, ScheduleFrame>>

-----------------------------------------------------------------------------
(* run_poller.                                                             *)
PollFrame == <<gates, sch, dropped, own>>

(* A broken variant: the batch is copied and stays stealable.              *)
CopiesBatch(r, batch) == injector \ {r}

TakesBatch(r, batch) == injector \ (batch \cup {r})

(* find_task: the local queue, a batch of the injector, then the peers.    *)
LookLocal(p) ==
  /\ pol[p].pc = "look"
  /\ \/ \E r \in local[p] :
          /\ local' = [local EXCEPT ![p] = @ \ {r}]
          /\ Poller(p, [pc |-> "ready", job |-> r])
          /\ UNCHANGED injector
     \/ /\ local[p] = {}
        /\ \E r \in injector : \E batch \in SUBSET (injector \ {r}) :
             /\ injector' = TakesBatch(r, batch)
             /\ local' = [local EXCEPT ![p] = batch]
             /\ Poller(p, [pc |-> IF batch # {} THEN "wake" ELSE "ready", job |-> r])
     \/ /\ local[p] = {} /\ injector = {}
        /\ Poller(p, [pc |-> "peers"])
        /\ UNCHANGED queues
  /\ UNCHANGED <<wakes, live, failed, ran, PollFrame>>

StealPeer(p) ==
  /\ pol[p].pc = "peers"
  /\ \/ \E q \in Pollers \ {p} : \E r \in local[q] :
          /\ local' = [local EXCEPT ![q] = @ \ {r}]
          /\ Poller(p, [pc |-> IF local[q] # {r} THEN "wake" ELSE "ready", job |-> r])
     \/ /\ \A q \in Pollers \ {p} : local[q] = {}
        /\ Poller(p, [pc |-> IF pol[p].idle = "no" THEN "announce" ELSE "check"])
        /\ UNCHANGED local
  /\ UNCHANGED <<injector, wakes, live, failed, ran, PollFrame>>

(* A poller that leaves work behind wakes another one.                     *)
PollerWakes(p) ==
  /\ \/ /\ pol[p].pc = "wake"
        /\ mask' = mask \ {Claimed}
        /\ Poller(p, [pc |-> "unpark", wakes |-> Claimed])
        /\ UNCHANGED token
     \/ /\ pol[p].pc = "unpark"
        /\ token' = token \cup ({pol[p].wakes} \ {NoPoller})
        /\ Poller(p, [pc |-> "ready", wakes |-> NoPoller])
        /\ UNCHANGED mask
  /\ UNCHANGED <<queues, live, failed, ran, PollFrame>>

(* An announced poller that found work withdraws its bit.                  *)
ClearBit(p) ==
  /\ pol[p].pc = "ready"
  /\ mask' = IF pol[p].idle = "yes" THEN mask \ {p} ELSE mask
  /\ Poller(p, [pc |-> "run", idle |-> "no"])
  /\ UNCHANGED <<queues, token, live, failed, ran, PollFrame>>

Run(p) ==
  /\ pol[p].pc = "run"
  /\ ran' = ran \cup {pol[p].job}
  /\ Poller(p, [pc |-> "look", job |-> NoPoller])
  /\ UNCHANGED <<queues, wakes, live, failed, PollFrame>>

(* A broken variant: parks after its first look, without the recheck.      *)
ParksAtOnce == "check"

Rechecks == "look"

AnnounceIdle(p) ==
  /\ pol[p].pc = "announce"
  /\ mask' = mask \cup {p}
  /\ Poller(p, [pc |-> Rechecks, idle |-> "yes"])
  /\ UNCHANGED <<queues, token, live, failed, ran, PollFrame>>

CheckSealed(p) ==
  /\ pol[p].pc = "check"
  /\ IF door = "sealed"
     THEN mask' = mask \ {p} /\ Poller(p, [pc |-> "exit", idle |-> "no"])
     ELSE Poller(p, [pc |-> "park"]) /\ UNCHANGED mask
  /\ UNCHANGED <<queues, token, live, failed, ran, PollFrame>>

Park(p) ==
  /\ pol[p].pc = "park" /\ p \in token
  /\ token' = token \ {p}
  /\ Poller(p, [pc |-> "unparked"])
  /\ UNCHANGED <<queues, mask, live, failed, ran, PollFrame>>

Unparked(p) ==
  /\ pol[p].pc = "unparked"
  /\ mask' = mask \ {p}
  /\ Poller(p, [pc |-> "look", idle |-> "no"])
  /\ UNCHANGED <<queues, token, live, failed, ran, PollFrame>>

-----------------------------------------------------------------------------
(* PollerExitGuard::drop.                                                  *)
(* A panicking run ends its runnable too.                                  *)
Panic(p) ==
  /\ pol[p].pc = "run"
  /\ ran' = ran \cup {pol[p].job}
  /\ Poller(p, [pc |-> "recover", job |-> NoPoller])
  /\ UNCHANGED <<queues, wakes, live, failed, PollFrame>>

(* A broken variant: the local queue dies with its poller.                 *)
LosesLocal(p) == injector

ReturnsLocal(p) == injector \cup local[p]

Recover(p) ==
  /\ pol[p].pc = "recover"
  /\ injector' = ReturnsLocal(p)
  /\ local' = [local EXCEPT ![p] = {}]
  /\ failed' = "yes"
  /\ Poller(p, [pc |-> "clearing"])
  /\ UNCHANGED <<wakes, live, ran, PollFrame>>

(* wake_all clears the mask, then leaves a token with everyone.            *)
WakeAll(p) ==
  /\ \/ /\ pol[p].pc \in {"clearing", "lastclear"}
        /\ mask' = {} /\ UNCHANGED token
        /\ Poller(p, [pc |-> IF pol[p].pc = "clearing" THEN "tokens" ELSE "lasttokens"])
     \/ /\ pol[p].pc \in {"tokens", "lasttokens"}
        /\ token' = Pollers /\ UNCHANGED mask
        /\ Poller(p, [pc |-> IF pol[p].pc = "tokens" THEN "exit" ELSE "sweep"])
  /\ UNCHANGED <<queues, live, failed, ran, PollFrame>>

CleansUp == live = 1 /\ failed = "yes"

ReleasePoller(p) ==
  /\ pol[p].pc = "exit"
  /\ live' = live - 1
  /\ Poller(p, [pc |-> IF CleansUp THEN "seal" ELSE "dead"])
  /\ UNCHANGED <<queues, wakes, failed, ran, PollFrame>>

SealFailed(p) ==
  /\ \/ pol[p].pc = "seal" /\ door' = "sealed" /\ Poller(p, [pc |-> "drain"])
     \/ pol[p].pc = "drain" /\ Permits = {} /\ UNCHANGED door /\ Poller(p, [pc |-> "lastclear"])
  /\ UNCHANGED <<queues, wakes, callbacks, live, failed, sch, ran, dropped, own>>

DrainAbandoned(p) ==
  /\ pol[p].pc = "sweep"
  /\ dropped' = dropped \cup injector \cup UNION {local[q] : q \in Pollers}
  /\ injector' = {} /\ local' = [q \in Pollers |-> {}]
  /\ Poller(p, [pc |-> "dead"])
  /\ UNCHANGED <<wakes, gates, live, failed, sch, ran, own>>

-----------------------------------------------------------------------------
(* The owner: Pool::start spawns one poller after the other and may fail;  *)
(* close_and_join seals both gates, wakes everyone and joins.              *)
OwnFrame == <<queues, failed, sch, ran, dropped>>

Spawn ==
  /\ own = "starting" /\ live < N
  /\ live' = live + 1
  /\ Poller(live + 1, [pc |-> "look"])
  /\ UNCHANGED <<wakes, gates, own, OwnFrame>>

Started ==
  /\ own = "starting"
  /\ own' = IF live = N THEN "running" ELSE "closing"
  /\ UNCHANGED <<wakes, gates, live, pol, OwnFrame>>

(* A broken variant: the executor is stopped with tasks in it.             *)
StopsAtOnce == TRUE

(* The runtime stops the executor once its task registry has drained, for  *)
(* a poller that finds the queue sealed leaves without another look.       *)
TasksDrained == \A r \in Runnables : r \in ran \cup dropped \/ sch[r].pc = "new"

BeginClose ==
  /\ own = "running" /\ TasksDrained
  /\ own' = "closing"
  /\ UNCHANGED <<wakes, gates, live, pol, OwnFrame>>

SealCallbacks ==
  /\ own = "closing"
  /\ callbacks' = "sealed"
  /\ own' = "callbacks"
  /\ UNCHANGED <<wakes, door, live, pol, OwnFrame>>

SealQueue ==
  /\ own = "callbacks" /\ Inside = {}
  /\ door' = "sealed"
  /\ own' = "sealed"
  /\ UNCHANGED <<wakes, callbacks, live, pol, OwnFrame>>

(* A broken variant: parked pollers are left as they are.                  *)
NoTokens == token

AllTokens == Pollers

WakePollers ==
  /\ \/ own = "sealed" /\ Permits = {} /\ mask' = {} /\ own' = "waking" /\ UNCHANGED token
     \/ own = "waking" /\ token' = AllTokens /\ own' = "joining" /\ UNCHANGED mask
  /\ UNCHANGED <<gates, live, pol, OwnFrame>>

Join ==
  /\ own = "joining"
  /\ \A p \in Pollers : pol[p].pc \in {"dead", "unborn"}
  /\ own' = "stopped"
  /\ UNCHANGED <<wakes, gates, live, pol, OwnFrame>>

-----------------------------------------------------------------------------
Scheduling(r) ==
  \/ EnterCallback(r) \/ CheckLive(r) \/ EnterQueue(r) \/ Push(r) \/ WakeOne(r) \/ Unpark(r)

Polling(p) ==
  \/ LookLocal(p) \/ StealPeer(p) \/ PollerWakes(p) \/ ClearBit(p) \/ Run(p)
  \/ AnnounceIdle(p) \/ CheckSealed(p) \/ Park(p) \/ Unparked(p)
  \/ Recover(p) \/ WakeAll(p) \/ ReleasePoller(p) \/ SealFailed(p) \/ DrainAbandoned(p)

Owning == Spawn \/ Started \/ SealCallbacks \/ SealQueue \/ WakePollers \/ Join

Finished ==
  /\ own = "stopped"
  /\ \A r \in Runnables : sch[r].pc \in {"new", "done"}
  /\ UNCHANGED vars

Next ==
  \/ \E r \in Runnables : Scheduling(r)
  \/ \E p \in Pollers : Polling(p) \/ Panic(p)
  \/ Owning \/ BeginClose
  \/ Finished

Spec == Init /\ [][Next]_vars

(* Threads are scheduled, and polls return; closing is the runtime's wish. *)
Fairness ==
  /\ \A r \in Runnables : WF_vars(sch[r].pc # "new" /\ Scheduling(r))
  /\ \A p \in Pollers : WF_vars(Polling(p))
  /\ WF_vars(Owning)

LiveSpec == Spec /\ Fairness

-----------------------------------------------------------------------------
(* The sets every variable stays in; a runnable is in one place at a time, *)
(* in a queue, with a poller, run or dropped.                              *)
TypeOK ==
  /\ mask \subseteq Pollers /\ token \subseteq Pollers
  /\ live = Cardinality({p \in Pollers : pol[p].pc \notin {"unborn", "dead", "seal", "drain", "lastclear", "lasttokens", "sweep"}})
  /\ LET places == <<injector, ran, dropped>> \o local
     IN \A i, j \in DOMAIN places : i # j => places[i] \cap places[j] = {}

Asleep(p) == pol[p].pc \in {"park", "unborn", "dead"} /\ p \notin token

(* Queued work never sits before a pool that is all asleep: a live poller  *)
(* is awake or about to be woken, or a pusher has yet to wake one.         *)
NoLostWakeup ==
  injector \cup UNION {local[p] : p \in Pollers} # {} =>
    \/ \E p \in Pollers : ~Asleep(p)
    \/ \E r \in Runnables : sch[r].pc = "pushed" \/ (sch[r].pc = "claimed" /\ sch[r].wakes # NoPoller)

(* Once the pool has stopped, or its last poller has failed and cleaned    *)
(* up, no runnable is left in a queue.                                     *)
NothingAbandoned ==
  /\ own = "stopped" \/ (own = "running" /\ \A p \in Pollers : pol[p].pc = "dead")
  /\ Permits = {}
  => injector = {} /\ \A p \in Pollers : local[p] = {}

(* Whatever is scheduled is run, or dropped by a pool that cannot run it.  *)
ScheduledIsServed ==
  \A r \in Runnables : sch[r].pc = "inside" ~> r \in ran \cup dropped

(* A close joins every poller, parked, busy or failed.                     *)
CloseJoins == own = "closing" ~> own = "stopped"
=============================================================================
