------------------------------ MODULE MCAsync ------------------------------
(***************************************************************************)
(* Asynchronous functions on small instances: the task registry, the       *)
(* runtime that owns the executor, the poller pool, the cancellation       *)
(* scopes and the delivery of answers.  Each behaviour runs the part that  *)
(* component names; the others stay in their initial states.               *)
(***************************************************************************)
EXTENDS TaskRegistry

CONSTANTS Parts,                                       \* the parts a run looks at
          Closers, Launches, MaxOpens, MaxFailures,    \* AsyncRuntime
          Runnables, N,                                \* PollerPool
          Scopes, Wakers, MaxGen, MaxPolls, None,      \* CancellationSlots
          Calls, Malformed                             \* AsyncDelivery

VARIABLES component,
          slot, held, ptr, spawnDoor, registry, fate, lock, st, cl, la, failures,
          injector, local, mask, token, callbacks, poolDoor, live, failed, pol, sch, ran,
          dropped, poolOwner,
          slots, free, shard, sources, wait, won, woken,
          call, gate, phase

Runtime == INSTANCE AsyncRuntime WITH MaxStarts <- MaxOpens, door <- spawnDoor
Pool == INSTANCE PollerPool WITH door <- poolDoor, own <- poolOwner
(* A scope observed by its framework task, or by Cancelled futures.        *)
TaskScopes == INSTANCE CancellationSlots WITH own <- sources, Kinds <- {"task"}
FutureScopes == INSTANCE CancellationSlots WITH own <- sources, Kinds <- {"future"}
Delivery == INSTANCE AsyncDelivery

runtimeVars == <<slot, held, ptr, spawnDoor, registry, fate, lock, st, cl, la, failures>>
poolVars == <<injector, local, mask, token, callbacks, poolDoor, live, failed, pol, sch, ran,
              dropped, poolOwner>>
scopeVars == <<slots, free, shard, sources, wait, won, woken>>
deliveryVars == <<call, gate, phase>>
asyncVars == <<component, vars, runtimeVars, poolVars, scopeVars, deliveryVars>>

AsyncInit ==
  /\ component \in Parts
  /\ Init /\ Runtime!Init /\ Pool!Init /\ Delivery!Init
  /\ IF component = "tasks" THEN TaskScopes!Init ELSE FutureScopes!Init

RegistryStep == component = "registry" /\ Next
                /\ UNCHANGED <<component, runtimeVars, poolVars, scopeVars, deliveryVars>>
RuntimeStep == component = "runtime" /\ Runtime!Next
               /\ UNCHANGED <<component, vars, poolVars, scopeVars, deliveryVars>>
PoolStep == component = "pool" /\ Pool!Next
            /\ UNCHANGED <<component, vars, runtimeVars, scopeVars, deliveryVars>>
ScopeStep == /\ \/ component = "tasks" /\ TaskScopes!Next
                \/ component = "futures" /\ FutureScopes!Next
             /\ UNCHANGED <<component, vars, runtimeVars, poolVars, deliveryVars>>
DeliveryStep == component = "delivery" /\ Delivery!Next
                /\ UNCHANGED <<component, vars, runtimeVars, poolVars, scopeVars>>

AsyncNext == RegistryStep \/ RuntimeStep \/ PoolStep \/ ScopeStep \/ DeliveryStep
AsyncSpec == AsyncInit /\ [][AsyncNext]_asyncVars

(* Each part under its own fairness; component never changes.              *)
AsyncLiveSpec ==
  /\ AsyncSpec
  /\ \/ []<>(component = "registry") /\ Fairness
     \/ []<>(component = "runtime") /\ Runtime!Fairness
     \/ []<>(component = "pool") /\ Pool!Fairness
     \/ []<>(component = "futures") /\ FutureScopes!Fairness
     \/ []<>(component = "delivery") /\ Delivery!Fairness

(* Tasks, launches, runnables, scopes and calls are two interchangeable    *)
(* threads each; a safety run gives them the same names.                   *)
Symmetry == Permutations(Tasks)

-----------------------------------------------------------------------------
(* The variables of every part have their types; active_tasks counts the   *)
(* live reservations, an executor has one owner, a runnable one place.     *)
Types ==
  /\ TypeOK /\ Runtime!TypeOK /\ Pool!TypeOK /\ Delivery!TypeOK
  /\ IF component = "tasks" THEN TaskScopes!TypeOK ELSE FutureScopes!TypeOK

(* TaskRegistry: once close has cancelled, every task the executor owns    *)
(* has been cancelled or is about to be; a pinned calculation is never     *)
(* reclaimed, a reclaimed one holds no cancellation control, and a stopped *)
(* registry holds no task.                                                 *)
RegistryLosesNoTask ==
  NoTaskEscapesClose /\ PinnedIsOwned /\ NoControlLost /\ StoppedIsQuiet

(* AsyncRuntime: a launch never uses an executor that was shut down or     *)
(* dropped, an executor offered for a retry comes with a claimable         *)
(* registry, and a stopped runtime is empty.                               *)
ExecutorIsLive ==
  Runtime!NoUseAfterShutdown /\ Runtime!PublishedIsOwned /\ Runtime!RetryFindsClaim
  /\ Runtime!StoppedIsEmpty

(* PollerPool: queued work never sits before a pool that is all asleep,    *)
(* and none is left in a stopped or failed pool.                           *)
NoRunnableStranded == Pool!NoLostWakeup /\ Pool!NothingAbandoned

(* CancellationSlots: however often a slot is reused, live scopes hold     *)
(* distinct slots and a scope's wakers are its own; a poll that began      *)
(* after its scope ended answers Ready, and an observer that answered      *)
(* Pending has its last waker registered, about to be called, or called.   *)
ScopesAreSeparate ==
  /\ component = "tasks" =>
       TaskScopes!SlotsAreExclusive /\ TaskScopes!EndedStaysEnded /\ TaskScopes!ParkedIsReachable
  /\ component = "futures" =>
       /\ FutureScopes!WaitersBelong /\ FutureScopes!EndedStaysEnded
       /\ FutureScopes!ParkedIsReachable

(* AsyncDelivery: Excel is called back at most once for a call, no exit    *)
(* path forgets the waiting cell, a cancellation that won is final, and    *)
(* shutdown suppresses no answer.                                          *)
AnsweredOnce ==
  /\ Delivery!AtMostOneReturn /\ Delivery!NoHandleForgotten
  /\ Delivery!AnswerMatchesDecision /\ Delivery!NothingSuppressed

(* A close of the registry or of the runtime, and an advance of the        *)
(* calculation, come back; a close of the pool joins every poller.         *)
CloseComesBackEverywhere ==
  CloseComesBack /\ AdvanceComesBack /\ Runtime!CloseReturns /\ Pool!CloseJoins

(* What is scheduled is run, or dropped by a pool that cannot run it;      *)
(* every observer that waits on an ended scope finishes; once closing      *)
(* began every admitted call is answered and shutdown completes.           *)
EveryCallIsAnswered ==
  /\ Pool!ScheduledIsServed /\ FutureScopes!EndedIsObserved
  /\ Delivery!CloseAnswersEveryCall /\ Delivery!ShutdownCompletes
=============================================================================
