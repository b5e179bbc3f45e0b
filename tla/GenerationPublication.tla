------------------------ MODULE GenerationPublication ------------------------
(***************************************************************************)
(* The read side of LifecycleCoordinator.  Calls find the open generation  *)
(* through a gate and an atomic pointer, without the lifecycle lock; an    *)
(* asynchronous launch adds a permit of its own.  The lock holder changes  *)
(* the canonical state at once, but commit_transition writes gate, pointer *)
(* and phase one after the other, and readers see each store.              *)
(*                                                                         *)
(* Actors: the host thread that opens and removes the add-in, another      *)
(* thread that quarantines it, and the readers.  The gate is taken at the  *)
(* level of AdmissionGate.tla.  Who may open or remove is HostLifecycle's. *)
(***************************************************************************)
EXTENDS Integers, Sequences

CONSTANTS Readers,
          MaxGenerations,   \* bound: generations opened
          MaxReads          \* bound: reads attempted

Host == "host"
Quarantiner == "quarantiner"

VARIABLES
  canon,      \* phase of the canonical state
  payload,    \* "none", "opening", "published" or "retiring"
  gen,        \* the latest generation
  phase,      \* the phase projection
  door,       \* the gate of the publication's readers
  permits,    \* <<reader, "call" or "task">> holding a permit
  ptr,        \* the published generation, 0 for null
  lock,       \* holder of the lifecycle lock, or "free"
  todo,       \* what the lock holder has yet to do, in order
  held,       \* the generation each kind of permit lets a reader use
  pc,         \* where each reader is
  boxed,      \* generations whose root was recovered as a Box
  dropped,    \* generations whose services were dropped
  reads,      \* reads attempted
  violated    \* a lifecycle invariant was violated

readers == <<permits, held, pc, reads>>
owned == <<boxed, dropped>>
vars == <<canon, payload, gen, phase, door, ptr, lock, todo, readers, owned, violated>>

Clear == <<"seal", "null", "phase">>
Publish == <<"drained", "store", "reopen", "phase">>
Keep == <<"phase">>

Init ==
  /\ canon = "Closed" /\ phase = "Closed"
  /\ payload = "none"
  /\ gen = 0 /\ ptr = 0
  /\ door = "sealed"
  /\ permits = {}
  /\ lock = "free" /\ todo = <<>>
  /\ held = [p \in Readers \X {"call", "task"} |-> 0]
  /\ pc = [r \in Readers |-> "idle"]
  /\ boxed = {} /\ dropped = {}
  /\ reads = 0
  /\ violated = FALSE

-----------------------------------------------------------------------------
(* One canonical transition under the lock, and the effect it commits.     *)
Transition(who, next, effect) ==
  /\ lock = "free"
  /\ lock' = who
  /\ canon' = next
  /\ todo' = effect
  /\ UNCHANGED <<phase, door, ptr, readers, boxed, violated>>

(* begin_opening_if_closed, then the generation is staged and published    *)
(* into the opening payload.                                               *)
BeginOpening ==
  /\ canon = "Closed"
  /\ gen < MaxGenerations
  /\ Transition(Host, "Opening", Keep)
  /\ gen' = gen + 1
  /\ payload' = "opening"
  /\ UNCHANGED dropped

CommitOpen ==
  /\ canon = "Opening"
  /\ Transition(Host, "Open", Publish)
  /\ payload' = "published"
  /\ UNCHANGED <<gen, dropped>>

(* A broken variant: closing leaves admission to the generation's taker.   *)
CloseKeeps == Keep

CloseEffect == Clear

RequestClosing ==
  /\ canon \in {"Opening", "Open"}
  /\ Transition(Host, "Closing", CloseEffect)
  /\ UNCHANGED <<payload, gen, dropped>>

(* A broken variant: the root is recovered without waiting for readers.    *)
TakeAtOnce == Clear \o <<"box">>

TakeEffect == Clear \o <<"wait", "box">>

(* take_generation_for_shutdown: an open generation is retired, a staged   *)
(* one is simply handed over.                                              *)
TakeGeneration ==
  /\ canon \in {"Closing", "Quarantined"}
  /\ \/ /\ payload = "published"
        /\ payload' = "retiring"
        /\ Transition(Host, canon, TakeEffect)
     \/ /\ payload = "opening"
        /\ payload' = "none"
        /\ Transition(Host, canon, Keep)
  /\ UNCHANGED <<gen, dropped>>

(* clear_certified_retirement drops the services, then clears again.       *)
ClearRetirement ==
  /\ canon = "Closing" /\ payload = "retiring"
  /\ Transition(Host, "Closing", Clear)
  /\ payload' = "none"
  /\ dropped' = dropped \cup {gen}
  /\ UNCHANGED gen

FinishClosed ==
  /\ canon = "Closing" /\ payload = "none"
  /\ Transition(Host, "Closed", Clear)
  /\ UNCHANGED <<payload, gen, dropped>>

(* quarantine_core on any thread.  That it stays a request while an open   *)
(* attempt or a finalization is running is HostLifecycle's business; what  *)
(* it does to the publication is the same.                                 *)
Quarantine ==
  /\ canon # "Quarantined"
  /\ Transition(Quarantiner, "Quarantined", Clear)
  /\ UNCHANGED <<payload, gen, dropped>>

-----------------------------------------------------------------------------
(* commit_transition and the rest of the critical section, store by store. *)
Doing(what) == todo # <<>> /\ Head(todo) = what

Done ==
  /\ todo' = Tail(todo)
  /\ lock' = IF Tail(todo) = <<>> THEN "free" ELSE lock

Seal ==
  /\ Doing("seal")
  /\ door' = "sealed"
  /\ Done
  /\ UNCHANGED <<canon, payload, gen, phase, ptr, readers, owned, violated>>

(* A broken variant: the pointer outlives the seal.                        *)
KeptPointer == ptr

ClearedPointer == 0

Null ==
  /\ Doing("null")
  /\ ptr' = ClearedPointer
  /\ Done
  /\ UNCHANGED <<canon, payload, gen, phase, door, readers, owned, violated>>

(* require_lifecycle_invariant and wait_if_sealed of a publication.        *)
RequireDrained ==
  /\ Doing("drained")
  /\ violated' = (permits # {} \/ ptr # 0 \/ door # "sealed")
  /\ Done
  /\ UNCHANGED <<canon, payload, gen, phase, door, ptr, readers, owned>>

Store ==
  /\ Doing("store")
  /\ ptr' = gen
  /\ Done
  /\ UNCHANGED <<canon, payload, gen, phase, door, readers, owned, violated>>

Reopen ==
  /\ Doing("reopen")
  /\ door' = "open"
  /\ Done
  /\ UNCHANGED <<canon, payload, gen, phase, ptr, readers, owned, violated>>

StorePhase ==
  /\ Doing("phase")
  /\ phase' = canon
  /\ Done
  /\ UNCHANGED <<canon, payload, gen, door, ptr, readers, owned, violated>>

(* The taker keeps the lock while it waits for the readers.                *)
WaitIdle ==
  /\ Doing("wait")
  /\ permits = {}
  /\ Done
  /\ UNCHANGED <<canon, payload, gen, phase, door, ptr, readers, owned, violated>>

IntoBox ==
  /\ Doing("box")
  /\ boxed' = boxed \cup {gen}
  /\ Done
  /\ UNCHANGED <<canon, payload, gen, phase, door, ptr, readers, dropped, violated>>

-----------------------------------------------------------------------------
lifecycle == <<canon, payload, gen, phase, door, ptr, todo, owned, violated>>

Goto(r, where) == pc' = [pc EXCEPT ![r] = where]

(* try_admit; a refused user of the services asks the lifecycle lock.      *)
TryEnter(r) ==
  /\ pc[r] = "idle"
  /\ reads < MaxReads
  /\ reads' = reads + 1
  /\ \/ /\ door = "open"
        /\ permits' = permits \cup {<<r, "call">>}
        /\ Goto(r, "load")
     \/ /\ door = "sealed"
        /\ \E where \in {"idle", "locking"} : Goto(r, where)
        /\ UNCHANGED permits
  /\ UNCHANGED <<lifecycle, lock, held>>

LoadPointer(r) ==
  /\ pc[r] = "load"
  /\ IF ptr = 0
       THEN permits' = permits \ {<<r, "call">>} /\ Goto(r, "idle") /\ UNCHANGED held
       ELSE held' = [held EXCEPT ![r, "call"] = ptr] /\ Goto(r, "call") /\ UNCHANGED permits
  /\ UNCHANGED <<lifecycle, lock, reads>>

(* try_execution_lease: a permit of its own on the same gate.              *)
LaunchTask(r) ==
  /\ pc[r] = "call"
  /\ door = "open"
  /\ <<r, "task">> \notin permits
  /\ permits' = permits \cup {<<r, "task">>}
  /\ held' = [held EXCEPT ![r, "task"] = held[r, "call"]]
  /\ UNCHANGED <<lifecycle, lock, pc, reads>>

(* A broken variant: the lease of a task gives its permit back at launch.  *)
CallsOnly(r) == {<<r, "call">>, <<r, "task">>}

(* A broken variant: a finished call keeps its permit.                     *)
LeaksPermit(r) == {}

CallPermit(r) == {<<r, "call">>}

FinishCall(r) ==
  /\ pc[r] = "call"
  /\ permits' = permits \ CallPermit(r)
  /\ held' = [held EXCEPT ![r, "call"] = 0]
  /\ Goto(r, "idle")
  /\ UNCHANGED <<lifecycle, lock, reads>>

FinishTask(r) ==
  /\ held[r, "task"] # 0
  /\ permits' = permits \ {<<r, "task">>}
  /\ held' = [held EXCEPT ![r, "task"] = 0]
  /\ UNCHANGED <<lifecycle, lock, pc, reads>>

(* A broken variant: the services outlive the lock that protects them.     *)
UnlockedBorrow(r) == "free"

BorrowLock(r) == r

(* with_generation_services under the lock.                                *)
BorrowServices(r) ==
  /\ pc[r] = "locking"
  /\ lock = "free"
  /\ IF payload \in {"published", "retiring"}
       THEN /\ lock' = BorrowLock(r)
            /\ held' = [held EXCEPT ![r, "call"] = gen]
            /\ Goto(r, "borrowing")
       ELSE Goto(r, "idle") /\ UNCHANGED <<lock, held>>
  /\ UNCHANGED <<lifecycle, permits, reads>>

ReturnServices(r) ==
  /\ pc[r] = "borrowing"
  /\ lock' = "free"
  /\ held' = [held EXCEPT ![r, "call"] = 0]
  /\ Goto(r, "idle")
  /\ UNCHANGED <<lifecycle, permits, reads>>

(* The bounds are used up; a quarantined module is never opened again.     *)
Finished ==
  /\ lock = "free"
  /\ reads = MaxReads /\ permits = {} /\ \A r \in Readers : pc[r] = "idle"
  /\ \/ canon = "Closed" /\ gen = MaxGenerations
     \/ canon = "Quarantined" /\ payload \notin {"opening", "published"}
  /\ UNCHANGED vars

Effects == \/ Seal \/ Null \/ RequireDrained \/ Store \/ Reopen
           \/ StorePhase \/ WaitIdle \/ IntoBox

Reader(r) == \/ LoadPointer(r) \/ FinishCall(r) \/ FinishTask(r)
             \/ BorrowServices(r) \/ ReturnServices(r)

Next ==
  \/ BeginOpening \/ CommitOpen \/ RequestClosing \/ TakeGeneration
  \/ ClearRetirement \/ FinishClosed \/ Quarantine
  \/ Effects
  \/ \E r \in Readers : TryEnter(r) \/ LaunchTask(r) \/ Reader(r)
  \/ Finished

Spec == Init /\ [][Next]_vars

(* A critical section goes on, calls and tasks end, and the mutex starves  *)
(* no thread.  Nobody is obliged to open, close or call.                   *)
Fairness ==
  /\ WF_vars(Effects)
  /\ \A r \in Readers :
       /\ WF_vars(LoadPointer(r)) /\ WF_vars(FinishCall(r)) /\ WF_vars(FinishTask(r))
       /\ SF_vars(BorrowServices(r)) /\ WF_vars(ReturnServices(r))

LiveSpec == Spec /\ Fairness

-----------------------------------------------------------------------------
(* Variables have their types, and the lock is held exactly while a        *)
(* transition commits or a reader borrows the services under it.           *)
TypeOK ==
  /\ {canon, phase} \subseteq {"Closed", "Opening", "Open", "Closing", "Quarantined"}
  /\ payload \in {"none", "opening", "published", "retiring"}
  /\ {gen, ptr} \subseteq 0 .. MaxGenerations
  /\ door \in {"open", "sealed"}
  /\ permits \subseteq Readers \X {"call", "task"}
  /\ \A r \in Readers : pc[r] \in {"idle", "load", "call", "locking", "borrowing"}
  /\ todo # <<>> <=> lock \in {Host, Quarantiner}
  /\ lock \in Readers <=> \E r \in Readers : pc[r] = "borrowing"

(* A call or task that still holds the generation's root never sees it     *)
(* recovered as a Box, and nobody sees dropped services: the reader-drain  *)
(* precondition of PublishedOwner::into_box.                               *)
NoUseAfterReclaim ==
  \A r \in Readers :
    /\ pc[r] = "call" => held[r, "call"] \notin boxed \cup dropped
    /\ held[r, "task"] # 0 => held[r, "task"] \notin boxed \cup dropped
    /\ pc[r] = "borrowing" => held[r, "call"] \notin dropped

(* "generation publication requires a drained closed projection" and       *)
(* "... sealed admission" hold at every publication, also after a quick    *)
(* close and reopen.                                                       *)
PublicationFindsDrainedGate == ~violated

(* Admission is closed and the pointer null before another thread can see  *)
(* that the add-in is closing, and both are back before it sees Open.      *)
PhaseFollowsPublication ==
  /\ phase \notin {"Opening", "Open"} => door = "sealed" /\ ptr = 0
  /\ (phase = "Open" /\ todo = <<>>) => door = "open" /\ ptr = gen

(* Readers only ever use the latest generation: every reader of an earlier *)
(* one left before its successor was published.                            *)
OnlyLatestGeneration ==
  \A p \in DOMAIN held : held[p] # 0 => held[p] = gen

(* The thread that takes the generation gets it although it waits for all  *)
(* readers while holding the lifecycle lock that refused readers ask for.  *)
TakerGetsThrough ==
  /\ Doing("wait") ~> lock = "free"
  /\ \A r \in Readers : pc[r] = "locking" ~> pc[r] = "idle"
=============================================================================
