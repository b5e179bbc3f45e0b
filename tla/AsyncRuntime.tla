---------------------------- MODULE AsyncRuntime ----------------------------
(***************************************************************************)
(* The slot that owns the application's executor of asynchronous tasks.    *)
(* Opening starts an executor and publishes it; a launch reads the         *)
(* published pointer under a permit of spawn_admission, reserves and       *)
(* submits; closing takes the executor out, drains the readers, closes the *)
(* registry and shuts the executor down, and puts it back when that fails. *)
(*                                                                         *)
(* The registry is taken by its control state only (TaskRegistry.tla), the *)
(* gate as a door with permits, an executor as what became of it.          *)
(***************************************************************************)
EXTENDS Integers, FiniteSets, TLC

CONSTANTS Closers,      \* threads that close, at once or one after the other
          Launches,     \* threads that submit tasks
          MaxStarts,    \* bound: starts attempted
          MaxFailures   \* bound: shutdowns that fail

VARIABLES
  slot,       \* ExecutorSlot
  held,       \* the executor in the slot, 0 for none
  ptr,        \* publication: the executor launches find, 0 for null
  door,       \* spawn_admission
  registry,   \* the registry's control state
  fate,       \* of every executor: created, started, stopped, dropped
  lock,       \* holder of the state mutex
  st,         \* the opening thread: pc and the executor it owns
  cl,         \* every closer: pc and the executor it owns
  la,         \* every launch: pc and the pointer it loaded
  failures

vars == <<slot, held, ptr, door, registry, fate, lock, st, cl, la, failures>>

Executors == DOMAIN fate
Opener == "opener"

Init ==
  /\ slot = "Stopped" /\ held = 0
  /\ ptr = 0 /\ door = "sealed"
  /\ registry = "Stopped"
  /\ fate = <<>>
  /\ lock = "free"
  /\ st = [pc |-> "idle", exec |-> 0]
  /\ cl = [c \in Closers |-> [pc |-> "idle", exec |-> 0]]
  /\ la = [l \in Launches |-> [pc |-> "idle", exec |-> 0]]
  /\ failures = 0

(* state_changed.notify_all.                                               *)
Woken(threads) ==
  [c \in Closers |-> IF threads[c].pc = "asleep" THEN [threads[c] EXCEPT !.pc = "taking"] ELSE threads[c]]

-----------------------------------------------------------------------------
(* Startup.                                                                *)
AcquireStartup ==
  /\ st.pc = "idle" /\ lock = "free"
  /\ slot = "Stopped" /\ Cardinality(Executors) < MaxStarts
  /\ slot' = "Starting"
  /\ LET e == Cardinality(Executors) + 1
     IN fate' = (e :> "created") @@ fate /\ st' = [pc |-> "claimed", exec |-> e]
  /\ UNCHANGED <<held, ptr, door, registry, lock, cl, la, failures>>

(* The executor's start may fail or panic.                                 *)
StartExecutor ==
  /\ st.pc = "claimed"
  /\ fate' = [fate EXCEPT ![st.exec] = "started"]
  /\ \E to \in {"started", "failed"} : st' = [st EXCEPT !.pc = to]
  /\ UNCHANGED <<slot, held, ptr, door, registry, lock, cl, la, failures>>

(* prepare_start refuses unless the registry is stopped.                   *)
ArmRegistry ==
  /\ st.pc = "started"
  /\ st' = [st EXCEPT !.pc = IF registry = "Stopped" THEN "armed" ELSE "failed"]
  /\ UNCHANGED <<slot, held, ptr, door, registry, fate, lock, cl, la, failures>>

PublishSlot ==
  /\ st.pc = "armed" /\ lock = "free"
  /\ lock' = Opener
  /\ slot' = "Running" /\ held' = st.exec
  /\ st' = [pc |-> "slotted", exec |-> 0]
  /\ UNCHANGED <<ptr, door, registry, fate, cl, la, failures>>

PublishPointer ==
  /\ st.pc = "slotted"
  /\ ptr' = held
  /\ st' = [st EXCEPT !.pc = "pointed"]
  /\ UNCHANGED <<slot, held, door, registry, fate, lock, cl, la, failures>>

PublishRegistry ==
  /\ st.pc = "pointed"
  /\ registry' = "Running"
  /\ st' = [st EXCEPT !.pc = "running"]
  /\ UNCHANGED <<slot, held, ptr, door, fate, lock, cl, la, failures>>

ReopenAdmission ==
  /\ st.pc = "running"
  /\ door' = "open"
  /\ cl' = Woken(cl)
  /\ lock' = "free"
  /\ st' = [st EXCEPT !.pc = "idle"]
  /\ UNCHANGED <<slot, held, ptr, registry, fate, la, failures>>

(* Dropping the startup owner: the executor is shut down and dropped, or   *)
(* retained for a later close when even that fails.                        *)
RollBack ==
  /\ st.pc = "failed" /\ lock = "free"
  /\ \/ /\ fate' = [fate EXCEPT ![st.exec] = "dropped"]
        /\ slot' = "Stopped"
        /\ UNCHANGED <<held, failures>>
     \/ /\ failures < MaxFailures
        /\ failures' = failures + 1
        /\ slot' = "Closing" /\ held' = st.exec
        /\ UNCHANGED fate
  /\ st' = [pc |-> "idle", exec |-> 0]
  /\ cl' = Woken(cl)
  /\ UNCHANGED <<ptr, door, registry, lock, la>>

-----------------------------------------------------------------------------
(* Closing.                                                                *)
Goes(c, to) == cl' = [cl EXCEPT ![c].pc = to]

BeginClose(c) ==
  /\ cl[c].pc = "idle"
  /\ Goes(c, "taking")
  /\ UNCHANGED <<slot, held, ptr, door, registry, fate, lock, st, la, failures>>

(* take_for_close: the first closer takes the executor, another one waits  *)
(* for it, and for an opener.                                              *)
Takes(c) ==
  /\ cl[c].pc = "taking" /\ lock = "free"
  /\ \/ /\ slot = "Stopped"
        /\ Goes(c, "closed")
        /\ UNCHANGED <<slot, held, lock>>
     \/ /\ slot = "Starting" \/ (slot = "Closing" /\ held = 0)
        /\ Goes(c, "asleep")
        /\ UNCHANGED <<slot, held, lock>>
     \/ /\ slot = "Running" \/ (slot = "Closing" /\ held # 0)
        /\ slot' = "Closing" /\ held' = 0
        /\ cl' = [cl EXCEPT ![c] = [pc |-> "sealing", exec |-> held]]
        /\ lock' = c
  /\ UNCHANGED <<ptr, door, registry, fate, st, la, failures>>

(* A broken variant: hiding the pointer is taken to be enough.             *)
LeftOpen == "open"

ClosedDoor == "sealed"

SealAdmission(c) ==
  /\ cl[c].pc = "sealing"
  /\ door' = ClosedDoor
  /\ Goes(c, "hiding")
  /\ UNCHANGED <<slot, held, ptr, registry, fate, lock, st, la, failures>>

(* A broken variant: launches keep finding the executor being retired.     *)
PointerStays == ptr

ClearedPointer == 0

HidePointer(c) ==
  /\ cl[c].pc = "hiding"
  /\ ptr' = ClearedPointer
  /\ cl' = [Woken(cl) EXCEPT ![c].pc = "draining"]
  /\ lock' = "free"
  /\ UNCHANGED <<slot, held, door, registry, fate, st, la, failures>>

Readers == {l \in Launches : la[l].pc \in {"admitted", "loaded", "reserved"}}

(* A broken variant: the readers of the publication are not waited for.    *)
ReadersIgnored == TRUE

ReadersGone == Readers = {}

(* drain_readers, then the registry is claimed.                            *)
DrainReaders(c) ==
  /\ cl[c].pc = "draining" /\ ReadersGone
  /\ IF registry = "Claimed"
     THEN Goes(c, "restoring") /\ UNCHANGED registry
     ELSE Goes(c, "cancelling") /\ registry' = "Claimed"
  /\ UNCHANGED <<slot, held, ptr, door, fate, lock, st, la, failures>>

(* The tasks are cancelled and drained; the executor is shut down.  The    *)
(* failing closer gives the registry's claim back before the executor.     *)
ShutDown(c) ==
  /\ cl[c].pc = "cancelling"
  /\ \/ /\ fate' = [fate EXCEPT ![cl[c].exec] = "stopped"]
        /\ Goes(c, "stopped")
        /\ UNCHANGED failures
     \/ /\ failures < MaxFailures
        /\ failures' = failures + 1
        /\ Goes(c, "giving")
        /\ UNCHANGED fate
  /\ UNCHANGED <<slot, held, ptr, door, registry, lock, st, la>>

(* A broken variant: the registry's claim is not given back.               *)
StaysClaimed == "Claimed"

GivenBack == "Available"

ReturnClaim(c) ==
  /\ cl[c].pc = "giving"
  /\ registry' = GivenBack
  /\ Goes(c, "restoring")
  /\ UNCHANGED <<slot, held, ptr, door, fate, lock, st, la, failures>>

(* A broken variant: the failed executor is dropped with its owner.        *)
DropsExecutor(e) == 0

Restored(e) == e

Restore(c) ==
  /\ cl[c].pc = "restoring" /\ lock = "free"
  /\ slot' = "Closing" /\ held' = Restored(cl[c].exec)
  /\ cl' = [Woken(cl) EXCEPT ![c] = [pc |-> "refused", exec |-> 0]]
  /\ UNCHANGED <<ptr, door, registry, fate, lock, st, la, failures>>

FinishRegistry(c) ==
  /\ cl[c].pc = "stopped"
  /\ registry' = "Stopped"
  /\ Goes(c, "finished")
  /\ UNCHANGED <<slot, held, ptr, door, fate, lock, st, la, failures>>

DropExecutor(c) ==
  /\ cl[c].pc = "finished"
  /\ fate' = [fate EXCEPT ![cl[c].exec] = "dropped"]
  /\ cl' = [cl EXCEPT ![c] = [pc |-> "emptying", exec |-> 0]]
  /\ UNCHANGED <<slot, held, ptr, door, registry, lock, st, la, failures>>

(* A broken variant: the closers that wait are not told.                   *)
LeftAsleep(threads) == threads

Notified(threads) == Woken(threads)

EmptySlot(c) ==
  /\ cl[c].pc = "emptying" /\ lock = "free"
  /\ slot' = "Stopped"
  /\ cl' = [Notified(cl) EXCEPT ![c].pc = "closed"]
  /\ UNCHANGED <<held, ptr, door, registry, fate, lock, st, la, failures>>

(* A refused closer may be asked again, and a closed runtime reopened.     *)
AskAgain(c) ==
  /\ cl[c].pc \in {"refused", "closed"}
  /\ Goes(c, "idle")
  /\ UNCHANGED <<slot, held, ptr, door, registry, fate, lock, st, la, failures>>

-----------------------------------------------------------------------------
(* A launch: enter, load, reserve with the executor, submit to it.         *)
Moves(l, change) ==
  /\ la' = [la EXCEPT ![l] = change @@ @]
  /\ UNCHANGED <<slot, held, ptr, door, registry, fate, lock, st, cl, failures>>

EnterReader(l) ==
  /\ la[l].pc = "idle"
  /\ Moves(l, [pc |-> IF door = "sealed" THEN "ended" ELSE "admitted"])

LoadPointer(l) ==
  /\ la[l].pc = "admitted"
  /\ Moves(l, IF ptr = 0 THEN [pc |-> "ended"] ELSE [pc |-> "loaded", exec |-> ptr])

(* The executor or the registry may refuse; the guards then unwind.        *)
Reserve(l) ==
  /\ la[l].pc = "loaded"
  /\ \/ registry = "Running" /\ Moves(l, [pc |-> "reserved"])
     \/ Moves(l, [pc |-> "ended", exec |-> 0])

Submit(l) ==
  /\ la[l].pc = "reserved"
  /\ Moves(l, [pc |-> "ended", exec |-> 0])

Again(l) ==
  /\ la[l].pc = "ended"
  /\ Moves(l, [pc |-> "idle"])

-----------------------------------------------------------------------------
Opening ==
  \/ AcquireStartup \/ StartExecutor \/ ArmRegistry \/ PublishSlot
  \/ PublishPointer \/ PublishRegistry \/ ReopenAdmission \/ RollBack

Closing(c) ==
  \/ Takes(c) \/ SealAdmission(c) \/ HidePointer(c) \/ DrainReaders(c)
  \/ ShutDown(c) \/ ReturnClaim(c) \/ Restore(c) \/ FinishRegistry(c)
  \/ DropExecutor(c) \/ EmptySlot(c)

Launching(l) == LoadPointer(l) \/ Reserve(l) \/ Submit(l)

Next ==
  \/ Opening
  \/ \E c \in Closers : BeginClose(c) \/ Closing(c) \/ AskAgain(c)
  \/ \E l \in Launches : EnterReader(l) \/ Launching(l) \/ Again(l)

Spec == Init /\ [][Next]_vars

(* Threads that began go on; a user executor's start and shutdown return.  *)
(* Takes and Restore wait for a mutex that is eventually fair.             *)
Fairness ==
  /\ WF_vars(Opening)
  /\ \A c \in Closers : WF_vars(Closing(c)) /\ SF_vars(Takes(c) \/ Restore(c) \/ EmptySlot(c))
  /\ SF_vars(PublishSlot \/ RollBack)
  /\ \A l \in Launches : WF_vars(Launching(l))

LiveSpec == Spec /\ Fairness

-----------------------------------------------------------------------------
Owned == {held, st.exec} \cup {cl[c].exec : c \in Closers}

(* The sets every variable stays in; an executor has one owner at a time,  *)
(* the slot, the opener or one closer, until it is dropped.                *)
TypeOK ==
  /\ slot \in {"Stopped", "Starting", "Running", "Closing"}
  /\ registry \in {"Stopped", "Running", "Claimed", "Available"}
  /\ held \in Executors \cup {0} /\ ptr \in Executors \cup {0}
  /\ \A e \in Executors :
       /\ fate[e] \in {"created", "started", "stopped", "dropped"}
       /\ Cardinality({w \in {"slot", Opener} \cup Closers :
            e = CASE w = "slot" -> held [] w = Opener -> st.exec [] OTHER -> cl[w].exec})
          = IF fate[e] = "dropped" THEN 0 ELSE 1

(* A launch never uses an executor that was shut down or dropped: closing  *)
(* waits for the readers of the publication first.                         *)
NoUseAfterShutdown ==
  \A l \in Launches : la[l].pc \in {"loaded", "reserved"} => fate[la[l].exec] = "started"

(* What launches can find is the executor the slot or its closer owns.     *)
PublishedIsOwned == ptr # 0 => ptr \in Owned /\ fate[ptr] = "started"

(* An executor offered for a retry comes with a registry that can be       *)
(* claimed: no closer is refused because of the order of restoration.      *)
RetryFindsClaim == slot = "Closing" /\ held # 0 => registry # "Claimed"

(* A stopped runtime has nothing published, sealed admission and a stopped *)
(* registry, so that the next generation can start.                        *)
StoppedIsEmpty ==
  slot = "Stopped" => ptr = 0 /\ door = "sealed" /\ registry = "Stopped" /\ held = 0

(* Every closer comes back, whether it closed, found the runtime stopped,  *)
(* or was refused by its executor.                                         *)
CloseReturns == \A c \in Closers : cl[c].pc = "taking" ~> cl[c].pc \in {"closed", "refused"}
=============================================================================
