------------------------ MODULE GenerationServiceSlot ------------------------
(***************************************************************************)
(* GenerationServiceSlot of xlfn-kernel: one lazily initialised service    *)
(* per generation.  Readers take a drain permit and a bare pointer without *)
(* the state lock; initialisation and teardown run user callbacks with the *)
(* lock released and leave by exactly one of commit, fault and rollback.   *)
(*                                                                         *)
(* The reader gate is taken at the level of AdmissionGate.tla, which       *)
(* DrainGate.tla is shown to implement: a door and the threads inside.     *)
(* A state-lock critical section is one step, except where it writes what  *)
(* lock-free readers see: then every such write is a step of its own and   *)
(* lock names the thread that still holds the mutex.                       *)
(***************************************************************************)
EXTENDS Integers, FiniteSets

CONSTANTS Threads,
          MaxRuntimes   \* bound: how often the slot is armed

Runtimes == 1 .. MaxRuntimes
null == 0

VARIABLES
  state,      \* the GenerationServiceState tag
  published,  \* the published pointer
  door,       \* the reader gate: "open" or "sealed"
  inside,     \* threads that hold a permit of the gate
  lock,       \* thread inside a multi-step critical section, or "free"
  pc,         \* where each thread is
  ptr,        \* the service a thread reads, initialises or tears down
  born,       \* times armed; the service of an arming has its number
  owner,      \* who owns each service's allocation
  aborted     \* some thread reached fail_stop

slot == <<state, published, door, lock>>
vars == <<state, published, door, inside, lock, pc, ptr, born, owner, aborted>>

Init ==
  /\ state = "Closed"
  /\ published = null
  /\ door = "sealed"
  /\ inside = {}
  /\ lock = "free"
  /\ pc = [t \in Threads |-> "idle"]
  /\ ptr = [t \in Threads |-> null]
  /\ born = 0
  /\ owner = [r \in Runtimes |-> "unborn"]
  /\ aborted = FALSE

(* A broken variant: the transition forgets changed.notify_all().          *)
NotifyNobody(p) == p

(* changed.notify_all(): every parked thread contends for the lock again.  *)
NotifyAll(p) ==
  [t \in Threads |-> CASE p[t] = "parkedRead" -> "slow"
                       [] p[t] = "parkedSeal" -> "sealing"
                       [] OTHER -> p[t]]

Goto(t, where) == pc' = [pc EXCEPT ![t] = where]
GotoAndNotify(t, where) == pc' = NotifyAll([pc EXCEPT ![t] = where])

-----------------------------------------------------------------------------
(* Administration.                                                         *)
Arm(t) ==
  /\ pc[t] = "idle"
  /\ lock = "free"
  /\ state = "Closed" /\ door = "sealed" /\ inside = {} /\ published = null
  /\ born < MaxRuntimes
  /\ state' = "Cold"
  /\ born' = born + 1
  /\ pc' = NotifyAll(pc)
  /\ UNCHANGED <<published, door, inside, lock, ptr, owner, aborted>>

Disarm(t) ==
  /\ pc[t] = "idle"
  /\ lock = "free"
  /\ state \in {"Cold", "InitFaulted"}
  /\ state' = "Closed"
  /\ pc' = NotifyAll(pc)
  /\ UNCHANGED <<published, door, inside, lock, ptr, born, owner, aborted>>

-----------------------------------------------------------------------------
(* read and read_if_ready.  A failed attempt of read continues in          *)
(* read_slow; one of read_if_ready returns None.                           *)
StartRead(t) ==
  /\ pc[t] = "idle"
  /\ \E where \in {"tryOnly", "entering"} : Goto(t, where)
  /\ UNCHANGED <<slot, inside, ptr, born, owner, aborted>>

Enter(t) ==
  /\ pc[t] \in {"tryOnly", "entering"}
  /\ \/ /\ door = "open"
        /\ inside' = inside \cup {t}
        /\ Goto(t, IF pc[t] = "tryOnly" THEN "tryLoad" ELSE "load")
     \/ /\ door = "sealed"
        /\ Goto(t, IF pc[t] = "tryOnly" THEN "idle" ELSE "slow")
        /\ UNCHANGED inside
  /\ UNCHANGED <<slot, ptr, born, owner, aborted>>

LoadPublished(t) ==
  /\ pc[t] \in {"tryLoad", "load"}
  /\ \/ /\ published # null
        /\ ptr' = [ptr EXCEPT ![t] = published]
        /\ Goto(t, "reading")
        /\ UNCHANGED inside
     \/ /\ published = null
        /\ inside' = inside \ {t}
        /\ Goto(t, IF pc[t] = "tryLoad" THEN "idle" ELSE "slow")
        /\ UNCHANGED ptr
  /\ UNCHANGED <<slot, born, owner, aborted>>

DropRead(t) ==
  /\ pc[t] = "reading"
  /\ inside' = inside \ {t}
  /\ ptr' = [ptr EXCEPT ![t] = null]
  /\ Goto(t, "idle")
  /\ UNCHANGED <<slot, born, owner, aborted>>

(* A broken variant: a reader that meets a seal in progress initialises.   *)
StartsUnlessReady == state \in {"Cold", "Sealing"}

MayInitialize == state = "Cold"

(* One round of read_slow's loop under the lock.                           *)
ReadSlow(t) ==
  /\ pc[t] = "slow"
  /\ lock = "free"
  /\ \/ /\ state = "Ready"
        /\ Goto(t, "entering")
        /\ UNCHANGED state
     \/ /\ state \in {"InitFaulted", "TeardownFaulted", "Closed"}
        /\ Goto(t, "idle")
        /\ UNCHANGED state
     \/ /\ state \in {"Initializing", "Sealing"} /\ ~MayInitialize
        /\ Goto(t, "parkedRead")
        /\ UNCHANGED state
     \/ /\ MayInitialize
        /\ state' = "Initializing"
        /\ Goto(t, "initialize")
  /\ UNCHANGED <<published, door, inside, lock, ptr, born, owner, aborted>>

-----------------------------------------------------------------------------
(* InitializingTxn.  initialize(config) and on_initialized run unlocked.   *)
InitializeOk(t) ==
  /\ pc[t] = "initialize"
  /\ ptr' = [ptr EXCEPT ![t] = born]
  /\ owner' = [owner EXCEPT ![born] = "candidate"]
  /\ Goto(t, "announce")
  /\ UNCHANGED <<slot, inside, born, aborted>>

(* initialize returned an error or panicked, or on_initialized panicked:   *)
(* record_fault, after the unpublished candidate was destroyed.            *)
InitializeFault(t) ==
  /\ pc[t] \in {"initialize", "announce"}
  /\ lock = "free"
  /\ state' = "InitFaulted"
  /\ owner' = [r \in Runtimes |-> IF r = ptr[t] THEN "destroyed" ELSE owner[r]]
  /\ ptr' = [ptr EXCEPT ![t] = null]
  /\ GotoAndNotify(t, "idle")
  /\ UNCHANGED <<published, door, inside, lock, born, aborted>>

(* A broken variant: the lock is released before the gate is reopened.     *)
UnlockedEarly(t) == "free"

HeldByCommit(t) == t

CommitPublish(t) ==
  /\ pc[t] = "announce"
  /\ lock = "free"
  /\ lock' = HeldByCommit(t)
  /\ state' = "Ready"
  /\ owner' = [owner EXCEPT ![ptr[t]] = "slot"]
  /\ published' = ptr[t]
  /\ Goto(t, "reopen")
  /\ UNCHANGED <<door, inside, ptr, born, aborted>>

(* wait_if_sealed().unwrap_or_else(fail_stop).reopen()                     *)
CommitReopen(t) ==
  /\ pc[t] = "reopen"
  /\ door = "sealed" => inside = {}
  /\ aborted' = (door = "open")
  /\ door' = "open"
  /\ Goto(t, "reserve")
  /\ UNCHANGED <<state, published, inside, lock, ptr, born, owner>>

(* A broken variant: the initialiser returns a guard without a permit.     *)
NoPermit(t) == inside

FirstPermit(t) == inside \cup {t}

(* The initialiser's own permit, notify_all, unlock.                       *)
CommitReserve(t) ==
  /\ pc[t] = "reserve"
  /\ inside' = FirstPermit(t)
  /\ aborted' = (aborted \/ door = "sealed")
  /\ lock' = "free"
  /\ GotoAndNotify(t, "reading")
  /\ UNCHANGED <<state, published, door, ptr, born, owner>>

-----------------------------------------------------------------------------
(* seal.                                                                   *)
StartSeal(t) ==
  /\ pc[t] = "idle"
  /\ Goto(t, "sealing")
  /\ UNCHANGED <<slot, inside, ptr, born, owner, aborted>>

(* One round of begin_seal's loop under the lock.                          *)
BeginSeal(t) ==
  /\ pc[t] = "sealing"
  /\ lock = "free"
  /\ \/ /\ state \in {"Initializing", "Sealing"}
        /\ Goto(t, "parkedSeal")
        /\ UNCHANGED <<slot, ptr, owner>>
     \/ /\ state = "TeardownFaulted"
        /\ Goto(t, "idle")
        /\ UNCHANGED <<slot, ptr, owner>>
     \/ /\ state = "Ready"
        /\ lock' = t
        /\ state' = "Sealing"
        /\ door' = "sealed"
        /\ ptr' = [ptr EXCEPT ![t] = CHOOSE r \in Runtimes : owner[r] = "slot"]
        /\ owner' = [owner EXCEPT ![ptr'[t]] = "withdrawn"]
        /\ Goto(t, "withdraw")
        /\ UNCHANGED published
     \/ /\ state \in {"Cold", "InitFaulted", "Closed"}
        /\ state' = "Closed"
        /\ GotoAndNotify(t, "idle")
        /\ UNCHANGED <<published, door, lock, ptr, owner>>
  /\ UNCHANGED <<inside, born, aborted>>

(* A broken variant: the pointer stays published until teardown is over.   *)
LeftPublished == published

WithdrawnPointer == null

Withdraw(t) ==
  /\ pc[t] = "withdraw"
  /\ published' = WithdrawnPointer
  /\ lock' = "free"
  /\ Goto(t, "drain")
  /\ UNCHANGED <<state, door, inside, ptr, born, owner, aborted>>

(* A broken variant: teardown starts while readers hold the pointer.       *)
NoWait == TRUE

ReadersDrained == inside = {}

(* SealingTxn::wait.                                                       *)
AwaitReaders(t) ==
  /\ pc[t] = "drain"
  /\ ReadersDrained
  /\ door' = "sealed"
  /\ Goto(t, "shutdown")
  /\ UNCHANGED <<state, published, inside, lock, ptr, born, owner, aborted>>

(* QuiescedTxn::finish with Ok: the Box goes to the caller.                *)
FinishOk(t) ==
  /\ pc[t] = "shutdown"
  /\ lock = "free"
  /\ state' = "Closed"
  /\ owner' = [owner EXCEPT ![ptr[t]] = "recovered"]
  /\ ptr' = [ptr EXCEPT ![t] = null]
  /\ GotoAndNotify(t, "idle")
  /\ UNCHANGED <<published, door, inside, lock, born, aborted>>

(* The shutdown callback failed or panicked: retain, never destroy.        *)
FinishFault(t) ==
  /\ pc[t] = "shutdown"
  /\ lock = "free"
  /\ state' = "TeardownFaulted"
  /\ owner' = [owner EXCEPT ![ptr[t]] = "quarantined"]
  /\ ptr' = [ptr EXCEPT ![t] = null]
  /\ GotoAndNotify(t, "idle")
  /\ UNCHANGED <<published, door, inside, lock, born, aborted>>

(* A broken variant: drop frees whatever the slot still owns.              *)
FreesAll(o) == IF o \in {"slot", "quarantined"} THEN "destroyed" ELSE o

AfterDrop(o) == IF o = "slot" THEN "destroyed" ELSE o

(* Drop for GenerationServiceSlot: exclusive access, so no thread is in an *)
(* operation and no read guard borrows the slot.                           *)
DropSlot ==
  /\ state # "Dropped"
  /\ \A t \in Threads : pc[t] = "idle"
  /\ door' = "sealed"
  /\ published' = null
  /\ state' = "Dropped"
  /\ owner' = [r \in Runtimes |-> AfterDrop(owner[r])]
  /\ pc' = [t \in Threads |-> "gone"]
  /\ UNCHANGED <<inside, lock, ptr, born, aborted>>

Dropped == state = "Dropped" /\ UNCHANGED vars

Initializer(t) ==
  \/ InitializeOk(t) \/ InitializeFault(t)
  \/ CommitPublish(t) \/ CommitReopen(t) \/ CommitReserve(t)

Sealer(t) ==
  BeginSeal(t) \/ Withdraw(t) \/ AwaitReaders(t) \/ FinishOk(t) \/ FinishFault(t)

Reader(t) == Enter(t) \/ LoadPublished(t) \/ DropRead(t) \/ ReadSlow(t)

Next ==
  \/ \E t \in Threads :
       \/ Arm(t) \/ Disarm(t) \/ StartRead(t) \/ StartSeal(t)
       \/ Reader(t) \/ Initializer(t) \/ Sealer(t)
  \/ DropSlot
  \/ Dropped

Spec == Init /\ [][Next]_vars

(* Callbacks return, guards are dropped and the mutex starves nobody.      *)
Fairness ==
  /\ \A t \in Threads :
       /\ WF_vars(Enter(t) \/ LoadPublished(t) \/ DropRead(t))
       /\ SF_vars(ReadSlow(t) \/ Sealer(t) \/ Initializer(t))

LiveSpec == Spec /\ Fairness

-----------------------------------------------------------------------------
InitPcs == {"initialize", "announce", "reopen", "reserve"}
SealPcs == {"withdraw", "drain", "shutdown"}
Parked == {t \in Threads : pc[t] \in {"parkedRead", "parkedSeal"}}

(* Variables have their types, and exactly the threads between admission   *)
(* and the end of their guard hold a permit.                               *)
TypeOK ==
  /\ state \in {"Closed", "Cold", "Initializing", "Ready", "Sealing",
                "InitFaulted", "TeardownFaulted", "Dropped"}
  /\ published \in Runtimes \cup {null}
  /\ door \in {"open", "sealed"}
  /\ inside = {t \in Threads : pc[t] \in {"tryLoad", "load", "reading"}}
  /\ lock \in Threads \cup {"free"}
  /\ pc \in [Threads -> {"idle", "tryOnly", "entering", "tryLoad", "load",
                         "reading", "slow", "parkedRead", "parkedSeal",
                         "sealing", "gone"} \cup InitPcs \cup SealPcs]
  /\ ptr \in [Threads -> Runtimes \cup {null}]
  /\ born \in 0 .. MaxRuntimes
  /\ owner \in [Runtimes -> {"unborn", "candidate", "slot", "withdrawn",
                             "recovered", "quarantined", "destroyed"}]

(* [SS-4] A guard obtained by read or read_if_ready never outlives the     *)
(* allocation: what a reader dereferences is owned by the slot, or has     *)
(* been withdrawn and waits for this very reader.                          *)
ReadsAreLive ==
  \A t \in Threads : pc[t] = "reading" => owner[ptr[t]] \in {"slot", "withdrawn"}

(* What the published pointer names is still allocated, and is withdrawn   *)
(* from readers that come later before shutdown runs on it.                *)
PublishedIsOwned ==
  /\ published # null => owner[published] \in {"slot", "withdrawn"}
  /\ \A t \in Threads : pc[t] \in {"drain", "shutdown"} => published # ptr[t]

(* The busy states have one owner: exactly one thread is in initialisation *)
(* while Initializing and exactly one is in teardown while Sealing, so     *)
(* record_fault, commit and retain overwrite nobody else's transition.     *)
BusyStateHasOneOwner ==
  /\ Cardinality({t \in Threads : pc[t] \in {"initialize", "announce"}})
       = IF state = "Initializing" THEN 1 ELSE 0
  /\ Cardinality({t \in Threads : pc[t] \in SealPcs})
       = IF state = "Sealing" THEN 1 ELSE 0

(* A thread is parked on changed only while a transition it waits for is   *)
(* under way: every exit from a busy state, faults included, notifies.     *)
NobodyParkedWithoutReason ==
  Parked # {} => state \in {"Initializing", "Sealing"} \/ lock # "free"

(* The fail_stop calls of commit are unreachable: the gate is sealed when  *)
(* commit reopens it and still open when it takes its own permit.          *)
CommitCannotFail == ~aborted

(* A quarantined service is retained for ever, slot destruction included,  *)
(* and an allocation that left the slot never comes back.                  *)
OwnershipIsFinal ==
  [][\A r \in Runtimes :
       owner[r] \in {"quarantined", "recovered", "destroyed"} => owner'[r] = owner[r]]_vars

(* A reader in read_slow and a sealer both return, whatever becomes of the *)
(* transition they meet.                                                   *)
EveryCallReturns ==
  \A t \in Threads : pc[t] \in {"slow", "sealing"} ~> pc[t] \in {"idle", "reading", "gone"}
=============================================================================
