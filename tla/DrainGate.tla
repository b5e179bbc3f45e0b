------------------------------ MODULE DrainGate ------------------------------
(***************************************************************************)
(* The reusable admission gate of xlfn-kernel: StripedDrainGate (N stripes *)
(* of SealableCounter, one notification mutex and condvar) together with   *)
(* its typestate control StripedGateControl.  DrainGate is the case N = 1, *)
(* except that its seal() takes no notification lock (see OperationGate).  *)
(*                                                                         *)
(* One action is one atomic read-modify-write, one lock operation, or one  *)
(* condvar operation.  The claim mutex makes every administrative          *)
(* operation exclusive, so the claim holder of the moment is one actor     *)
(* ("Admin"), whose typestate is `phase`.  A stripe's word is split into   *)
(* its SEALED bit (membership in sealed), WAITING bit (membership in       *)
(* waiting) and count (active).                                            *)
(***************************************************************************)
EXTENDS Integers, FiniteSets

CONSTANTS Readers,     \* threads that enter and release permits
          N,           \* number of stripes
          ActiveMask   \* ACTIVE_COUNT_MASK: the largest count a word can hold

ASSUME ReadersFinite == IsFiniteSet(Readers)
ASSUME StripeCount == N \in Nat \ {0}
ASSUME MaskPositive == ActiveMask \in Nat \ {0}
ASSUME AdminIsNoReader == {"Admin", "free"} \cap Readers = {}

Stripe == 0 .. N-1

VARIABLES
  sealed,    \* stripes whose SEALED bit is set
  waiting,   \* stripes whose WAITING bit is set
  active,    \* the active count of each stripe
  lock,      \* owner of idle.lock, "free" when nobody holds it
  rpc,       \* where each reader is in try_enter / release
  stripe,    \* the stripe of a reader's permit
  apc,       \* where the claim holder is; "none" when control is unclaimed
  phase,     \* typestate of the control: GateUnknown, Sealed, Drained, Open
  index,     \* loop index over the stripes
  rollback,  \* inner loop index of a failed try_seal_if_idle
  busy,      \* stripes this observation pass saw with a nonzero count
  goal,      \* how the current wait ends: blocking or not, phase it certifies
  fate       \* "run", "freed" once the owner reclaimed the gate, or fail_stop

readerVars == <<rpc, stripe>>
adminVars == <<apc, phase, index, rollback, busy, goal>>
vars == <<sealed, waiting, active, lock, readerVars, adminVars, fate>>

AbortCauses == {"overflow", "underflow", "undo", "reopen"}
Goals == [blocking : {"yes", "no"}, to : {"Unknown", "Drained"}]

Init ==
  /\ sealed \in {{}, Stripe}                        \* new_open / new_sealed
  /\ waiting = {}
  /\ active = [s \in Stripe |-> 0]
  /\ lock = "free"
  /\ rpc = [r \in Readers |-> "idle"]
  /\ stripe = [r \in Readers |-> 0]
  /\ apc = "none"
  /\ phase = "Unknown"
  /\ index = 0
  /\ rollback = 0
  /\ busy = {}
  /\ goal = [blocking |-> "yes", to |-> "Unknown"]
  /\ fate = "run"

FailStop(cause) == fate' = cause

-----------------------------------------------------------------------------
(* Readers: try_enter, and the two-path release of Drop.                   *)

(* A broken variant: the limit test admits one count too many.             *)
PastLimit(s) == active[s] > ActiveMask

AtLimit(s) == active[s] = ActiveMask

(* acquire_step: a sealed word rejects, a full count fail-stops.           *)
TryEnter(r, s) ==
  /\ rpc[r] = "idle"
  /\ s \notin sealed
  /\ IF AtLimit(s)
     THEN FailStop("overflow") /\ UNCHANGED <<active, readerVars>>
     ELSE /\ active' = [active EXCEPT ![s] = @ + 1]
          /\ rpc' = [rpc EXCEPT ![r] = "held"]
          /\ stripe' = [stripe EXCEPT ![r] = s]
          /\ UNCHANGED fate
  /\ UNCHANGED <<sealed, waiting, lock, adminVars>>

(* A broken variant: a fast path that never leaves the last count.         *)
NeverRetains(s) == FALSE

(* release_without_notification_step rejects: the last count of a stripe   *)
(* with a registered waiter is kept until idle.lock is owned.              *)
RetainsLast(s) == s \in waiting /\ active[s] = 1

(* A broken variant: the update masks the count field out altogether.      *)
CountCleared(s) == [active EXCEPT ![s] = 0]

(* release_step: the count goes down by one, the flags are preserved.      *)
CountReleased(s) == [active EXCEPT ![s] = @ - 1]

ReleaseFast(r) ==
  /\ rpc[r] = "held"
  /\ LET s == stripe[r] IN
       IF active[s] = 0
       THEN FailStop("underflow") /\ UNCHANGED <<active, rpc>>
       ELSE /\ \/ /\ RetainsLast(s)
                  /\ rpc' = [rpc EXCEPT ![r] = "slow"]
                  /\ UNCHANGED active
               \/ /\ ~RetainsLast(s)
                  /\ active' = CountReleased(s)
                  /\ rpc' = [rpc EXCEPT ![r] = "idle"]
            /\ UNCHANGED fate
  /\ UNCHANGED <<sealed, waiting, lock, stripe, adminVars>>

ReleaseLock(r) ==
  /\ rpc[r] = "slow"
  /\ lock = "free"
  /\ lock' = r
  /\ rpc' = [rpc EXCEPT ![r] = "tail"]
  /\ UNCHANGED <<sealed, waiting, active, stripe, adminVars, fate>>

(* A broken variant: the outcome BecameIdle computed from the new count.   *)
NotifiesNever(s) == active[s] = 0

(* release_outcome_step: BecameIdle iff the previous count was one.        *)
BecameIdle(s) == active[s] = 1

ReleaseCount(r) ==
  /\ rpc[r] = "tail"
  /\ LET s == stripe[r] IN
       IF active[s] = 0
       THEN FailStop("underflow") /\ UNCHANGED <<active, rpc>>
       ELSE /\ active' = CountReleased(s)
            /\ rpc' = [rpc EXCEPT ![r] =
                         IF BecameIdle(s) THEN "notify" ELSE "unlock"]
            /\ UNCHANGED fate
  /\ UNCHANGED <<sealed, waiting, lock, stripe, adminVars>>

ReleaseNotify(r) ==
  /\ rpc[r] = "notify"
  /\ rpc' = [rpc EXCEPT ![r] = "unlock"]
  /\ apc' = IF apc = "parked" THEN "woken" ELSE apc
  /\ UNCHANGED <<sealed, waiting, active, lock, stripe, phase, index,
                 rollback, busy, goal, fate>>

ReleaseUnlock(r) ==
  /\ rpc[r] = "unlock"
  /\ lock' = "free"
  /\ rpc' = [rpc EXCEPT ![r] = "idle"]
  /\ UNCHANGED <<sealed, waiting, active, stripe, adminVars, fate>>

-----------------------------------------------------------------------------
(* The claim holder.                                                       *)

Claim ==
  /\ apc = "none"
  /\ apc' = "ready"
  /\ UNCHANGED <<sealed, waiting, active, lock, readerVars, phase, index,
                 rollback, busy, goal, fate>>

(* Dropping the control releases the claim and leaves admission as it is.  *)
DropControl ==
  /\ apc = "ready"
  /\ apc' = "none"
  /\ phase' = "Unknown"
  /\ UNCHANGED <<sealed, waiting, active, lock, readerVars, index, rollback,
                 busy, goal, fate>>

(* seal(): every stripe, in order, under the notification lock.            *)
SealBegin ==
  /\ apc = "ready"
  /\ lock = "free"
  /\ lock' = "Admin"
  /\ apc' = "sealing"
  /\ index' = 0
  /\ phase' = "Unknown"
  /\ UNCHANGED <<sealed, waiting, active, readerVars, rollback, busy, goal,
                 fate>>

SealStripe ==
  /\ apc = "sealing"
  /\ index < N
  /\ sealed' = sealed \cup {index}
  /\ index' = index + 1
  /\ UNCHANGED <<waiting, active, lock, readerVars, apc, phase, rollback,
                 busy, goal, fate>>

SealEnd ==
  /\ apc = "sealing"
  /\ index = N
  /\ lock' = "free"
  /\ apc' = "ready"
  /\ phase' = "Sealed"
  /\ UNCHANGED <<sealed, waiting, active, readerVars, index, rollback, busy,
                 goal, fate>>

(* try_seal_if_idle(): stripe by stripe without any lock, rolling the      *)
(* sealed prefix back at the first stripe that is not idle.                *)
TrySealBegin ==
  /\ apc = "ready"
  /\ phase = "Unknown"
  /\ apc' = "trySealing"
  /\ index' = 0
  /\ rollback' = 0
  /\ UNCHANGED <<sealed, waiting, active, lock, readerVars, phase, busy,
                 goal, fate>>

TrySealStripe ==
  /\ apc = "trySealing"
  /\ index < N
  /\ \/ /\ index \notin sealed
        /\ active[index] = 0
        /\ sealed' = sealed \cup {index}
        /\ index' = index + 1
        /\ UNCHANGED apc
     \/ /\ index \in sealed \/ active[index] # 0
        /\ apc' = "undoing"
        /\ UNCHANGED <<sealed, index>>
  /\ UNCHANGED <<waiting, active, lock, readerVars, phase, rollback, busy,
                 goal, fate>>

(* A broken variant: the roll-back starts at the second stripe.            *)
UndoFromSecond == rollback + 1

(* The stripe the roll-back loop visits next.                              *)
UndoIndex == rollback

UndoStripe ==
  /\ apc = "undoing"
  /\ UndoIndex < index
  /\ IF UndoIndex \in sealed /\ active[UndoIndex] = 0
     THEN /\ sealed' = sealed \ {UndoIndex}
          /\ rollback' = rollback + 1
          /\ UNCHANGED fate
     ELSE FailStop("undo") /\ UNCHANGED <<sealed, rollback>>
  /\ UNCHANGED <<waiting, active, lock, readerVars, apc, phase, index, busy,
                 goal>>

TrySealEnd ==
  /\ \/ apc = "undoing" /\ UndoIndex >= index /\ UNCHANGED phase
     \/ apc = "trySealing" /\ index = N /\ phase' = "Sealed"
  /\ apc' = "ready"
  /\ UNCHANGED <<sealed, waiting, active, lock, readerVars, index, rollback,
                 busy, goal, fate>>

(* Broken variants: a sealed check that always passes, and an observation  *)
(* that does not synchronise with the notification lock.                   *)
AlwaysSealed == TRUE
LockIgnored == lock \in Readers \cup {"free"}

IsSealed == sealed = Stripe
IdleLockFree == lock = "free"

(* wait_idle (goal Unknown), wait_if_sealed and wait (goal Drained), and   *)
(* the non-blocking try_drained and try_wait.  is_sealed is read first;    *)
(* it is stable while the claim is held.                                   *)
WaitBegin(g) ==
  /\ apc = "ready"
  /\ \/ phase = "Unknown" /\ g = [blocking |-> "yes", to |-> "Unknown"]
     \/ phase = "Unknown" /\ g.to = "Drained" /\ IsSealed
     \/ phase = "Sealed" /\ g.to = "Drained"
  /\ IdleLockFree
  /\ lock' = "Admin"
  /\ apc' = "observing"
  /\ index' = 0
  /\ busy' = {}
  /\ goal' = g
  /\ UNCHANGED <<sealed, waiting, active, readerVars, phase, rollback, fate>>

(* A broken variant: the observation reads the count but registers no      *)
(* waiter in the stripe's word.                                            *)
RegistersNone == waiting

(* mark_waiting: one fetch_or that registers and returns the count.        *)
MarkWaiting == waiting \cup {index}

ObserveStripe ==
  /\ apc = "observing"
  /\ index < N
  /\ waiting' = MarkWaiting
  /\ busy' = IF active[index] # 0 THEN busy \cup {index} ELSE busy
  /\ index' = index + 1
  /\ UNCHANGED <<sealed, active, lock, readerVars, apc, phase, rollback,
                 goal, fate>>

(* The end of one pass: idle returns; busy parks (atomically unlocking) or *)
(* gives up when the caller does not block.                                *)
ObserveEnd ==
  /\ apc = "observing"
  /\ index = N
  /\ lock' = "free"
  /\ \/ busy = {} /\ apc' = "ready" /\ phase' = goal.to
     \/ busy # {} /\ goal.blocking = "yes" /\ apc' = "parked"
        /\ UNCHANGED phase
     \/ busy # {} /\ goal.blocking = "no" /\ apc' = "ready"
        /\ UNCHANGED phase
  /\ UNCHANGED <<sealed, waiting, active, readerVars, index, rollback, busy,
                 goal, fate>>

(* Return from Condvar::wait: the mutex is reacquired, every stripe is     *)
(* registered and observed again.                                          *)
WakeUp ==
  /\ apc = "woken"
  /\ lock = "free"
  /\ lock' = "Admin"
  /\ apc' = "observing"
  /\ index' = 0
  /\ busy' = {}
  /\ UNCHANGED <<sealed, waiting, active, readerVars, phase, rollback, goal,
                 fate>>

(* reopen(): only a Drained control has it.  All stripes are checked, then *)
(* reopened in order, under the notification lock; an error fail-stops.    *)
ReopenBegin ==
  /\ apc = "ready"
  /\ phase = "Drained"
  /\ lock = "free"
  /\ lock' = "Admin"
  /\ IF sealed = Stripe /\ \A s \in Stripe : active[s] = 0
     THEN apc' = "reopening" /\ phase' = "Open" /\ UNCHANGED fate
     ELSE FailStop("reopen") /\ UNCHANGED <<apc, phase>>
  /\ index' = 0
  /\ UNCHANGED <<sealed, waiting, active, readerVars, rollback, busy, goal>>

ReopenStripe ==
  /\ apc = "reopening"
  /\ index < N
  /\ IF index \in sealed /\ active[index] = 0
     THEN /\ sealed' = sealed \ {index}
          /\ waiting' = waiting \ {index}
          /\ index' = index + 1
          /\ UNCHANGED fate
     ELSE FailStop("reopen") /\ UNCHANGED <<sealed, waiting, index>>
  /\ UNCHANGED <<active, lock, readerVars, apc, phase, rollback, busy, goal>>

ReopenEnd ==
  /\ apc = "reopening"
  /\ index = N
  /\ lock' = "free"
  /\ apc' = "ready"
  /\ UNCHANGED <<sealed, waiting, active, readerVars, phase, index, rollback,
                 busy, goal, fate>>

(* The owner-lifetime contract of the detached permits: the allocation is  *)
(* reclaimed only by the owner, after sealing and waiting on this gate.    *)
Reclaim ==
  /\ apc = "ready"
  /\ phase = "Drained"
  /\ fate' = "freed"
  /\ UNCHANGED <<sealed, waiting, active, lock, readerVars, adminVars>>

-----------------------------------------------------------------------------
ReaderStep(r) ==
  \/ \E s \in Stripe : TryEnter(r, s)
  \/ ReleaseFast(r)
  \/ ReleaseLock(r)
  \/ ReleaseCount(r)
  \/ ReleaseNotify(r)
  \/ ReleaseUnlock(r)

AdminStep ==
  \/ Claim \/ DropControl
  \/ SealBegin \/ SealStripe \/ SealEnd
  \/ TrySealBegin \/ TrySealStripe \/ UndoStripe \/ TrySealEnd
  \/ \E g \in Goals : WaitBegin(g)
  \/ ObserveStripe \/ ObserveEnd \/ WakeUp
  \/ ReopenBegin \/ ReopenStripe \/ ReopenEnd
  \/ Reclaim

(* The gate is reclaimed, or the process has aborted.                      *)
Ended == fate # "run" /\ UNCHANGED vars

Next ==
  \/ fate = "run" /\ (AdminStep \/ \E r \in Readers : ReaderStep(r))
  \/ Ended

Spec == Init /\ [][Next]_vars

(* Scheduling: a permit holder eventually drops its permit, a runnable     *)
(* thread runs, and the notification mutex is not denied for ever to a     *)
(* thread that keeps asking (parking_lot mutexes are eventually fair).     *)
Release(r) ==
  ReleaseFast(r) \/ ReleaseCount(r) \/ ReleaseNotify(r) \/ ReleaseUnlock(r)
AdminInside ==
  SealStripe \/ SealEnd \/ TrySealStripe \/ UndoStripe \/ TrySealEnd
    \/ ObserveStripe \/ ObserveEnd \/ ReopenStripe \/ ReopenEnd
Running(A) == fate = "run" /\ A
Fairness ==
  /\ \A r \in Readers : /\ WF_vars(Running(Release(r)))
                        /\ SF_vars(Running(ReleaseLock(r)))
  /\ WF_vars(Running(AdminInside))
  /\ SF_vars(Running(WakeUp))
LiveSpec == Spec /\ Fairness

-----------------------------------------------------------------------------
(* Properties.                                                             *)

ReaderPC == {"idle", "held", "slow", "tail", "notify", "unlock"}
AdminPC == {"none", "ready", "sealing", "trySealing", "undoing", "observing",
            "parked", "woken", "reopening"}

(* Every variable has its type; counts never leave the word's count field. *)
TypeOK ==
  /\ sealed \in SUBSET Stripe
  /\ waiting \in SUBSET Stripe
  /\ active \in [Stripe -> 0 .. ActiveMask]
  /\ lock \in Readers \cup {"Admin", "free"}
  /\ rpc \in [Readers -> ReaderPC]
  /\ stripe \in [Readers -> Stripe]
  /\ apc \in AdminPC
  /\ phase \in {"Unknown", "Sealed", "Drained", "Open"}
  /\ index \in 0 .. N
  /\ rollback \in 0 .. N
  /\ busy \in SUBSET Stripe
  /\ goal \in Goals
  /\ fate \in {"run", "freed"} \cup AbortCauses

Holders(s) ==
  {r \in Readers : rpc[r] \in {"held", "slow", "tail"} /\ stripe[r] = s}

(* [DG-1] Each stripe counts exactly the permits that are live on it,      *)
(* including one whose release is still waiting for idle.lock.             *)
PermitAccounting == \A s \in Stripe : active[s] = Cardinality(Holders(s))

(* A Drained control certifies a stable drain: admission is sealed on      *)
(* every stripe, no permit is live and no release is still in its          *)
(* notification tail.                                                      *)
DrainedIsQuiet ==
  phase = "Drained" => sealed = Stripe /\ \A r \in Readers : rpc[r] = "idle"

(* No release touches the gate after its owner has reclaimed it: neither   *)
(* the fast path's count nor the slow path's mutex and condvar.            *)
NoUseAfterReclaim == fate = "freed" => \A r \in Readers : rpc[r] = "idle"

(* No lost wakeup: a parked waiter always has a release ahead of it that   *)
(* must notify, because some registered stripe still has a count, or a     *)
(* release that is about to notify.                                        *)
NoLostWakeup ==
  apc = "parked" =>
    \/ \E s \in waiting : active[s] # 0
    \/ \E r \in Readers : rpc[r] = "notify"

(* The fail_stop branches of undo_idle_seal, reopen and the release        *)
(* underflow are unreachable; only a full count can abort the process.     *)
OnlyOverflowAborts == fate \in {"run", "freed", "overflow"}

(* Between administrative operations the whole gate admits or the whole    *)
(* gate rejects: no seal, roll-back or reopen leaves partial admission.    *)
NoPartialAdmission ==
  apc \in {"none", "ready", "observing", "parked", "woken"} =>
    sealed \in {{}, Stripe}

(* A waiter on a sealed gate is eventually released, once permit holders   *)
(* keep dropping their permits.                                            *)
SealedWaitEnds ==
  (apc = "parked" /\ sealed = Stripe) ~> apc = "ready"

-----------------------------------------------------------------------------
(* The gate as its owner sees it.  A thread is inside until its release    *)
(* has made its last access; the door is closed once every stripe is       *)
(* sealed.                                                                 *)
Contract == INSTANCE AdmissionGate WITH
  door <- IF sealed = Stripe THEN "closed" ELSE "open",
  inside <- {r \in Readers : rpc[r] # "idle"},
  drained <- IF phase = "Drained" THEN "yes" ELSE "no",
  life <- fate

(* The striped gate, with its registration bits, notification mutex and    *)
(* condvar, implements the owner's contract: in particular a certificate   *)
(* is only ever issued with the door closed and nobody inside.             *)
ImplementsContract == Contract!Spec
=============================================================================
