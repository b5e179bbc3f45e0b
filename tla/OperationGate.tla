---------------------------- MODULE OperationGate ----------------------------
(***************************************************************************)
(* OperationGate of xlfn-kernel: the one-way gate (a TerminalDrainGate     *)
(* over the one-counter DrainGate) in front of operations that must drain  *)
(* before shutdown.  It differs from DrainGate.tla in three ways: sealing  *)
(* takes no notification lock, any number of threads close and wait at     *)
(* once without a claim, and nothing ever reopens it.                      *)
(***************************************************************************)
EXTENDS Integers, FiniteSets

CONSTANTS Operators,   \* threads that run operations under the gate
          Closers      \* threads that call close_and_wait_begin().wait()

VARIABLES
  sealed,    \* the SEALED bit
  waiting,   \* the WAITING bit
  active,    \* the count of live guards
  lock,      \* owner of idle.lock, or "free"
  opc,       \* where each operator is in enter / release
  cpc        \* where each closer is

vars == <<sealed, waiting, active, lock, opc, cpc>>

Init ==
  /\ sealed = FALSE
  /\ waiting = FALSE
  /\ active = 0
  /\ lock = "free"
  /\ opc = [o \in Operators |-> "idle"]
  /\ cpc = [c \in Closers |-> "idle"]

-----------------------------------------------------------------------------
(* A broken variant: admission does not look at the SEALED bit.            *)
AdmitsAlways == TRUE

Admits == ~sealed

Enter(o) ==
  /\ opc[o] = "idle"
  /\ Admits
  /\ active' = active + 1
  /\ opc' = [opc EXCEPT ![o] = "held"]
  /\ UNCHANGED <<sealed, waiting, lock, cpc>>

(* A broken variant: the update masks the count field out altogether.      *)
CountCleared == 0

CountReleased == active - 1

(* The fast path gives the last count to the slow path when a waiter is    *)
(* registered.                                                             *)
RetainsLast == waiting /\ active = 1

ReleaseFast(o) ==
  /\ opc[o] = "held"
  /\ \/ /\ RetainsLast
        /\ opc' = [opc EXCEPT ![o] = "slow"]
        /\ UNCHANGED active
     \/ /\ ~RetainsLast
        /\ active' = CountReleased
        /\ opc' = [opc EXCEPT ![o] = "idle"]
  /\ UNCHANGED <<sealed, waiting, lock, cpc>>

ReleaseLocked(o) ==
  /\ opc[o] = "slow"
  /\ lock = "free"
  /\ lock' = o
  /\ active' = CountReleased
  /\ opc' = [opc EXCEPT ![o] = IF active = 1 THEN "notify" ELSE "unlock"]
  /\ UNCHANGED <<sealed, waiting, cpc>>

Parked == {c \in Closers : cpc[c] = "parked"}

(* A broken variant: notify_one, which wakes one of several waiters.       *)
WakesOne(w) == Cardinality(w) <= 1

(* Condvar::notify_all: the woken set is every parked waiter.              *)
WakesEveryWaiter(w) == w = Parked

Notify(o) ==
  /\ opc[o] = "notify"
  /\ \E w \in SUBSET Parked :
       /\ WakesEveryWaiter(w)
       /\ cpc' = [c \in Closers |-> IF c \in w THEN "woken" ELSE cpc[c]]
  /\ opc' = [opc EXCEPT ![o] = "unlock"]
  /\ UNCHANGED <<sealed, waiting, active, lock>>

ReleaseUnlock(o) ==
  /\ opc[o] = "unlock"
  /\ lock' = "free"
  /\ opc' = [opc EXCEPT ![o] = "idle"]
  /\ UNCHANGED <<sealed, waiting, active, cpc>>

-----------------------------------------------------------------------------
(* close_and_wait_begin: seal without any lock; other closers may be       *)
(* anywhere in their own wait.                                             *)
BeginClose(c) ==
  /\ cpc[c] = "idle"
  /\ sealed' = TRUE
  /\ cpc' = [cpc EXCEPT ![c] = "closing"]
  /\ UNCHANGED <<waiting, active, lock, opc>>

(* wait(): seal once more, then lock, or relock after Condvar::wait.       *)
WaitLock(c) ==
  /\ cpc[c] \in {"closing", "woken"}
  /\ lock = "free"
  /\ lock' = c
  /\ sealed' = TRUE
  /\ cpc' = [cpc EXCEPT ![c] = "observing"]
  /\ UNCHANGED <<waiting, active, opc>>

(* mark_waiting registers and observes in one step; nonzero parks, which   *)
(* unlocks atomically.                                                     *)
Observe(c) ==
  /\ cpc[c] = "observing"
  /\ waiting' = TRUE
  /\ lock' = "free"
  /\ cpc' = [cpc EXCEPT ![c] = IF active = 0 THEN "drained" ELSE "parked"]
  /\ UNCHANGED <<sealed, active, opc>>

Release(o) ==
  ReleaseFast(o) \/ ReleaseLocked(o) \/ Notify(o) \/ ReleaseUnlock(o)

(* Nothing is left to do once everybody has closed and left.               *)
Finished ==
  /\ \A c \in Closers : cpc[c] = "drained"
  /\ \A o \in Operators : opc[o] = "idle"
  /\ UNCHANGED vars

Next ==
  \/ \E o \in Operators : Enter(o) \/ Release(o)
  \/ \E c \in Closers : BeginClose(c) \/ WaitLock(c) \/ Observe(c)
  \/ Finished

Spec == Init /\ [][Next]_vars

(* Operations end, runnable threads run, and the mutex starves nobody.     *)
Fairness ==
  /\ \A o \in Operators :
       /\ WF_vars(ReleaseFast(o) \/ Notify(o) \/ ReleaseUnlock(o))
       /\ SF_vars(ReleaseLocked(o))
  /\ \A c \in Closers : WF_vars(Observe(c)) /\ SF_vars(WaitLock(c))

LiveSpec == Spec /\ Fairness

-----------------------------------------------------------------------------
Inside == {o \in Operators : opc[o] # "idle"}

(* Variables have their types; the count is the number of live guards.     *)
TypeOK ==
  /\ sealed \in BOOLEAN
  /\ waiting \in BOOLEAN
  /\ active = Cardinality({o \in Operators : opc[o] \in {"held", "slow"}})
  /\ lock \in Operators \cup Closers \cup {"free"}
  /\ opc \in [Operators -> {"idle", "held", "slow", "notify", "unlock"}]
  /\ cpc \in [Closers -> {"idle", "closing", "observing", "parked", "woken",
                          "drained"}]

(* [OG-2] OperationsDrained is a persistent fact: once any closer has it,  *)
(* no operation runs and no guard is still inside its final release.       *)
DrainedMeansEmpty ==
  (\E c \in Closers : cpc[c] = "drained") => Inside = {}

(* [OG-1] After begin_close nobody is ever admitted again.                 *)
ClosedForGood == [][sealed => sealed' /\ Inside' \subseteq Inside]_vars

(* Every closer that starts to wait returns, however many wait at once.    *)
EveryCloseReturns ==
  \A c \in Closers : cpc[c] = "closing" ~> cpc[c] = "drained"
=============================================================================
