--------------------------- MODULE DrainGateProofs ---------------------------
(***************************************************************************)
(* Proofs, for every number of threads, stripes and every count limit, of  *)
(* the safety properties of DrainGate.                                     *)
(*                                                                         *)
(* The inductive invariant adds three things to the stated properties: who *)
(* owns idle.lock, how far each loop over the stripes has come, and what   *)
(* an observation pass that is under way already knows.                    *)
(***************************************************************************)
EXTENDS DrainGate, FiniteSetTheorems, TLAPS

-----------------------------------------------------------------------------
(* The parts of the inductive invariant.                                   *)

(* idle.lock is owned exactly by the thread inside its critical section.   *)
LockOwner ==
  /\ lock = "Admin" <=> apc \in {"sealing", "observing", "reopening"}
  /\ \A r \in Readers : lock = r <=> rpc[r] \in {"tail", "notify", "unlock"}

(* Which typestate goes with which point of the control flow.              *)
PhaseFits ==
  /\ phase = "Drained" => apc = "ready"
  /\ phase = "Sealed" => apc \in {"ready", "observing", "parked", "woken"}
  /\ phase = "Sealed" => sealed = Stripe
  /\ apc \in {"observing", "parked", "woken"} /\ goal.to = "Drained"
       => sealed = Stripe

(* How far the seal, try-seal, roll-back and reopen loops have come.       *)
LoopProgress ==
  /\ apc = "sealing" => \A j \in Stripe : j < index => j \in sealed
  /\ apc = "trySealing" =>
       /\ rollback = 0
       /\ \/ /\ \A j \in Stripe : j \in sealed <=> j < index
             /\ \A j \in Stripe : j < index => active[j] = 0
          \/ index = 0 /\ sealed = Stripe
  /\ apc = "undoing" =>
       \/ /\ index < N
          /\ \A j \in Stripe : j \in sealed <=> rollback <= j /\ j < index
          /\ \A j \in Stripe : j \in sealed => active[j] = 0
       \/ index = 0 /\ rollback = 0 /\ sealed = Stripe
  /\ apc = "reopening" =>
       /\ \A j \in Stripe : j \in sealed <=> index <= j
       /\ \A j \in Stripe : j \in sealed => active[j] = 0
       /\ index = 0 => \A r \in Readers : rpc[r] = "idle"

(* What an observation pass knows of the stripes it has visited: they are  *)
(* registered, the busy ones are still busy (the last count waits for      *)
(* idle.lock) and the idle ones stay idle when admission is sealed.        *)
ObservationSound ==
  apc = "observing" =>
    /\ \A j \in Stripe : j < index => j \in waiting
    /\ \A j \in busy : j \in waiting /\ active[j] # 0
    /\ goal.to = "Drained" =>
         \A j \in Stripe : j < index /\ j \notin busy => active[j] = 0

ControlInv ==
  /\ LockOwner
  /\ PhaseFits
  /\ LoopProgress
  /\ ObservationSound
  /\ DrainedIsQuiet
  /\ NoUseAfterReclaim
  /\ NoLostWakeup
  /\ OnlyOverflowAborts
  /\ NoPartialAdmission

IInv == TypeOK /\ PermitAccounting /\ ControlInv

-----------------------------------------------------------------------------
(* Type correctness.                                                       *)

(* A loop index below N names a stripe.                                    *)
LEMMA IndexIsStripe == \A i \in 0 .. N : i < N => i \in Stripe
  BY StripeCount DEF Stripe

(* A reader's step keeps every variable in its type; in particular a       *)
(* count is never pushed past its mask or below zero.                      *)
LEMMA TypeReader ==
  ASSUME NEW r \in Readers, TypeOK, ReaderStep(r)
  PROVE  TypeOK'
<1> USE MaskPositive DEF TypeOK, ReaderPC, AdminPC,
    AbortCauses, adminVars, readerVars, FailStop, CountReleased
<1>1. ASSUME NEW s \in Stripe, TryEnter(r, s) PROVE TypeOK'
  BY <1>1 DEF TryEnter, AtLimit
<1>2. CASE ReleaseFast(r)
  BY <1>2 DEF ReleaseFast
<1>3. CASE ReleaseLock(r)
  BY <1>3 DEF ReleaseLock
<1>4. CASE ReleaseCount(r)
  BY <1>4 DEF ReleaseCount
<1>5. CASE ReleaseNotify(r)
  BY <1>5 DEF ReleaseNotify
<1>6. CASE ReleaseUnlock(r)
  BY <1>6 DEF ReleaseUnlock
<1> QED
  BY <1>1, <1>2, <1>3, <1>4, <1>5, <1>6 DEF ReaderStep

(* An administrative step keeps every variable in its type.                *)
LEMMA TypeAdmin ==
  ASSUME TypeOK, AdminStep
  PROVE  TypeOK'
<1> USE StripeCount, IndexIsStripe DEF TypeOK, ReaderPC, AdminPC,
    AbortCauses, adminVars, readerVars, FailStop
<1>1. CASE Claim \/ DropControl
  BY <1>1 DEF Claim, DropControl
<1>2. CASE SealBegin \/ SealStripe \/ SealEnd
  BY <1>2 DEF SealBegin, SealStripe, SealEnd
<1>3. CASE TrySealBegin \/ TrySealStripe
  BY <1>3 DEF TrySealBegin, TrySealStripe
<1>4. CASE UndoStripe \/ TrySealEnd
  BY <1>4 DEF UndoStripe, TrySealEnd, UndoIndex
<1>5. ASSUME NEW g \in Goals, WaitBegin(g) PROVE TypeOK'
  BY <1>5 DEF WaitBegin
<1>6. CASE ObserveStripe \/ WakeUp
  BY <1>6 DEF ObserveStripe, WakeUp, MarkWaiting
<1>7. CASE ObserveEnd
  BY <1>7 DEF ObserveEnd, Goals
<1>8. CASE ReopenBegin \/ ReopenStripe \/ ReopenEnd
  BY <1>8 DEF ReopenBegin, ReopenStripe, ReopenEnd
<1>9. CASE Reclaim
  BY <1>9 DEF Reclaim
<1> QED
  BY <1>1, <1>2, <1>3, <1>4, <1>5, <1>6, <1>7, <1>8, <1>9 DEF AdminStep

(* Every variable keeps its type: counts stay within ACTIVE_COUNT_MASK and *)
(* loop indices within the stripes.                                        *)
THEOREM TypeCorrect == Spec => []TypeOK
<1>1. Init => TypeOK
  BY StripeCount, MaskPositive DEF Init, TypeOK, Stripe, ReaderPC, AdminPC,
     Goals
<1>2. TypeOK /\ [Next]_vars => TypeOK'
  <2> SUFFICES ASSUME TypeOK, [Next]_vars PROVE TypeOK'
    OBVIOUS
  <2>1. CASE UNCHANGED vars
    BY <2>1 DEF TypeOK, vars, readerVars, adminVars
  <2>2. CASE Next
    BY <2>1, <2>2, TypeReader, TypeAdmin DEF Next, Ended
  <2> QED
    BY <2>1, <2>2
<1> QED
  BY <1>1, <1>2, PTL DEF Spec

-----------------------------------------------------------------------------
(* Permit accounting.                                                      *)

(* The permits live on a stripe form a finite set.                         *)
LEMMA HoldersFinite ==
  ASSUME NEW s \in Stripe
  PROVE  /\ IsFiniteSet(Holders(s))
         /\ Cardinality(Holders(s)) \in Nat
         /\ Cardinality(Holders(s)) = 0 <=> Holders(s) = {}
BY ReadersFinite, FS_Subset, FS_CardinalityType, FS_EmptySet DEF Holders

(* A thread that holds a permit sees a nonzero count on its stripe: the    *)
(* underflow fail_stop of release is unreachable.                          *)
LEMMA HolderCounted ==
  ASSUME TypeOK, PermitAccounting, NEW r \in Readers,
         rpc[r] \in {"held", "slow", "tail"}
  PROVE  active[stripe[r]] # 0
<1>1. r \in Holders(stripe[r]) /\ stripe[r] \in Stripe
  BY DEF TypeOK, Holders
<1> QED
  BY <1>1, HoldersFinite DEF PermitAccounting

(* Entering adds one permit to one stripe and one to that stripe's count.  *)
LEMMA EnterCounted ==
  ASSUME TypeOK, PermitAccounting, NEW r \in Readers, NEW s \in Stripe,
         TryEnter(r, s)
  PROVE  PermitAccounting'
<1>1. CASE AtLimit(s)
  BY <1>1 DEF TryEnter, PermitAccounting, Holders, readerVars
<1>2. CASE ~AtLimit(s)
  <2>1. Holders(s)' = Holders(s) \cup {r} /\ r \notin Holders(s)
    BY <1>2 DEF TryEnter, TypeOK, Holders
  <2>2. \A t \in Stripe \ {s} : Holders(t)' = Holders(t)
    BY <1>2 DEF TryEnter, TypeOK, Holders
  <2>3. Cardinality(Holders(s)') = Cardinality(Holders(s)) + 1
    BY <2>1, HoldersFinite, FS_AddElement
  <2> QED
    BY <1>2, <2>2, <2>3 DEF TryEnter, TypeOK, PermitAccounting
<1> QED
  BY <1>1, <1>2

(* A step that takes r out of the holders of its stripe and counts that    *)
(* stripe down by one keeps the accounts straight.                         *)
LEMMA LeaveCounted ==
  ASSUME TypeOK, PermitAccounting, NEW r \in Readers,
         rpc[r] \in {"held", "tail"}, stripe' = stripe,
         active' = CountReleased(stripe[r]),
         \E p \in {"idle", "notify", "unlock"} : rpc' = [rpc EXCEPT ![r] = p]
  PROVE  PermitAccounting'
<1> DEFINE s == stripe[r]
<1>1. s \in Stripe
  BY DEF TypeOK
<1>2. Holders(s)' = Holders(s) \ {r} /\ r \in Holders(s)
  BY DEF TypeOK, Holders
<1>3. \A t \in Stripe \ {s} : Holders(t)' = Holders(t)
  BY DEF TypeOK, Holders
<1>4. Cardinality(Holders(s)') = Cardinality(Holders(s)) - 1
  BY <1>1, <1>2, HoldersFinite, FS_RemoveElement
<1> QED
  BY <1>1, <1>3, <1>4 DEF CountReleased, TypeOK, PermitAccounting

(* Every reader step keeps the accounts straight.                          *)
LEMMA ReaderCounted ==
  ASSUME TypeOK, PermitAccounting, NEW r \in Readers, ReaderStep(r)
  PROVE  PermitAccounting'
<1>1. CASE ReleaseFast(r)
  <2>1. active[stripe[r]] # 0
    BY <1>1, HolderCounted DEF ReleaseFast
  <2>2. CASE RetainsLast(stripe[r])
    <3>1. \A t \in Stripe : Holders(t)' = Holders(t)
      BY <1>1, <2>1, <2>2 DEF ReleaseFast, TypeOK, Holders
    <3> QED
      BY <1>1, <2>1, <2>2, <3>1 DEF ReleaseFast, PermitAccounting
  <2>3. CASE ~RetainsLast(stripe[r])
    BY <1>1, <2>1, <2>3, LeaveCounted DEF ReleaseFast
  <2> QED
    BY <2>2, <2>3
<1>2. CASE ReleaseCount(r)
  BY <1>2, HolderCounted, LeaveCounted DEF ReleaseCount
<1>3. CASE ReleaseLock(r) \/ ReleaseNotify(r) \/ ReleaseUnlock(r)
  <2>1. \A t \in Stripe : Holders(t)' = Holders(t)
    BY <1>3 DEF ReleaseLock, ReleaseNotify, ReleaseUnlock, TypeOK, Holders
  <2> QED
    BY <1>3, <2>1 DEF ReleaseLock, ReleaseNotify, ReleaseUnlock,
       PermitAccounting
<1> QED
  BY <1>1, <1>2, <1>3, EnterCounted DEF ReaderStep

(* The claim holder changes no count and no permit.                        *)
LEMMA AdminKeepsCounts ==
  ASSUME AdminStep
  PROVE  UNCHANGED <<active, rpc, stripe>>
BY DEF AdminStep, Claim, DropControl, SealBegin, SealStripe, SealEnd,
   TrySealBegin, TrySealStripe, UndoStripe, TrySealEnd, WaitBegin,
   ObserveStripe, ObserveEnd, WakeUp, ReopenBegin, ReopenStripe, ReopenEnd,
   Reclaim, readerVars, adminVars

-----------------------------------------------------------------------------
(* The control invariant, action by action.                                *)

(* Stripes are the numbers below N.                                        *)
LEMMA StripeBounds == \A j \in Stripe : j \in Int /\ 0 <= j /\ j < N
  BY StripeCount DEF Stripe

(* A thread that enters or releases keeps the control invariant.  What     *)
(* matters: nobody enters a sealed stripe, and the last count of a         *)
(* registered stripe goes down only under idle.lock and then notifies.     *)
LEMMA ReaderKeeps ==
  ASSUME IInv, TypeOK', fate = "run", NEW r \in Readers, ReaderStep(r)
  PROVE  ControlInv'
<1> USE AdminIsNoReader DEF IInv, ControlInv, TypeOK, adminVars, readerVars,
    FailStop
<1>1. ASSUME NEW s \in Stripe, TryEnter(r, s) PROVE ControlInv'
  <2>1. LockOwner' /\ PhaseFits' /\ NoLostWakeup'
    BY <1>1 DEF TryEnter, AtLimit, LockOwner, NoLostWakeup, PhaseFits
  <2>2. LoopProgress'
    BY <1>1, StripeBounds DEF TryEnter, AtLimit, LoopProgress
  <2>3. ObservationSound'
    BY <1>1 DEF TryEnter, AtLimit, ObservationSound, PhaseFits
  <2>4. DrainedIsQuiet' /\ NoUseAfterReclaim' /\ OnlyOverflowAborts' /\
         NoPartialAdmission'
    BY <1>1 DEF TryEnter, AtLimit, DrainedIsQuiet, NoPartialAdmission,
       NoUseAfterReclaim, OnlyOverflowAborts
  <2> QED
    BY <2>1, <2>2, <2>3, <2>4 DEF ControlInv
<1>2. CASE ReleaseFast(r)
  <2>1. LockOwner' /\ PhaseFits' /\ LoopProgress'
    BY <1>2 DEF ReleaseFast, CountReleased, RetainsLast, LockOwner,
       LoopProgress, PhaseFits
  <2>2. ObservationSound' /\ NoLostWakeup'
    BY <1>2 DEF ReleaseFast, CountReleased, RetainsLast, NoLostWakeup,
       ObservationSound
  <2>3. DrainedIsQuiet' /\ NoUseAfterReclaim' /\ NoPartialAdmission'
    BY <1>2 DEF ReleaseFast, CountReleased, RetainsLast, DrainedIsQuiet,
       NoPartialAdmission, NoUseAfterReclaim
  <2>4. OnlyOverflowAborts'
    BY <1>2, HolderCounted DEF ReleaseFast, CountReleased, RetainsLast,
       OnlyOverflowAborts
  <2> QED
    BY <2>1, <2>2, <2>3, <2>4 DEF ControlInv
<1>3. CASE ReleaseLock(r)
  <2>1. LockOwner' /\ PhaseFits' /\ LoopProgress' /\ ObservationSound' /\
         NoLostWakeup'
    BY <1>3 DEF ReleaseLock, LockOwner, LoopProgress, NoLostWakeup,
       ObservationSound, PhaseFits
  <2>2. DrainedIsQuiet' /\ NoUseAfterReclaim' /\ OnlyOverflowAborts' /\
         NoPartialAdmission'
    BY <1>3 DEF ReleaseLock, DrainedIsQuiet, NoPartialAdmission,
       NoUseAfterReclaim, OnlyOverflowAborts
  <2> QED
    BY <2>1, <2>2 DEF ControlInv
<1>4. CASE ReleaseCount(r)
  <2>1. LockOwner' /\ PhaseFits' /\ LoopProgress'
    BY <1>4 DEF ReleaseCount, CountReleased, BecameIdle, LockOwner,
       LoopProgress, PhaseFits
  <2>2. ObservationSound'
    BY <1>4 DEF ReleaseCount, CountReleased, BecameIdle, LockOwner,
       ObservationSound
  <2>3. NoLostWakeup'
    BY <1>4 DEF ReleaseCount, CountReleased, BecameIdle, NoLostWakeup
  <2>4. DrainedIsQuiet' /\ NoUseAfterReclaim' /\ NoPartialAdmission'
    BY <1>4 DEF ReleaseCount, CountReleased, BecameIdle, DrainedIsQuiet,
       NoPartialAdmission, NoUseAfterReclaim
  <2>5. OnlyOverflowAborts'
    BY <1>4, HolderCounted DEF ReleaseCount, CountReleased, BecameIdle,
       OnlyOverflowAborts
  <2> QED
    BY <2>1, <2>2, <2>3, <2>4, <2>5 DEF ControlInv
<1>5. CASE ReleaseNotify(r)
  <2>1. LockOwner' /\ PhaseFits' /\ LoopProgress' /\ ObservationSound' /\
         NoLostWakeup'
    BY <1>5 DEF ReleaseNotify, LockOwner, LoopProgress, NoLostWakeup,
       ObservationSound, PhaseFits
  <2>2. DrainedIsQuiet' /\ NoUseAfterReclaim' /\ OnlyOverflowAborts' /\
         NoPartialAdmission'
    BY <1>5 DEF ReleaseNotify, DrainedIsQuiet, NoPartialAdmission,
       NoUseAfterReclaim, OnlyOverflowAborts
  <2> QED
    BY <2>1, <2>2 DEF ControlInv
<1>6. CASE ReleaseUnlock(r)
  <2>1. LockOwner' /\ PhaseFits' /\ LoopProgress' /\ ObservationSound' /\
         NoLostWakeup'
    BY <1>6 DEF ReleaseUnlock, LockOwner, LoopProgress, NoLostWakeup,
       ObservationSound, PhaseFits
  <2>2. DrainedIsQuiet' /\ NoUseAfterReclaim' /\ OnlyOverflowAborts' /\
         NoPartialAdmission'
    BY <1>6 DEF ReleaseUnlock, DrainedIsQuiet, NoPartialAdmission,
       NoUseAfterReclaim, OnlyOverflowAborts
  <2> QED
    BY <2>1, <2>2 DEF ControlInv
<1> QED
  BY <1>1, <1>2, <1>3, <1>4, <1>5, <1>6 DEF ReaderStep

(* A step of the claim holder keeps the control invariant.  What matters:  *)
(* a pass over the stripes that ends idle on a sealed gate has seen every  *)
(* count at zero and holds idle.lock, so no release is in its tail.        *)
LEMMA AdminKeeps ==
  ASSUME IInv, TypeOK', fate = "run", AdminStep
  PROVE  ControlInv'
<1> USE AdminIsNoReader, StripeCount, IndexIsStripe, StripeBounds
    DEF IInv, ControlInv, TypeOK, adminVars, readerVars, FailStop
<1>1. CASE Claim \/ DropControl
  <2>1. LockOwner' /\ PhaseFits' /\ LoopProgress' /\ ObservationSound' /\
         NoLostWakeup'
    BY <1>1 DEF Claim, DropControl, LockOwner, LoopProgress, NoLostWakeup,
       ObservationSound, PhaseFits
  <2>2. DrainedIsQuiet' /\ NoUseAfterReclaim' /\ OnlyOverflowAborts' /\
         NoPartialAdmission'
    BY <1>1 DEF Claim, DropControl, DrainedIsQuiet, NoPartialAdmission,
       NoUseAfterReclaim, OnlyOverflowAborts
  <2> QED
    BY <2>1, <2>2 DEF ControlInv
<1>2. CASE SealBegin
  <2>1. LockOwner' /\ PhaseFits' /\ LoopProgress' /\ ObservationSound' /\
         NoLostWakeup'
    BY <1>2 DEF SealBegin, LockOwner, LoopProgress, NoLostWakeup,
       ObservationSound, PhaseFits
  <2>2. DrainedIsQuiet' /\ NoUseAfterReclaim' /\ OnlyOverflowAborts' /\
         NoPartialAdmission'
    BY <1>2 DEF SealBegin, DrainedIsQuiet, NoPartialAdmission,
       NoUseAfterReclaim, OnlyOverflowAborts
  <2> QED
    BY <2>1, <2>2 DEF ControlInv
<1>3. CASE SealStripe
  <2>1. LockOwner' /\ PhaseFits' /\ ObservationSound' /\ NoLostWakeup'
    BY <1>3 DEF SealStripe, LockOwner, NoLostWakeup, ObservationSound,
       PhaseFits
  <2>2. LoopProgress'
    BY <1>3 DEF SealStripe, LoopProgress
  <2>3. DrainedIsQuiet' /\ NoUseAfterReclaim' /\ OnlyOverflowAborts' /\
         NoPartialAdmission'
    BY <1>3 DEF SealStripe, DrainedIsQuiet, NoPartialAdmission,
       NoUseAfterReclaim, OnlyOverflowAborts, PhaseFits
  <2> QED
    BY <2>1, <2>2, <2>3 DEF ControlInv
<1>4. CASE SealEnd
  <2>1. sealed = Stripe
    BY <1>4 DEF SealEnd, LoopProgress
  <2>2. LockOwner' /\ PhaseFits' /\ LoopProgress' /\ ObservationSound' /\
         NoLostWakeup'
    BY <1>4, <2>1 DEF SealEnd, LockOwner, LoopProgress, NoLostWakeup,
       ObservationSound, PhaseFits
  <2>3. DrainedIsQuiet' /\ NoUseAfterReclaim' /\ OnlyOverflowAborts' /\
         NoPartialAdmission'
    BY <1>4, <2>1 DEF SealEnd, DrainedIsQuiet, NoPartialAdmission,
       NoUseAfterReclaim, OnlyOverflowAborts, PhaseFits
  <2> QED
    BY <2>2, <2>3 DEF ControlInv
<1>5. CASE TrySealBegin
  <2>1. LockOwner' /\ PhaseFits' /\ LoopProgress' /\ ObservationSound' /\
         NoLostWakeup'
    BY <1>5 DEF TrySealBegin, LockOwner, LoopProgress, NoLostWakeup,
       NoPartialAdmission, ObservationSound, PhaseFits
  <2>2. DrainedIsQuiet' /\ NoUseAfterReclaim' /\ OnlyOverflowAborts' /\
         NoPartialAdmission'
    BY <1>5 DEF TrySealBegin, DrainedIsQuiet, NoPartialAdmission,
       NoUseAfterReclaim, OnlyOverflowAborts
  <2> QED
    BY <2>1, <2>2 DEF ControlInv
<1>6. CASE TrySealStripe
  <2>1. LockOwner' /\ PhaseFits' /\ ObservationSound' /\ NoLostWakeup'
    BY <1>6 DEF TrySealStripe, LockOwner, NoLostWakeup, ObservationSound,
       PhaseFits
  <2>2. LoopProgress'
    BY <1>6 DEF TrySealStripe, LoopProgress
  <2>3. DrainedIsQuiet' /\ NoUseAfterReclaim' /\ OnlyOverflowAborts' /\
         NoPartialAdmission'
    BY <1>6 DEF TrySealStripe, DrainedIsQuiet, NoPartialAdmission,
       NoUseAfterReclaim, OnlyOverflowAborts, PhaseFits
  <2> QED
    BY <2>1, <2>2, <2>3 DEF ControlInv
<1>7. CASE UndoStripe
  <2>1. LockOwner' /\ PhaseFits' /\ LoopProgress' /\ ObservationSound' /\
         NoLostWakeup'
    BY <1>7 DEF UndoStripe, UndoIndex, LockOwner, LoopProgress, NoLostWakeup,
       ObservationSound, PhaseFits
  <2>2. DrainedIsQuiet' /\ NoUseAfterReclaim' /\ OnlyOverflowAborts' /\
         NoPartialAdmission'
    BY <1>7 DEF UndoStripe, UndoIndex, DrainedIsQuiet, LoopProgress,
       NoPartialAdmission, NoUseAfterReclaim, OnlyOverflowAborts, PhaseFits
  <2> QED
    BY <2>1, <2>2 DEF ControlInv
<1>8. CASE TrySealEnd
  <2>1. sealed \in {{}, Stripe} /\ (apc = "trySealing" => sealed = Stripe)
    BY <1>8 DEF TrySealEnd, UndoIndex, LoopProgress
  <2>2. LockOwner' /\ PhaseFits' /\ LoopProgress' /\ ObservationSound' /\
         NoLostWakeup'
    BY <1>8, <2>1 DEF TrySealEnd, UndoIndex, LockOwner, LoopProgress,
       NoLostWakeup, ObservationSound, PhaseFits
  <2>3. DrainedIsQuiet' /\ NoUseAfterReclaim' /\ OnlyOverflowAborts' /\
         NoPartialAdmission'
    BY <1>8, <2>1 DEF TrySealEnd, UndoIndex, DrainedIsQuiet,
       NoPartialAdmission, NoUseAfterReclaim, OnlyOverflowAborts, PhaseFits
  <2> QED
    BY <2>2, <2>3 DEF ControlInv
<1>9. ASSUME NEW g \in Goals, WaitBegin(g) PROVE ControlInv'
  <2>1. LockOwner' /\ PhaseFits' /\ LoopProgress' /\ ObservationSound' /\
         NoLostWakeup'
    BY <1>9 DEF WaitBegin, IsSealed, IdleLockFree, LockOwner, LoopProgress,
       NoLostWakeup, ObservationSound, PhaseFits
  <2>2. DrainedIsQuiet' /\ NoUseAfterReclaim' /\ OnlyOverflowAborts' /\
         NoPartialAdmission'
    BY <1>9 DEF WaitBegin, IsSealed, IdleLockFree, DrainedIsQuiet,
       NoPartialAdmission, NoUseAfterReclaim, OnlyOverflowAborts
  <2> QED
    BY <2>1, <2>2 DEF ControlInv
<1>10. CASE ObserveStripe
  <2>1. LockOwner' /\ PhaseFits' /\ LoopProgress' /\ ObservationSound' /\
         NoLostWakeup'
    BY <1>10 DEF ObserveStripe, MarkWaiting, LockOwner, LoopProgress,
       NoLostWakeup, ObservationSound, PhaseFits
  <2>2. DrainedIsQuiet' /\ NoUseAfterReclaim' /\ OnlyOverflowAborts' /\
         NoPartialAdmission'
    BY <1>10 DEF ObserveStripe, MarkWaiting, DrainedIsQuiet,
       NoPartialAdmission, NoUseAfterReclaim, OnlyOverflowAborts, PhaseFits
  <2> QED
    BY <2>1, <2>2 DEF ControlInv
<1>11. CASE ObserveEnd
  <2>1. LockOwner' /\ PhaseFits' /\ LoopProgress' /\ ObservationSound' /\
         NoLostWakeup'
    BY <1>11 DEF ObserveEnd, Goals, LockOwner, LoopProgress, NoLostWakeup,
       ObservationSound, PhaseFits
  <2>2. DrainedIsQuiet'
    BY <1>11, HolderCounted DEF ObserveEnd, DrainedIsQuiet, Goals, LockOwner,
       ObservationSound, PhaseFits, ReaderPC
  <2>3. NoUseAfterReclaim' /\ OnlyOverflowAborts' /\ NoPartialAdmission'
    BY <1>11 DEF ObserveEnd, NoPartialAdmission, NoUseAfterReclaim,
       OnlyOverflowAborts, PhaseFits
  <2> QED
    BY <2>1, <2>2, <2>3 DEF ControlInv
<1>12. CASE WakeUp
  <2>1. LockOwner' /\ PhaseFits' /\ LoopProgress' /\ ObservationSound' /\
         NoLostWakeup'
    BY <1>12 DEF WakeUp, LockOwner, LoopProgress, NoLostWakeup,
       ObservationSound, PhaseFits
  <2>2. DrainedIsQuiet' /\ NoUseAfterReclaim' /\ OnlyOverflowAborts' /\
         NoPartialAdmission'
    BY <1>12 DEF WakeUp, DrainedIsQuiet, NoPartialAdmission,
       NoUseAfterReclaim, OnlyOverflowAborts
  <2> QED
    BY <2>1, <2>2 DEF ControlInv
<1>13. CASE ReopenBegin
  <2>1. sealed = Stripe /\ \A s \in Stripe : active[s] = 0
    <3>1. sealed = Stripe /\ \A s \in Stripe : Holders(s) = {}
      BY <1>13 DEF ReopenBegin, DrainedIsQuiet, Holders
    <3> QED
      BY <3>1, HoldersFinite DEF PermitAccounting
  <2>2. LockOwner' /\ PhaseFits' /\ LoopProgress' /\ ObservationSound' /\
         NoLostWakeup'
    BY <1>13, <2>1 DEF ReopenBegin, DrainedIsQuiet, LockOwner, LoopProgress,
       NoLostWakeup, ObservationSound, PhaseFits
  <2>3. DrainedIsQuiet' /\ NoUseAfterReclaim' /\ NoPartialAdmission'
    BY <1>13, <2>1 DEF ReopenBegin, DrainedIsQuiet, NoPartialAdmission,
       NoUseAfterReclaim
  <2>4. OnlyOverflowAborts'
    BY <1>13, <2>1 DEF ReopenBegin, OnlyOverflowAborts
  <2> QED
    BY <2>2, <2>3, <2>4 DEF ControlInv
<1>14. CASE ReopenStripe
  <2>1. LockOwner' /\ PhaseFits' /\ LoopProgress' /\ ObservationSound' /\
         NoLostWakeup'
    BY <1>14 DEF ReopenStripe, LockOwner, LoopProgress, NoLostWakeup,
       ObservationSound, PhaseFits
  <2>2. DrainedIsQuiet' /\ NoUseAfterReclaim' /\ OnlyOverflowAborts' /\
         NoPartialAdmission'
    BY <1>14 DEF ReopenStripe, DrainedIsQuiet, LoopProgress,
       NoPartialAdmission, NoUseAfterReclaim, OnlyOverflowAborts, PhaseFits
  <2> QED
    BY <2>1, <2>2 DEF ControlInv
<1>15. CASE ReopenEnd
  <2>1. LockOwner' /\ PhaseFits' /\ LoopProgress' /\ ObservationSound' /\
         NoLostWakeup'
    BY <1>15 DEF ReopenEnd, LockOwner, LoopProgress, NoLostWakeup,
       ObservationSound, PhaseFits
  <2>2. DrainedIsQuiet' /\ NoUseAfterReclaim' /\ OnlyOverflowAborts' /\
         NoPartialAdmission'
    BY <1>15 DEF ReopenEnd, DrainedIsQuiet, LoopProgress, NoPartialAdmission,
       NoUseAfterReclaim, OnlyOverflowAborts, PhaseFits
  <2> QED
    BY <2>1, <2>2 DEF ControlInv
<1>16. CASE Reclaim
  <2>1. LockOwner' /\ PhaseFits' /\ LoopProgress' /\ ObservationSound' /\
         NoLostWakeup'
    BY <1>16 DEF Reclaim, LockOwner, LoopProgress, NoLostWakeup,
       ObservationSound, PhaseFits
  <2>2. DrainedIsQuiet' /\ NoUseAfterReclaim' /\ OnlyOverflowAborts' /\
         NoPartialAdmission'
    BY <1>16 DEF Reclaim, DrainedIsQuiet, NoPartialAdmission,
       NoUseAfterReclaim, OnlyOverflowAborts
  <2> QED
    BY <2>1, <2>2 DEF ControlInv
<1> QED
  BY <1>1, <1>2, <1>3, <1>4, <1>5, <1>6, <1>7, <1>8, <1>9, <1>10,
  <1>11, <1>12, <1>13, <1>14, <1>15, <1>16 DEF AdminStep

-----------------------------------------------------------------------------
(* The theorems.                                                           *)

(* The gate's inductive invariant.                                         *)
THEOREM GateInvariant == Spec => []IInv
<1>1. Init => IInv
  <2> SUFFICES ASSUME Init PROVE IInv
    OBVIOUS
  <2>1. TypeOK
    BY StripeCount, MaskPositive DEF Init, TypeOK, Stripe, ReaderPC,
       AdminPC, Goals
  <2>2. PermitAccounting
    <3>1. \A s \in Stripe : Holders(s) = {}
      BY DEF Init, Holders
    <3> QED
      BY <3>1, HoldersFinite DEF Init, PermitAccounting
  <2>3. ControlInv
    BY AdminIsNoReader DEF Init, ControlInv, LockOwner, PhaseFits,
       LoopProgress, ObservationSound, DrainedIsQuiet, NoUseAfterReclaim,
       NoLostWakeup, OnlyOverflowAborts, NoPartialAdmission
  <2> QED
    BY <2>1, <2>2, <2>3 DEF IInv
<1>2. IInv /\ [Next]_vars => IInv'
  <2> SUFFICES ASSUME IInv, [Next]_vars PROVE IInv'
    OBVIOUS
  <2>1. CASE UNCHANGED vars
    BY <2>1 DEF IInv, TypeOK, PermitAccounting, Holders, ControlInv,
       LockOwner, PhaseFits, LoopProgress, ObservationSound, DrainedIsQuiet,
       NoUseAfterReclaim, NoLostWakeup, OnlyOverflowAborts,
       NoPartialAdmission, vars, readerVars, adminVars
  <2>2. ASSUME fate = "run", NEW r \in Readers, ReaderStep(r) PROVE IInv'
    <3>1. TypeOK'
      BY <2>2, TypeReader DEF IInv
    <3>2. PermitAccounting'
      BY <2>2, ReaderCounted DEF IInv
    <3> QED
      BY <2>2, <3>1, <3>2, ReaderKeeps DEF IInv
  <2>3. ASSUME fate = "run", AdminStep PROVE IInv'
    <3>1. TypeOK'
      BY <2>3, TypeAdmin DEF IInv
    <3>2. PermitAccounting'
      BY <2>3, AdminKeepsCounts DEF IInv, PermitAccounting, Holders
    <3> QED
      BY <2>3, <3>1, <3>2, AdminKeeps DEF IInv
  <2> QED
    BY <2>1, <2>2, <2>3 DEF Next, Ended
<1> QED
  BY <1>1, <1>2, PTL DEF Spec

(* Each stripe of the gate counts exactly the permits live on it. *)
THEOREM PermitsCounted == Spec => []PermitAccounting
<1>1. IInv => PermitAccounting
  BY DEF IInv, ControlInv
<1> QED
  BY <1>1, GateInvariant, PTL

(* A control in phase Drained has sealed every stripe, and no thread holds a
   permit or is still inside release. *)
THEOREM DrainIsStable == Spec => []DrainedIsQuiet
<1>1. IInv => DrainedIsQuiet
  BY DEF IInv, ControlInv
<1> QED
  BY <1>1, GateInvariant, PTL

(* Once the owner has reclaimed a drained gate no thread is inside it. *)
THEOREM ReclamationSafe == Spec => []NoUseAfterReclaim
<1>1. IInv => NoUseAfterReclaim
  BY DEF IInv, ControlInv
<1> QED
  BY <1>1, GateInvariant, PTL

(* A waiter parked on the condition variable is never forgotten: some
   registered stripe is still counted or a notify is on its way. *)
THEOREM NoWakeupLost == Spec => []NoLostWakeup
<1>1. IInv => NoLostWakeup
  BY DEF IInv, ControlInv
<1> QED
  BY <1>1, GateInvariant, PTL

(* The fail_stop branches for underflow, roll-back and reopen are dead code;
   only a full count aborts. *)
THEOREM FailStopUnreachable == Spec => []OnlyOverflowAborts
<1>1. IInv => OnlyOverflowAborts
  BY DEF IInv, ControlInv
<1> QED
  BY <1>1, GateInvariant, PTL

(* Between administrative operations all stripes admit or all reject. *)
THEOREM AdmissionIsWhole == Spec => []NoPartialAdmission
<1>1. IInv => NoPartialAdmission
  BY DEF IInv, ControlInv
<1> QED
  BY <1>1, GateInvariant, PTL

-----------------------------------------------------------------------------
(* Refinement.                                                             *)

(* Every step of a thread is a step of the owner's contract or leaves it   *)
(* unchanged.                                                              *)
LEMMA ReaderRefines ==
  ASSUME IInv, fate = "run", NEW r \in Readers, ReaderStep(r),
         OnlyOverflowAborts'
  PROVE  [Contract!Next]_(Contract!gateVars)
<1> USE DEF IInv, TypeOK, Contract!Next, Contract!gateVars, adminVars,
    readerVars, FailStop
<1>1. ASSUME NEW s \in Stripe, TryEnter(r, s)
      PROVE  [Contract!Next]_(Contract!gateVars)
  <2>1. sealed # Stripe
    BY <1>1 DEF TryEnter
  <2>2. CASE AtLimit(s)
    BY <1>1, <2>1, <2>2 DEF TryEnter, Contract!Overflow
  <2>3. CASE ~AtLimit(s)
    BY <1>1, <2>1, <2>3 DEF TryEnter, Contract!Enter
  <2> QED
    BY <2>2, <2>3
<1>2. CASE ReleaseFast(r)
  BY <1>2 DEF ReleaseFast, Contract!Leave, OnlyOverflowAborts
<1>3. CASE ReleaseLock(r)
  BY <1>3 DEF ReleaseLock
<1>4. CASE ReleaseCount(r)
  BY <1>4 DEF ReleaseCount, OnlyOverflowAborts
<1>5. CASE ReleaseNotify(r)
  BY <1>5 DEF ReleaseNotify
<1>6. CASE ReleaseUnlock(r)
  BY <1>6 DEF ReleaseUnlock, Contract!Leave
<1> QED
  BY <1>1, <1>2, <1>3, <1>4, <1>5, <1>6 DEF ReaderStep

(* Every step of the claim holder is a step of the owner's contract or     *)
(* leaves it unchanged.                                                    *)
LEMMA AdminRefines ==
  ASSUME IInv, IInv', fate = "run", AdminStep
  PROVE  [Contract!Next]_(Contract!gateVars)
<1> USE StripeCount, IndexIsStripe, StripeBounds
    DEF IInv, TypeOK, ControlInv, OnlyOverflowAborts, adminVars, readerVars,
    FailStop, Contract!Next, Contract!gateVars
<1>1. CASE Claim
  BY <1>1 DEF Claim
<1>2. CASE DropControl
  BY <1>2 DEF DropControl, Contract!Surrender
<1>3. CASE SealBegin
  BY <1>3 DEF SealBegin, Contract!Surrender
<1>4. CASE SealStripe
  BY <1>4 DEF SealStripe, Contract!Close
<1>5. CASE SealEnd
  BY <1>5 DEF SealEnd, PhaseFits
<1>6. CASE TrySealBegin
  BY <1>6 DEF TrySealBegin
<1>7. CASE TrySealStripe
  BY <1>7 DEF TrySealStripe, Contract!Close
<1>8. CASE UndoStripe
  <2>1. index \in Stripe /\ index \notin sealed
    BY <1>8 DEF UndoStripe, UndoIndex, LoopProgress
  <2> QED
    BY <1>8, <2>1 DEF UndoStripe
<1>9. CASE TrySealEnd
  BY <1>9 DEF TrySealEnd, PhaseFits
<1>10. ASSUME NEW g \in Goals, WaitBegin(g)
       PROVE  [Contract!Next]_(Contract!gateVars)
  BY <1>10 DEF WaitBegin
<1>11. CASE ObserveStripe
  BY <1>11 DEF ObserveStripe
<1>12. CASE ObserveEnd
  BY <1>12 DEF ObserveEnd, PhaseFits, DrainedIsQuiet, Contract!Certify
<1>13. CASE WakeUp
  BY <1>13 DEF WakeUp
<1>14. CASE ReopenBegin
  BY <1>14 DEF ReopenBegin, Contract!Surrender
<1>15. CASE ReopenStripe
  BY <1>15 DEF ReopenStripe, LoopProgress, PhaseFits, Contract!Open
<1>16. CASE ReopenEnd
  BY <1>16 DEF ReopenEnd
<1>17. CASE Reclaim
  BY <1>17 DEF Reclaim, Contract!Reclaim
<1> QED
  BY <1>1, <1>2, <1>3, <1>4, <1>5, <1>6, <1>7, <1>8, <1>9, <1>10, <1>11,
     <1>12, <1>13, <1>14, <1>15, <1>16, <1>17 DEF AdminStep

(* The striped gate implements the contract its owners rely on.            *)
THEOREM GateRefinesContract == Spec => ImplementsContract
<1>1. Init => Contract!Init
  BY StripeCount DEF Init, Contract!Init, Stripe
<1>2. IInv /\ IInv' /\ [Next]_vars => [Contract!Next]_(Contract!gateVars)
  <2> SUFFICES ASSUME IInv, IInv', [Next]_vars
               PROVE  [Contract!Next]_(Contract!gateVars)
    OBVIOUS
  <2>1. CASE UNCHANGED vars
    BY <2>1 DEF vars, readerVars, adminVars, Contract!gateVars
  <2>2. ASSUME fate = "run", NEW r \in Readers, ReaderStep(r)
        PROVE  [Contract!Next]_(Contract!gateVars)
    BY <2>2, ReaderRefines DEF IInv, ControlInv
  <2>3. CASE fate = "run" /\ AdminStep
    BY <2>3, AdminRefines
  <2> QED
    BY <2>1, <2>2, <2>3 DEF Next, Ended
<1> QED
  BY <1>1, <1>2, GateInvariant, PTL DEF Spec, ImplementsContract, Contract!Spec
=============================================================================
