------------------------------ MODULE MCKernel ------------------------------
(***************************************************************************)
(* The synchronisation primitives of xlfn-kernel and the service slots     *)
(* built on them, and the ownership of the add-in's state through the      *)
(* thread-affine slot, on small instances.  Each behaviour runs the part   *)
(* that component names; the others stay in their initial states.          *)
(***************************************************************************)
EXTENDS DrainGate, TLC

CONSTANTS Parts,                                 \* the primitives a run looks at
          Operators, Closers,                    \* OperationGate
          DomainReaders, Writers, Rotators,      \* RotatingReadDomain
          Objects,
          Threads, MaxRuntimes,                  \* GenerationServiceSlot
          LaneReaders, LaneWriters, MaxServices, \* ReplaceableServiceSlot
          Hosts, MaxOpens, MaxCalls              \* AddinState

VARIABLES component,
          opSealed, opWaiting, opActive, opLock, opc, opCpc,
          open, inside, current, curView, gateView, closed, pending, tlock, tview,
          qlock, qview, queue, domRpc, rgen, rview, refs, wpc, wgen, wobj, tpc,
          mode, old, view, batch, cpc, linked, freed, domAborted,
          state, published, door, slotInside, slotLock, pc, ptr, born, owner, slotAborted,
          laneActive, lanePublished, laneDoor, laneInside, holder, laneCurrent, previous,
          laneWpc, candidate, laneRpc, laneIndex, lanePtr, laneFreed, committed,
          laneBorn, laneAborted,
          st, attempts, affinity, tls, places, quiet, host, calls

Op == INSTANCE OperationGate WITH
  sealed <- opSealed, waiting <- opWaiting, active <- opActive, lock <- opLock, cpc <- opCpc
Domain == INSTANCE RotatingReadDomain WITH
  Readers <- DomainReaders, rpc <- domRpc, aborted <- domAborted
Slot == INSTANCE GenerationServiceSlot WITH
  inside <- slotInside, lock <- slotLock, aborted <- slotAborted
Lane == INSTANCE ReplaceableServiceSlot WITH
  Readers <- LaneReaders, Writers <- LaneWriters, active <- laneActive,
  published <- lanePublished, door <- laneDoor, inside <- laneInside,
  current <- laneCurrent, wpc <- laneWpc, rpc <- laneRpc, index <- laneIndex, ptr <- lanePtr,
  freed <- laneFreed, born <- laneBorn, aborted <- laneAborted

Own == INSTANCE AddinState WITH fate <- places, closed <- quiet

opVars == <<opSealed, opWaiting, opActive, opLock, opc, opCpc>>
domainVars == <<open, inside, current, curView, gateView, closed, pending, tlock, tview,
                qlock, qview, queue, domRpc, rgen, rview, refs, wpc, wgen, wobj, tpc,
                mode, old, view, batch, cpc, linked, freed, domAborted>>
slotVars == <<state, published, door, slotInside, slotLock, pc, ptr, born, owner, slotAborted>>
laneVars == <<laneActive, lanePublished, laneDoor, laneInside, holder, laneCurrent, previous,
              laneWpc, candidate, laneRpc, laneIndex, lanePtr, laneFreed, committed,
              laneBorn, laneAborted>>
ownVars == <<st, attempts, affinity, tls, places, quiet, host, calls>>
kernelVars == <<component, vars, opVars, domainVars, slotVars, laneVars, ownVars>>

KernelInit ==
  /\ component \in Parts
  /\ Init /\ Op!Init /\ Domain!Init /\ Slot!Init /\ Lane!Init /\ Own!Init
  /\ component # "gate" => sealed = {}

GateStep == component = "gate" /\ Next
            /\ UNCHANGED <<component, opVars, domainVars, slotVars, laneVars, ownVars>>
OperationStep == component = "operations" /\ Op!Next
                 /\ UNCHANGED <<component, vars, domainVars, slotVars, laneVars, ownVars>>
DomainStep == component = "domain" /\ Domain!Next
              /\ UNCHANGED <<component, vars, opVars, slotVars, laneVars, ownVars>>
SlotStep == component = "slot" /\ Slot!Next
            /\ UNCHANGED <<component, vars, opVars, domainVars, laneVars, ownVars>>
LaneStep == component = "lane" /\ Lane!Next
            /\ UNCHANGED <<component, vars, opVars, domainVars, slotVars, ownVars>>
OwnStep == component = "state" /\ Own!Next
           /\ UNCHANGED <<component, vars, opVars, domainVars, slotVars, laneVars>>

(* Every host thread is between two calls, or has ended.                   *)
OwnRests == component = "state" /\ (\A h \in Hosts : host[h].pc \in {"idle", "gone"})
            /\ UNCHANGED kernelVars

KernelNext == GateStep \/ OperationStep \/ DomainStep \/ SlotStep \/ LaneStep \/ OwnStep
              \/ OwnRests
KernelSpec == KernelInit /\ [][KernelNext]_kernelVars

(* Each primitive under its own fairness; component never changes.         *)
KernelLiveSpec ==
  /\ KernelSpec
  /\ \/ []<>(component = "gate") /\ Fairness
     \/ []<>(component = "operations") /\ Op!Fairness
     \/ []<>(component = "domain") /\ Domain!Fairness
     \/ []<>(component = "slot") /\ Slot!Fairness
     \/ []<>(component = "lane") /\ Lane!Fairness

-----------------------------------------------------------------------------
(* The variables of every part have their types; counts equal the     *)
(* guards that are alive.                                                  *)
Types == TypeOK /\ Op!TypeOK /\ Domain!TypeOK /\ Slot!TypeOK /\ Lane!TypeOK /\ Own!TypeOK

(* Grace periods are real.  RotatingReadDomain: no reader holds a pointer  *)
(* to an object a rotation has freed, no retired owner is lost or freed    *)
(* twice, and a rotation never finds its replacement generation undrained. *)
(* OperationGate: once one closer has OperationsDrained no guard is left,  *)
(* not even in the tail of its release.                                    *)
GracePeriodsHold ==
  /\ Domain!GracePeriod /\ Domain!OneOwner /\ Domain!ReplacementDrained
  /\ Domain!CallbackAfterDrain /\ Op!DrainedMeansEmpty

(* Service slots: what a read guard dereferences is still allocated, and   *)
(* of a replaceable slot it is a service the active index has selected.    *)
(* A busy slot has one owner, nobody is parked on it without a transition  *)
(* under way, and the fail_stop branches are dead code.                    *)
ServicesOutliveReads ==
  /\ Slot!ReadsAreLive /\ Lane!ReadsAreLive /\ Lane!ReadsAreCommitted
  /\ Slot!BusyStateHasOneOwner /\ Slot!NobodyParkedWithoutReason
  /\ Slot!CommitCannotFail /\ Lane!NoFailStop /\ Lane!ActiveLaneServes

(* The add-in's own objects are disposed of once, in order and on their    *)
(* thread: one transaction at a time changes the thread-affine slot, and   *)
(* knows what it holds; nothing is dropped before it was quiesced and      *)
(* cleaned up; a stage that fails or panics leaves every object in the     *)
(* vault, the slot or nowhere, under a quarantine that is published before *)
(* the slot can be claimed again; a closed runtime has nothing left.       *)
ObjectsDisposedInOrder ==
  /\ Own!ClaimsAreExact /\ Own!TransitionsCannotFail /\ Own!EveryObjectHasItsPlace
  /\ Own!DroppedInOrder /\ Own!ClosedLeavesNothing

(* Whoever waits for a sealed gate to drain returns, however many wait: a  *)
(* DrainGate waiter and every closer of an OperationGate.                  *)
GateWaitsEnd == SealedWaitEnds /\ Op!EveryCloseReturns

(* Rotations end although readers keep coming; reads and seals of a        *)
(* service slot return; replacements of a service end.                     *)
TransitionsEnd == Domain!RotationEnds /\ Slot!EveryCallReturns /\ Lane!TransitionsEnd
=============================================================================
