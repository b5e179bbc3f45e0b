------------------------- MODULE RotatingReadDomain -------------------------
(***************************************************************************)
(* RotatingReadDomain and RotatingRetirementDomain of xlfn-kernel: two     *)
(* reader generations, each behind a striped drain gate, and one queue of  *)
(* retired owners per generation.  A rotation seals the current            *)
(* generation, publishes the other one, waits for the readers it sealed    *)
(* off, and hands their queue to its caller, who frees it.                 *)
(*                                                                         *)
(* The gates obey AdmissionGate (proved of DrainGate), so a gate here is   *)
(* an open bit and the set of readers inside.                              *)
(*                                                                         *)
(* A writer unlinks an object with a plain store; whether a reader still   *)
(* sees the old pointer depends on what happens-before it.  So each thread *)
(* and each synchronising location carries a view: the unlinked objects it *)
(* knows of.  Lock releases and release stores deposit the thread's view,  *)
(* acquires pick it up, and a reader may load any object its view does not *)
(* rule out.  Threads start each operation with an empty view, the weakest *)
(* knowledge the memory model allows.                                      *)
(***************************************************************************)
EXTENDS Integers, FiniteSets

CONSTANTS Readers, Writers, Rotators, Objects

Gen == {0, 1}
Other(g) == 1 - g

VARIABLES
  open, inside,                \* the two gates
  current, curView,            \* published generation, view of its last store
  gateView,                    \* view deposited by the last reopen of a gate
  closed,                      \* the domain's closed flag
  pending,                     \* generation whose rotation is unfinished, or 2
  tlock, tview,                \* transition mutex: owner, deposited view
  qlock, qview, queue,         \* retirement queues, their mutexes and views
  rpc, rgen, rview, refs,      \* readers: position, gate, view, loaded objects
  wpc, wgen, wobj,             \* writers: position, selection, unlinked object
  tpc, mode, old, view, batch, \* rotators
  cpc,                         \* the closer
  linked, freed,               \* objects reachable in memory; objects freed
  aborted                      \* a fail_stop was executed

gateVars == <<open, inside, gateView>>
pubVars == <<current, curView, closed, pending, tlock, tview>>
queueVars == <<qlock, qview, queue>>
readerVars == <<rpc, rgen, rview, refs>>
writerVars == <<wpc, wgen, wobj>>
rotVars == <<tpc, mode, old, view, batch>>
objVars == <<linked, freed>>
vars == <<gateVars, pubVars, queueVars, readerVars, writerVars, rotVars, cpc,
          objVars, aborted>>

None == 2

Init ==
  /\ open = [g \in Gen |-> g = 0]
  /\ inside = [g \in Gen |-> {}]
  /\ current = 0 /\ curView = {} /\ gateView = [g \in Gen |-> {}]
  /\ closed = FALSE /\ pending = None
  /\ tlock = "free" /\ tview = {}
  /\ qlock = [g \in Gen |-> "free"]
  /\ qview = [g \in Gen |-> {}] /\ queue = [g \in Gen |-> {}]
  /\ rpc = [r \in Readers |-> "idle"] /\ rgen = [r \in Readers |-> 0]
  /\ rview = [r \in Readers |-> {}] /\ refs = [r \in Readers |-> {}]
  /\ wpc = [w \in Writers |-> "idle"] /\ wgen = [w \in Writers |-> 0]
  /\ wobj = [w \in Writers |-> {}]
  /\ tpc = [t \in Rotators |-> "idle"]
  /\ mode = [t \in Rotators |-> "quiesce"] /\ old = [t \in Rotators |-> 0]
  /\ view = [t \in Rotators |-> {}] /\ batch = [t \in Rotators |-> {}]
  /\ cpc = "idle"
  /\ linked = Objects /\ freed = {}
  /\ aborted = FALSE

-----------------------------------------------------------------------------
(* Readers: enter, load pointers, leave.                                   *)

(* The closed check and the load of current, which may return a stale      *)
(* generation; only the latest store carries its view.                     *)
Select(r, g) ==
  /\ rpc[r] = "idle"
  /\ ~closed
  /\ rgen' = [rgen EXCEPT ![r] = g]
  /\ rview' = [rview EXCEPT ![r] = IF g = current THEN curView ELSE {}]
  /\ rpc' = [rpc EXCEPT ![r] = "selected"]
  /\ UNCHANGED <<gateVars, pubVars, queueVars, refs, writerVars, rotVars, cpc,
                 objVars, aborted>>

(* A reader that is out keeps nothing: no selection and no view.           *)
Forget(r) ==
  /\ rpc' = [rpc EXCEPT ![r] = "idle"]
  /\ rgen' = [rgen EXCEPT ![r] = 0]
  /\ rview' = [rview EXCEPT ![r] = {}]

(* try_enter on the selected gate, an Acquire RMW that picks up the        *)
(* reopen's publication; a sealed gate sends the reader back to the closed *)
(* check and a new selection.                                              *)
Enter(r) ==
  /\ rpc[r] = "selected"
  /\ LET g == rgen[r] IN
       \/ /\ open[g]
          /\ inside' = [inside EXCEPT ![g] = @ \cup {r}]
          /\ rview' = [rview EXCEPT ![r] = @ \cup gateView[g]]
          /\ rpc' = [rpc EXCEPT ![r] = "inside"]
          /\ UNCHANGED rgen
       \/ /\ ~open[g]
          /\ Forget(r)
          /\ UNCHANGED inside
  /\ UNCHANGED <<open, gateView, pubVars, queueVars, refs, writerVars,
                 rotVars, cpc, objVars, aborted>>

(* A read of shared memory under the permit: any object whose unlinking    *)
(* does not happen-before it.                                              *)
Load(r, o) ==
  /\ rpc[r] = "inside"
  /\ o \notin rview[r] \cup refs[r]
  /\ refs' = [refs EXCEPT ![r] = @ \cup {o}]
  /\ UNCHANGED <<gateVars, pubVars, queueVars, rpc, rgen, rview, writerVars,
                 rotVars, cpc, objVars, aborted>>

(* A broken variant: the release goes to the generation current now.       *)
ReleasesCurrent(r) == [inside EXCEPT ![current] = @ \ {r}]

(* The permit is bound to the gate that admitted it.                       *)
Released(r) == [inside EXCEPT ![rgen[r]] = @ \ {r}]

Leave(r) ==
  /\ rpc[r] = "inside"
  /\ inside' = Released(r)
  /\ Forget(r)
  /\ refs' = [refs EXCEPT ![r] = {}]
  /\ UNCHANGED <<open, gateView, pubVars, queueVars, writerVars,
                 rotVars, cpc, objVars, aborted>>

-----------------------------------------------------------------------------
(* Writers: unlink an object, then register_retired.                       *)

Unlink(w, o) ==
  /\ wpc[w] = "idle"
  /\ o \in linked
  /\ linked' = linked \ {o}
  /\ wobj' = [wobj EXCEPT ![w] = {o}]
  /\ wpc' = [wpc EXCEPT ![w] = "unlinked"]
  /\ UNCHANGED <<gateVars, pubVars, queueVars, readerVars, wgen, rotVars, cpc,
                 freed, aborted>>

SelectQueue(w, g) ==
  /\ wpc[w] = "unlinked"
  /\ wgen' = [wgen EXCEPT ![w] = g]
  /\ wpc' = [wpc EXCEPT ![w] = "selected"]
  /\ UNCHANGED <<gateVars, pubVars, queueVars, readerVars, wobj, rotVars, cpc,
                 objVars, aborted>>

LockQueue(w) ==
  /\ wpc[w] = "selected"
  /\ qlock[wgen[w]] = "free"
  /\ qlock' = [qlock EXCEPT ![wgen[w]] = w]
  /\ wpc' = [wpc EXCEPT ![w] = "locked"]
  /\ UNCHANGED <<gateVars, pubVars, qview, queue, readerVars, wgen, wobj,
                 rotVars, cpc, objVars, aborted>>

(* A broken variant: the selection is not rechecked under the queue lock.  *)
NoRecheck(g) == TRUE

(* The recheck under the queue lock.  It is exact: a rotation away from g  *)
(* stored current while it held this very lock.                            *)
StillCurrent(g) == current = g

Register(w) ==
  /\ wpc[w] = "locked"
  /\ LET g == wgen[w] IN
       /\ IF StillCurrent(g)
          THEN /\ queue' = [queue EXCEPT ![g] = @ \cup wobj[w]]
               /\ wobj' = [wobj EXCEPT ![w] = {}]
               /\ wpc' = [wpc EXCEPT ![w] = "idle"]
          ELSE /\ wpc' = [wpc EXCEPT ![w] = "unlinked"]
               /\ UNCHANGED <<queue, wobj>>
       /\ qview' = [qview EXCEPT ![g] = @ \cup wobj[w]]
       /\ qlock' = [qlock EXCEPT ![g] = "free"]
       /\ wgen' = [wgen EXCEPT ![w] = 0]
  /\ UNCHANGED <<gateVars, pubVars, readerVars, rotVars, cpc, objVars,
                 aborted>>

-----------------------------------------------------------------------------
(* Rotators: quiesce (blocking), try_quiesce_if_idle and poll_quiesce.     *)

(* A quiesce that meets a pending rotation finishes it ("quiesce2") and    *)
(* then rotates the generation current at that time ("quiesce").           *)
Modes == {"quiesce", "idle", "poll"}
Blocking(t) == mode[t] \in {"quiesce", "quiesce2"}

Goto(t, pc) == tpc' = [tpc EXCEPT ![t] = pc]

(* Releasing the transition lock deposits the rotator's view.              *)
Unlock(v) == tlock' = "free" /\ tview' = tview \cup v

(* A broken variant: rotation does not look at the closed flag.            *)
AlwaysOpen == TRUE

DomainOpen == ~closed

(* LockedDomain::lock / try_lock, then classify.  A closed domain answers  *)
(* DomainClosed and changes nothing.                                       *)
Begin(t, m) ==
  /\ tpc[t] = "idle"
  /\ tlock = "free"
  /\ DomainOpen
  /\ tlock' = t
  /\ view' = [view EXCEPT ![t] = tview]
  /\ \/ /\ pending = None
        /\ Goto(t, "barrier")
        /\ old' = [old EXCEPT ![t] = current]
        /\ mode' = [mode EXCEPT ![t] = m]
     \/ /\ pending # None
        /\ Goto(t, "waiting")
        /\ old' = [old EXCEPT ![t] = pending]
        /\ mode' = [mode EXCEPT ![t] = IF m = "quiesce" THEN "quiesce2" ELSE m]
  /\ UNCHANGED <<gateVars, current, curView, closed, pending, tview,
                 queueVars, readerVars, writerVars, batch, cpc, objVars,
                 aborted>>

(* Take the publication barrier, which is the old generation's queue lock, *)
(* or give up when a non-blocking caller finds it busy.                       *)
TakeBarrier(t) ==
  /\ tpc[t] = "barrier"
  /\ \/ /\ qlock[old[t]] = "free"
        /\ qlock' = [qlock EXCEPT ![old[t]] = t]
        /\ view' = [view EXCEPT ![t] = @ \cup qview[old[t]]]
        /\ Goto(t, "seal")
        /\ UNCHANGED <<tlock, tview>>
     \/ /\ qlock[old[t]] # "free"
        /\ ~Blocking(t)
        /\ Unlock(view[t])
        /\ Goto(t, "done")
        /\ UNCHANGED <<qlock, view>>
  /\ UNCHANGED <<gateVars, current, curView, closed, pending, qview, queue,
                 readerVars, writerVars, mode, old, batch, cpc, objVars,
                 aborted>>

(* A broken variant: the sealed generation's gate is left open.            *)
SealForgotten(t) == open

SealedOld(t) == [open EXCEPT ![old[t]] = FALSE]

(* A broken variant: an unfinished rotation is not recorded.               *)
NotRecorded(t) == None

RecordedPending(t) == old[t]

(* begin / try_begin: the replacement must be drained, else fail_stop;     *)
(* then the old generation is sealed (only if idle, for the idle form) and *)
(* recorded as pending.                                                    *)
SealOld(t) ==
  /\ tpc[t] = "seal"
  /\ LET g == old[t] next == Other(old[t]) IN
       IF open[next] \/ inside[next] # {}
       THEN /\ aborted' = TRUE
            /\ UNCHANGED <<open, pending, tlock, tview, qlock, qview, tpc>>
       ELSE /\ \/ /\ mode[t] = "idle" => inside[g] = {}
                  /\ open' = SealedOld(t)
                  /\ pending' = RecordedPending(t)
                  /\ Goto(t, "publish")
                  /\ UNCHANGED <<tlock, tview, qlock, qview>>
               \/ /\ mode[t] = "idle" /\ inside[g] # {}
                  /\ qlock' = [qlock EXCEPT ![g] = "free"]
                  /\ qview' = [qview EXCEPT ![g] = @ \cup view[t]]
                  /\ Unlock(view[t])
                  /\ Goto(t, "done")
                  /\ UNCHANGED <<open, pending>>
            /\ UNCHANGED aborted
  /\ UNCHANGED <<inside, gateView, current, curView, closed, queue,
                 readerVars, writerVars, mode, old, view, batch, cpc,
                 objVars>>

(* A broken variant: the replacement is reopened before it is published.   *)
ReopenFirst == <<"reopen", "publish">>

(* publish_then_reopen: the order of the two publication steps.            *)
PublicationOrder == <<"publish", "reopen">>

(* current.store(next, Release), and the reopen of the replacement; the    *)
(* barrier is dropped after both.                                          *)
Publish(t) ==
  /\ tpc[t] \in {"publish", "publish2"}
  /\ LET next == Other(old[t])
         step == PublicationOrder[IF tpc[t] = "publish" THEN 1 ELSE 2] IN
       \/ /\ step = "publish"
          /\ current' = next
          /\ curView' = view[t]
          /\ UNCHANGED <<open, gateView>>
       \/ /\ step = "reopen"
          /\ open' = [open EXCEPT ![next] = TRUE]
          /\ gateView' = [gateView EXCEPT ![next] = view[t]]
          /\ UNCHANGED <<current, curView>>
  /\ Goto(t, IF tpc[t] = "publish" THEN "publish2" ELSE "unbar")
  /\ UNCHANGED <<inside, closed, pending, tlock, tview, queueVars, readerVars,
                 writerVars, mode, old, view, batch, cpc, objVars, aborted>>

DropBarrier(t) ==
  /\ tpc[t] = "unbar"
  /\ qlock' = [qlock EXCEPT ![old[t]] = "free"]
  /\ qview' = [qview EXCEPT ![old[t]] = @ \cup view[t]]
  /\ Goto(t, "waiting")
  /\ UNCHANGED <<gateVars, pubVars, queue, readerVars, writerVars, mode, old,
                 view, batch, cpc, objVars, aborted>>

(* A broken variant: the grace period ends while readers are inside.       *)
NoGracePeriod(t) == TRUE

Drained(t) == inside[old[t]] = {}

(* wait() blocks until the old readers left; try_wait gives up, leaving    *)
(* the rotation pending for a later call.                                  *)
AwaitReaders(t) ==
  /\ tpc[t] = "waiting"
  /\ \/ Drained(t) /\ Goto(t, "callback") /\ UNCHANGED <<tlock, tview>>
     \/ ~Drained(t) /\ ~Blocking(t) /\ Goto(t, "done") /\ Unlock(view[t])
  /\ UNCHANGED <<gateVars, current, curView, closed, pending, queueVars,
                 readerVars, writerVars, mode, old, view, batch, cpc, objVars,
                 aborted>>

(* A broken variant: the queue is copied rather than taken.                *)
QueueCopied(t) == queue

QueueTaken(t) == [queue EXCEPT ![old[t]] = {}]

(* finish_rotation: the callback detaches the old queue, then pending is   *)
(* cleared.  A blocking quiesce that found a pending rotation goes on to   *)
(* rotate the generation current now.                                      *)
Callback(t) ==
  /\ tpc[t] = "callback"
  /\ qlock[old[t]] = "free"
  /\ batch' = [batch EXCEPT ![t] = @ \cup queue[old[t]]]
  /\ queue' = QueueTaken(t)
  /\ view' = [view EXCEPT ![t] = @ \cup qview[old[t]]]
  /\ pending' = None
  /\ \/ /\ mode[t] = "quiesce2"
        /\ Goto(t, "barrier")
        /\ old' = [old EXCEPT ![t] = current]
        /\ mode' = [mode EXCEPT ![t] = "quiesce"]
        /\ UNCHANGED <<tlock, tview>>
     \/ /\ mode[t] # "quiesce2"
        /\ Unlock(view'[t])
        /\ Goto(t, "done")
        /\ UNCHANGED <<old, mode>>
  /\ UNCHANGED <<gateVars, current, curView, closed, qlock, qview, readerVars,
                 writerVars, cpc, objVars, aborted>>

(* The callback of the generic domain may unwind: the lock is released,    *)
(* the rotation stays pending and detached owners are leaked, not dropped. *)
CallbackPanics(t) ==
  /\ tpc[t] = "callback"
  /\ batch' = [batch EXCEPT ![t] = {}]
  /\ Unlock(view[t])
  /\ Goto(t, "done")
  /\ UNCHANGED <<gateVars, current, curView, closed, pending, queueVars,
                 readerVars, writerVars, mode, old, view, cpc, objVars, aborted>>

(* after_unlock: the caller drops the batch with no kernel lock held.      *)
Dispose(t) ==
  /\ tpc[t] = "done"
  /\ freed' = freed \cup batch[t]
  /\ batch' = [batch EXCEPT ![t] = {}]
  /\ view' = [view EXCEPT ![t] = {}]
  /\ mode' = [mode EXCEPT ![t] = "quiesce"]
  /\ old' = [old EXCEPT ![t] = 0]
  /\ Goto(t, "idle")
  /\ UNCHANGED <<gateVars, pubVars, queueVars, readerVars, writerVars, cpc,
                 linked, aborted>>

-----------------------------------------------------------------------------
(* The closer: seal_and_wait, then take_queues.                            *)

CloseBegin ==
  /\ cpc = "idle"
  /\ tlock = "free"
  /\ tlock' = "closer"
  /\ closed' = TRUE
  /\ cpc' = "seal0"
  /\ UNCHANGED <<gateVars, current, curView, pending, tview, queueVars,
                 readerVars, writerVars, rotVars, objVars, aborted>>

CloseSeal(g) ==
  /\ cpc = <<"seal0", "seal1">>[g + 1]
  /\ open' = [open EXCEPT ![g] = FALSE]
  /\ cpc' = <<"wait0", "wait1">>[g + 1]
  /\ UNCHANGED <<inside, gateView, pubVars, queueVars, readerVars, writerVars,
                 rotVars, objVars, aborted>>

CloseWait(g) ==
  /\ cpc = <<"wait0", "wait1">>[g + 1]
  /\ inside[g] = {}
  /\ cpc' = <<"seal1", "closed">>[g + 1]
  /\ tlock' = IF g = 1 THEN "free" ELSE tlock
  /\ UNCHANGED <<gateVars, current, curView, closed, pending, tview,
                 queueVars, readerVars, writerVars, rotVars, objVars,
                 aborted>>

(* ClosedRetirement::take_queues, which may be repeated.                   *)
TakeQueues ==
  /\ cpc = "closed"
  /\ \A g \in Gen : qlock[g] = "free"
  /\ freed' = freed \cup queue[0] \cup queue[1]
  /\ queue' = [g \in Gen |-> {}]
  /\ UNCHANGED <<gateVars, pubVars, qlock, qview, readerVars, writerVars,
                 rotVars, cpc, linked, aborted>>

-----------------------------------------------------------------------------
Rotate(t) ==
  \/ TakeBarrier(t) \/ SealOld(t) \/ Publish(t) \/ DropBarrier(t)
  \/ AwaitReaders(t) \/ Callback(t) \/ Dispose(t)

Close == \E g \in Gen : CloseSeal(g) \/ CloseWait(g)

Next ==
  \/ \E r \in Readers : \/ \E g \in Gen : Select(r, g)
                         \/ Enter(r) \/ Leave(r)
                         \/ \E o \in Objects : Load(r, o)
  \/ \E w \in Writers : \/ \E o \in Objects : Unlink(w, o)
                         \/ \E g \in Gen : SelectQueue(w, g)
                         \/ LockQueue(w) \/ Register(w)
  \/ \E t \in Rotators : \/ \E m \in Modes : Begin(t, m)
                          \/ Rotate(t) \/ CallbackPanics(t)
  \/ CloseBegin \/ Close \/ TakeQueues

Spec == Init /\ [][Next]_vars

(* Readers leave, writers and rotators that hold a lock keep running, and  *)
(* a queue mutex starves nobody.  Nothing forces a rotation to begin, a    *)
(* domain to close, or a reader to enter.                                  *)
Fairness ==
  /\ \A r \in Readers : WF_vars(Leave(r))
  /\ \A w \in Writers : WF_vars(Register(w))
  /\ \A t \in Rotators :
       /\ SF_vars(TakeBarrier(t) \/ Callback(t) \/ CallbackPanics(t))
       /\ WF_vars(SealOld(t) \/ Publish(t) \/ DropBarrier(t)
                    \/ AwaitReaders(t) \/ Dispose(t))
  /\ WF_vars(Close)

LiveSpec == Spec /\ Fairness

-----------------------------------------------------------------------------
(* Properties.                                                             *)

(* Variables have their types; the gates' readers are where they say.      *)
TypeOK ==
  /\ open \in [Gen -> BOOLEAN]
  /\ \A g \in Gen : inside[g] = {r \in Readers : rpc[r] = "inside" /\ rgen[r] = g}
  /\ current \in Gen /\ pending \in Gen \cup {None} /\ closed \in BOOLEAN
  /\ tlock \in Rotators \cup {"free", "closer"}
  /\ qlock \in [Gen -> Rotators \cup Writers \cup {"free"}]
  /\ queue \in [Gen -> SUBSET Objects]
  /\ refs \in [Readers -> SUBSET Objects]
  /\ freed \subseteq Objects

(* Grace period: no reader ever holds a pointer to an object that has been *)
(* freed, whichever mix of blocking, idle-only and polled rotations,       *)
(* delayed registrations and closing freed it.                             *)
GracePeriod == \A r \in Readers : refs[r] \cap freed = {}

(* D1 and D2: a generation admits readers only while it is the published   *)
(* one, so two generations never admit at once.                            *)
AdmitsOnlyCurrent == \A g \in Gen : open[g] => current = g

(* The fail_stop for an undrained replacement generation is dead code: a   *)
(* rotation abandoned by a poll or by an unwinding callback is finished    *)
(* before its generation is reused.                                        *)
ReplacementDrained == ~aborted

(* D4: the callback runs only when its generation is sealed and empty.     *)
CallbackAfterDrain ==
  \A t \in Rotators : tpc[t] = "callback" => ~open[old[t]] /\ inside[old[t]] = {}

(* D5: once seal_and_wait has returned no reader is ever inside again.     *)
ClosedForGood ==
  [][cpc = "closed" => \A g \in Gen : ~open'[g] /\ inside'[g] = {}]_vars

(* No retired owner is lost or freed twice: each object is linked, or in a *)
(* writer's hand, or in one queue, or in one batch, or freed, or leaked by *)
(* a panic; the places are disjoint.                                       *)
OneOwner ==
  LET places == <<linked, freed, queue[0], queue[1]>> IN
    /\ \A i, j \in 1 .. 4 : i # j => places[i] \cap places[j] = {}
    /\ \A t \in Rotators : batch[t] \cap UNION {places[i] : i \in 1 .. 4} = {}

(* A rotation under way always comes to an end: new readers cannot prolong *)
(* it, because they are admitted to the other generation.                  *)
RotationEnds == \A t \in Rotators : (tlock = t) ~> (tpc[t] = "idle")
=============================================================================
