---------------------------- MODULE TaskRegistry ----------------------------
(***************************************************************************)
(* The framework's registry of asynchronous UDF tasks.  A launch pins the  *)
(* current calculation, later re-enters its admission, takes an activity   *)
(* permit and a counted slot, and registers its cancellation control.  The *)
(* host advances or cancels the calculation meanwhile, and the lifecycle   *)
(* thread closes and restarts the registry.                                *)
(*                                                                         *)
(* A calculation state is an allocation: start replaces the one of the     *)
(* current epoch by a fresh one.  The admission and activity gates are     *)
(* taken at the level of AdmissionGate.tla: a door, and who is inside,     *)
(* which the program counters tell.  The publication mutex covers no wait, *)
(* so its sections are steps; control and transition are held over waits.  *)
(***************************************************************************)
EXTENDS Integers, Sequences, FiniteSets, TLC

CONSTANTS Tasks,      \* launches, each with the task it may register
          Limit,      \* AsyncTaskLimit
          MaxEpoch,   \* bound: calculation epochs
          MaxStarts,  \* bound: starts of the registry
          MaxCancels  \* bound: cancellations by the host

VARIABLES
  ctl,        \* RegistryControl.state
  closing,    \* the closing flag
  door,       \* the activity gate
  active,     \* active_tasks
  cur,        \* the published calculation
  epochs,     \* epoch of every calculation ever allocated
  calcs,      \* calculations the map owns; the others are reclaimed
  shut,       \* calculations whose admission is sealed
  controls,   \* <<calculation, task>> registered for cancellation
  cancelled,  \* tasks whose token is cancelled
  launch,     \* every launch: pc, calculation, whether it is a preflight
  adv,        \* the thread that advances the calculation
  can,        \* the thread that cancels it
  own,        \* the lifecycle thread that starts and closes
  control,    \* holder of the control mutex
  transition, \* holder of the transition mutex
  starts, cancels

gates == <<closing, door, active>>
calculations == <<cur, epochs, calcs, shut>>
vars == <<ctl, gates, calculations, controls, cancelled, launch, adv, can, own,
          control, transition, starts, cancels>>

Allocations == 1..Len(epochs)
At(t, places) == launch[t].pc \in places

(* A broken variant: a task keeps its admission as long as it runs.        *)
RunsAdmitted(t) ==
  \/ At(t, {"inside", "permit", "counted", "inserted", "leaving", "probed", "running"})
  \/ launch[t].probe = "yes" /\ At(t, {"last", "tail"})

(* Who is inside the admission of its calculation.                         *)
Admitted(t) ==
  \/ At(t, {"inside", "permit", "counted", "inserted", "leaving", "probed"})
  \/ launch[t].probe = "yes" /\ At(t, {"last", "tail"})
Inside(a) == {t \in Tasks : launch[t].calc = a /\ Admitted(t)}

(* Who pins its calculation: snapshots, reservations, completion guards.   *)
Pins(t) == Admitted(t) \/ At(t, {"snap", "ready", "checked", "running", "removed", "pinned"})
PinCount(a) ==
  Cardinality({t \in Tasks : launch[t].calc = a /\ Pins(t)}) + (IF adv.old = a THEN 1 ELSE 0)

(* Who holds an activity permit, and with it may use the registry.         *)
Permits ==
  {t \in Tasks : At(t, {"permit", "counted", "inserted", "running", "removed",
                        "unpinned", "last", "tail"})}

Init ==
  /\ ctl = "Stopped" /\ closing = "yes" /\ door = "sealed"
  /\ active = 0
  /\ cur = 1 /\ epochs = <<1>> /\ calcs = {1} /\ shut = {1}
  /\ controls = {} /\ cancelled = {}
  /\ launch = [t \in Tasks |-> [pc |-> "idle", calc |-> 0, probe |-> "no"]]
  /\ adv = [pc |-> "idle", old |-> 0]
  /\ can = [pc |-> "idle", epoch |-> 0, calc |-> 0, batch |-> {}]
  /\ own = [pc |-> "idle", left |-> {}, batch |-> {}]
  /\ control = "free" /\ transition = "free"
  /\ starts = 0 /\ cancels = 0

-----------------------------------------------------------------------------
(* The launch of one task.                                                 *)
Becomes(t, change) == launch' = [launch EXCEPT ![t] = change @@ @]
Goes(t, to) == Becomes(t, [pc |-> to])

Host == <<ctl, calculations, adv, can, own, control, transition, starts, cancels>>

(* A snapshot is taken by a call admitted to an open generation, so none   *)
(* falls between prepare_start and publish.                                *)
Snapshot(t) ==
  /\ At(t, {"idle"})
  /\ own.pc # "prepared"
  /\ Becomes(t, [pc |-> "snap", calc |-> cur])
  /\ UNCHANGED <<gates, controls, cancelled, Host>>

(* Preflight looks at the limit only; a saturated registry is probed by    *)
(* a reservation that is given back at once.                               *)
Preflight(t) ==
  /\ At(t, {"snap"})
  /\ IF closing = "yes" THEN Goes(t, "pinned")
     ELSE Becomes(t, [pc |-> "ready", probe |-> IF active < Limit THEN "no" ELSE "yes"])
  /\ UNCHANGED <<gates, controls, cancelled, Host>>

CheckClosing(t) ==
  /\ At(t, {"ready"})
  /\ Goes(t, IF closing = "yes" THEN "pinned" ELSE "checked")
  /\ UNCHANGED <<gates, controls, cancelled, Host>>

EnterAdmission(t) ==
  /\ At(t, {"checked"})
  /\ Goes(t, IF launch[t].calc \in shut THEN "pinned" ELSE "inside")
  /\ UNCHANGED <<gates, controls, cancelled, Host>>

AcquireActivity(t) ==
  /\ At(t, {"inside"})
  /\ Goes(t, IF door = "sealed" THEN "leaving" ELSE "permit")
  /\ UNCHANGED <<gates, controls, cancelled, Host>>

(* A broken variant: the limit is not checked again.                       *)
AnySlot == TRUE

FreeSlot == active < Limit

CountActive(t) ==
  /\ At(t, {"permit"})
  /\ IF FreeSlot
     THEN active' = active + 1 /\ Goes(t, "counted")
     ELSE UNCHANGED active /\ Goes(t, "leaving")
  /\ UNCHANGED <<closing, door, controls, cancelled, Host>>

InsertTask(t) ==
  /\ At(t, {"counted"}) /\ launch[t].probe = "no"
  /\ controls' = controls \cup {<<launch[t].calc, t>>}
  /\ Goes(t, "inserted")
  /\ UNCHANGED <<gates, cancelled, Host>>

(* A reservation dropped without commit releases admission, pin, activity. *)
AbandonReservation(t) ==
  /\ At(t, {"counted"}) /\ launch[t].probe = "no"
  /\ Goes(t, "removed")
  /\ UNCHANGED <<gates, controls, cancelled, Host>>

(* The admission guard is dropped once the control is registered.          *)
ReleaseAdmission(t) ==
  /\ \/ At(t, {"inserted"}) /\ Goes(t, "running")
     \/ At(t, {"leaving"}) /\ Goes(t, "pinned")
     \/ At(t, {"probed"}) /\ Becomes(t, [pc |-> "ready", probe |-> "no"])
  /\ UNCHANGED <<gates, controls, cancelled, Host>>

(* A broken variant: the pin is given up before the control is removed.    *)
KeepsControl(t) == controls

RemovesControl(t) == controls \ {<<launch[t].calc, t>>}

(* The task's future is dropped: the control goes first.  A control that   *)
(* was drained is in someone's batch, or cancelled already.                *)
RemoveTask(t) ==
  /\ At(t, {"running"})
  /\ controls' = RemovesControl(t)
  /\ Goes(t, "removed")
  /\ UNCHANGED <<gates, cancelled, Host>>

DropPin(t) ==
  /\ \/ At(t, {"removed"}) /\ Goes(t, "unpinned")
     \/ At(t, {"pinned"}) /\ Goes(t, "gone")
  /\ UNCHANGED <<gates, controls, cancelled, Host>>

DecrementActive(t) ==
  /\ \/ At(t, {"unpinned"})
     \/ At(t, {"counted"}) /\ launch[t].probe = "yes"
  /\ active' = active - 1
  /\ Goes(t, IF active = 1 THEN "last" ELSE "tail")
  /\ UNCHANGED <<closing, door, controls, cancelled, Host>>

(* A broken variant: nobody is told that the last task has gone.           *)
NoNotify(pc) == pc

NotifyIdle(pc) == IF pc = "asleep" THEN "waiting" ELSE pc

Notify(t) ==
  /\ At(t, {"last"})
  /\ own' = [own EXCEPT !.pc = NotifyIdle(@)]
  /\ Goes(t, "tail")
  /\ UNCHANGED <<ctl, gates, calculations, controls, cancelled, adv, can,
                 control, transition, starts, cancels>>

(* The last access of a task to the registry.                              *)
ReleaseActivity(t) ==
  /\ At(t, {"tail"})
  /\ Goes(t, IF launch[t].probe = "yes" THEN "probed" ELSE "gone")
  /\ UNCHANGED <<gates, controls, cancelled, Host>>

-----------------------------------------------------------------------------
(* advance, on the host's calculation-ended event.                         *)
(* A broken variant: only the published calculation is retained.           *)
ReclaimsAll(next, owned, drop) == {next}

Reclaims(next, owned, drop) == {a \in owned : a = next \/ PinCount(a) # (IF a = drop THEN 1 ELSE 0)}

(* A new calculation is published and every other unpinned one reclaimed.  *)
PublishNext(dropping) ==
  LET next == Len(epochs) + 1
  IN /\ epochs' = Append(epochs, epochs[cur] + 1)
     /\ cur' = next
     /\ calcs' = Reclaims(next, calcs \cup {next}, dropping)

AdvanceUnchanged == <<gates, controls, cancelled, launch, can, own, starts, cancels>>

AdvanceStopped ==
  /\ adv.pc = "idle" /\ transition = "free" /\ control = "free"
  /\ ctl = "Stopped" /\ epochs[cur] < MaxEpoch
  /\ PublishNext(0)
  /\ shut' = shut \cup {Len(epochs) + 1}
  /\ UNCHANGED <<ctl, adv, control, transition, AdvanceUnchanged>>

BeginAdvance ==
  /\ adv.pc = "idle" /\ transition = "free" /\ control = "free"
  /\ ctl = "Running" /\ closing = "no" /\ epochs[cur] < MaxEpoch
  /\ shut' = shut \cup {cur}
  /\ adv' = [pc |-> "draining", old |-> cur]
  /\ ctl' = "Advancing"
  /\ transition' = "adv"
  /\ UNCHANGED <<cur, epochs, calcs, control, AdvanceUnchanged>>

(* A broken variant: a successor is published over running admissions.     *)
NoDrain(a) == TRUE

AdmissionDrained(a) == Inside(a) = {}

(* A broken variant: the advance finishes whatever became of the state.    *)
AlwaysAdvancing == TRUE

StillAdvancing == ctl = "Advancing"

FinishAdvance ==
  /\ adv.pc = "draining" /\ AdmissionDrained(adv.old) /\ control = "free"
  /\ IF StillAdvancing
     THEN /\ ctl' = "Running"
          /\ IF closing = "yes" THEN UNCHANGED <<cur, epochs, calcs>> ELSE PublishNext(adv.old)
     ELSE UNCHANGED <<ctl, cur, epochs, calcs>>
  /\ adv' = [pc |-> "idle", old |-> 0]
  /\ transition' = "free"
  /\ UNCHANGED <<shut, control, AdvanceUnchanged>>

-----------------------------------------------------------------------------
(* cancel_current_calculation, on the host's cancellation event.  The      *)
(* epoch is read without a lock, and the lock is kept over the wait.       *)
CancelUnchanged == <<ctl, gates, cur, epochs, calcs, launch, adv, own, transition, starts>>

ReadEpoch ==
  /\ can.pc = "idle" /\ cancels < MaxCancels
  /\ cancels' = cancels + 1
  /\ can' = [can EXCEPT !.pc = "read", !.epoch = epochs[cur]]
  /\ UNCHANGED <<shut, controls, cancelled, control, CancelUnchanged>>

OfEpoch(e) == {a \in calcs : epochs[a] = e}

CloseCalculation ==
  /\ can.pc = "read" /\ control = "free"
  /\ \/ /\ OfEpoch(can.epoch) = {}
        /\ can' = [can EXCEPT !.pc = "idle"]
        /\ UNCHANGED <<shut, control>>
     \/ \E a \in OfEpoch(can.epoch) :
          /\ can' = [can EXCEPT !.pc = "draining", !.calc = a]
          /\ shut' = shut \cup {a}
          /\ control' = "can"
  /\ UNCHANGED <<controls, cancelled, cancels, CancelUnchanged>>

Of(a) == {t \in Tasks : <<a, t>> \in controls}

DrainCalculation ==
  /\ can.pc = "draining" /\ AdmissionDrained(can.calc)
  /\ can' = [can EXCEPT !.pc = "drained", !.batch = Of(can.calc)]
  /\ controls' = controls \ ({can.calc} \X Tasks)
  /\ control' = "free"
  /\ UNCHANGED <<shut, cancelled, cancels, CancelUnchanged>>

CancelBatch ==
  /\ can.pc = "drained"
  /\ cancelled' = cancelled \cup can.batch
  /\ can' = [pc |-> "idle", epoch |-> 0, calc |-> 0, batch |-> {}]
  /\ UNCHANGED <<shut, controls, control, cancels, CancelUnchanged>>

-----------------------------------------------------------------------------
(* The lifecycle thread: start, and close in the steps of RegistryClose.   *)
OwnUnchanged == <<active, cur, epochs, calcs, launch, adv, can, transition, cancels>>

(* prepare_start keeps both mutexes.  It fails unless the registry is      *)
(* stopped and its current calculation unpinned.                           *)
PrepareStart ==
  /\ own.pc = "idle" /\ starts < MaxStarts
  /\ transition = "free" /\ control = "free"
  /\ ctl = "Stopped" /\ PinCount(cur) = 0
  /\ Permits = {}
  /\ own' = [own EXCEPT !.pc = "prepared"]
  /\ control' = "own" /\ transition' = "own"
  /\ UNCHANGED <<ctl, gates, calculations, controls, cancelled, launch, adv, can,
                 starts, cancels>>

(* An abandoned preparation changes nothing.                               *)
AbandonStart ==
  /\ own.pc = "prepared"
  /\ own' = [own EXCEPT !.pc = "idle"]
  /\ control' = "free" /\ transition' = "free"
  /\ UNCHANGED <<ctl, gates, calculations, controls, cancelled, launch, adv, can,
                 starts, cancels>>

Replaces(next) == Reclaims(next, (calcs \ {cur}) \cup {next}, 0)

PublishStart ==
  /\ own.pc = "prepared"
  /\ LET next == Len(epochs) + 1
     IN epochs' = Append(epochs, epochs[cur]) /\ cur' = next /\ calcs' = Replaces(next)
  /\ closing' = "no" /\ door' = "open"
  /\ ctl' = "Running"
  /\ starts' = starts + 1
  /\ own' = [own EXCEPT !.pc = "idle"]
  /\ control' = "free" /\ transition' = "free"
  /\ UNCHANGED <<active, shut, controls, cancelled, launch, adv, can, cancels>>

(* take_for_close closes the flag before anything is claimed.              *)
CloseAdmission ==
  /\ own.pc = "idle" /\ starts > 0
  /\ closing' = "yes"
  /\ own' = [own EXCEPT !.pc = "closing"]
  /\ UNCHANGED <<ctl, door, shut, controls, cancelled, control, starts, OwnUnchanged>>

ClaimClose ==
  /\ own.pc = "closing" /\ control = "free"
  /\ control' = "own"
  /\ ctl' = "CloseClaimed"
  /\ own' = [own EXCEPT !.pc = "claimed"]
  /\ UNCHANGED <<closing, door, shut, controls, cancelled, starts, OwnUnchanged>>

SealActivity ==
  /\ own.pc = "claimed"
  /\ door' = "sealed"
  /\ own' = [own EXCEPT !.pc = "sealing"]
  /\ UNCHANGED <<ctl, closing, shut, controls, cancelled, control, starts, OwnUnchanged>>

SealCalculations ==
  /\ own.pc = "sealing"
  /\ shut' = shut \cup calcs
  /\ own' = [own EXCEPT !.pc = "draining", !.left = calcs]
  /\ UNCHANGED <<ctl, closing, door, controls, cancelled, control, starts, OwnUnchanged>>

(* A broken variant: controls are drained before the admissions have gone. *)
DrainsEarly(a) == TRUE

Drained(a) == AdmissionDrained(a)

DrainOne ==
  /\ own.pc = "draining"
  /\ \E a \in own.left :
       /\ Drained(a)
       /\ own' = [own EXCEPT !.left = @ \ {a}, !.batch = @ \cup Of(a)]
       /\ controls' = controls \ ({a} \X Tasks)
  /\ UNCHANGED <<ctl, closing, door, shut, cancelled, control, starts, OwnUnchanged>>

UnlockDrained ==
  /\ own.pc = "draining" /\ own.left = {}
  /\ control' = "free"
  /\ own' = [own EXCEPT !.pc = "drained"]
  /\ UNCHANGED <<ctl, closing, door, shut, controls, cancelled, starts, OwnUnchanged>>

CancelTasks ==
  /\ own.pc = "drained"
  /\ cancelled' = cancelled \cup own.batch
  /\ own' = [own EXCEPT !.pc = "waiting", !.batch = {}]
  /\ UNCHANGED <<ctl, closing, door, shut, controls, control, starts, OwnUnchanged>>

WaitActive ==
  /\ own.pc = "waiting"
  /\ own' = [own EXCEPT !.pc = IF active # 0 THEN "asleep" ELSE "idling"]
  /\ UNCHANGED <<ctl, closing, door, shut, controls, cancelled, control, starts, OwnUnchanged>>

(* A broken variant: the tails after the count reached zero are ignored.   *)
TailsIgnored == TRUE

TailsDrained == Permits = {}

WaitTails ==
  /\ own.pc = "idling" /\ TailsDrained
  /\ own' = [own EXCEPT !.pc = "quiet"]
  /\ UNCHANGED <<ctl, closing, door, shut, controls, cancelled, control, starts, OwnUnchanged>>

(* The executor is shut down in between: if that fails the claim is given  *)
(* back and a later close starts again.                                    *)
EndClose ==
  /\ own.pc = "quiet" /\ control = "free"
  /\ \/ ctl' = "Stopped" /\ own' = [own EXCEPT !.pc = "idle"]
     \/ ctl' = "CloseAvailable" /\ own' = [own EXCEPT !.pc = "closing"]
  /\ UNCHANGED <<closing, door, shut, controls, cancelled, control, starts, OwnUnchanged>>

-----------------------------------------------------------------------------
Commits(t) ==
  \/ Preflight(t) \/ CheckClosing(t) \/ EnterAdmission(t)
  \/ AcquireActivity(t) \/ CountActive(t) \/ InsertTask(t)
  \/ ReleaseAdmission(t) \/ DropPin(t) \/ DecrementActive(t)
  \/ Notify(t) \/ ReleaseActivity(t)

Advance == AdvanceStopped \/ BeginAdvance \/ FinishAdvance
Cancel == ReadEpoch \/ CloseCalculation \/ DrainCalculation \/ CancelBatch
Close ==
  \/ ClaimClose \/ SealActivity \/ SealCalculations \/ DrainOne \/ UnlockDrained
  \/ CancelTasks \/ WaitActive \/ WaitTails \/ EndClose
Start == PrepareStart \/ AbandonStart \/ PublishStart

Finished ==
  /\ \A t \in Tasks : At(t, {"gone"})
  /\ own.pc = "idle" /\ adv.pc = "idle" /\ can.pc = "idle"
  /\ UNCHANGED vars

Next ==
  \/ \E t \in Tasks : Snapshot(t) \/ Commits(t) \/ AbandonReservation(t) \/ RemoveTask(t)
  \/ Advance \/ Cancel \/ Start \/ CloseAdmission \/ Close
  \/ Finished

Spec == Init /\ [][Next]_vars

(* A launch goes on; the executor polls a cancelled task and drops it; the *)
(* host's threads finish what they began.  A task that is not cancelled    *)
(* may run for ever, and a failing executor may be retried for ever.  The  *)
(* mutexes are eventually fair (parking_lot), hence the strong fairness.   *)
Fairness ==
  /\ \A t \in Tasks :
       /\ WF_vars(Commits(t))
       /\ WF_vars(t \in cancelled /\ RemoveTask(t))
  /\ SF_vars(FinishAdvance)
  /\ SF_vars(CloseCalculation) /\ WF_vars(DrainCalculation \/ CancelBatch)
  /\ WF_vars(PublishStart)
  /\ SF_vars(ClaimClose \/ EndClose) /\ WF_vars(Close)

LiveSpec == Spec /\ Fairness

-----------------------------------------------------------------------------
LaunchPlaces ==
  {"idle", "snap", "ready", "checked", "inside", "permit", "counted", "inserted",
   "running", "removed", "unpinned", "last", "tail", "probed", "leaving", "pinned", "gone"}

(* The sets every variable stays in; active_tasks is the number of counted *)
(* reservations and tasks and never exceeds the limit.                     *)
TypeOK ==
  /\ ctl \in {"Stopped", "Running", "Advancing", "CloseAvailable", "CloseClaimed"}
  /\ closing \in {"yes", "no"} /\ door \in {"open", "sealed"}
  /\ active = Cardinality({t \in Tasks : At(t, {"counted", "inserted", "running", "removed", "unpinned"})})
  /\ active <= Limit
  /\ cur \in calcs /\ calcs \subseteq Allocations /\ shut \subseteq Allocations
  /\ controls \subseteq Allocations \X Tasks /\ cancelled \subseteq Tasks
  /\ \A t \in Tasks : launch[t].pc \in LaunchPlaces
  /\ own.batch \subseteq Tasks /\ can.batch \subseteq Tasks

(* A calculation that a snapshot, a reservation, a task or an advance pins *)
(* is never reclaimed, and each epoch has at most one owned calculation.   *)
PinnedIsOwned ==
  /\ \A a \in Allocations : PinCount(a) # 0 => a \in calcs
  /\ \A a, b \in calcs : epochs[a] = epochs[b] => a = b

(* A reclaimed calculation holds no cancellation control: the retain of an *)
(* advance or a start never loses the means to cancel a task.              *)
NoControlLost == \A c \in controls : c[1] \in calcs

(* Once close has cancelled, every task the executor still owns has been   *)
(* cancelled, or is in the batch of a cancellation under way.              *)
NoTaskEscapesClose ==
  own.pc \in {"waiting", "asleep", "idling", "quiet"} =>
    \A t \in Tasks : At(t, {"inserted", "running"}) => t \in cancelled \cup can.batch

(* A stopped registry may be reclaimed by its owner: no task is in it, not *)
(* even with the tail of its release.                                      *)
StoppedIsQuiet == ctl = "Stopped" => Permits = {} /\ controls = {}

(* Launches are admitted to one calculation at a time: the successor is    *)
(* only published when the old admission has drained.                      *)
OneAdmittedCalculation ==
  \A t, u \in Tasks : Admitted(t) /\ Admitted(u) => launch[t].calc = launch[u].calc

(* A claimed close is ended by its claimant only: the advance it preempted *)
(* does not put the registry back to Running.                              *)
ClaimOutlivesAdvance ==
  [][ctl = "CloseClaimed" /\ ctl' # ctl => own.pc = "quiet"]_vars

(* A requested close cancels what runs, waits and comes back.              *)
CloseComesBack == own.pc = "closing" ~> own.pc \in {"quiet", "idle"}

(* An advance that waits for admissions always ends.                       *)
AdvanceComesBack == adv.pc = "draining" ~> adv.pc = "idle"
=============================================================================
