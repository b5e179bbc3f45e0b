---------------------------- MODULE ExportIngress ----------------------------
(***************************************************************************)
(* ExportIngress of xlfn: the module-wide admission of export calls from   *)
(* Excel, one epoch per opening.  Callers read the phase and reserve a     *)
(* place in a striped drain gate without a common lock; the one holder of  *)
(* the module token opens, publishes, closes and drains the epoch.         *)
(*                                                                         *)
(* The gate is taken at the level of AdmissionGate.tla: a door and the     *)
(* callers inside.  opening_lock is a mutex held over several steps.       *)
(***************************************************************************)
EXTENDS Integers, FiniteSets

CONSTANTS Callers,
          MaxEpochs,   \* bound: ingress epochs opened
          MaxCalls     \* bound: export entries attempted

Owner == "owner"   \* who holds ModuleOpening, its lease or ModuleClosing

VARIABLES
  phase,       \* "OPENING", "OPEN", "CLOSING" or "CLOSED"
  epoch,
  door,        \* the export gate: "open" or "sealed"
  inside,      \* callers that hold a permit of the gate
  udfs,        \* callers counted in the UDF stripes
  lock,        \* holder of opening_lock, or "free"
  pc,          \* where each caller is
  entry,       \* what a caller's guard records
  owner,       \* where the owner of the module token is
  published,   \* epochs whose publication callback succeeded
  calls,       \* entries attempted so far
  aborted      \* an assertion or fail_stop of the owner was reached

gate == <<door, inside, udfs>>
vars == <<phase, epoch, door, inside, udfs, lock, pc, entry, owner, published,
          calls, aborted>>

NoEntry == [epoch |-> 0, accepted |-> "no", sawOpening |-> "no"]

Init ==
  /\ phase = "CLOSED"
  /\ epoch = 0
  /\ door = "sealed"
  /\ inside = {} /\ udfs = {}
  /\ lock = "free"
  /\ pc = [t \in Callers |-> "idle"]
  /\ entry = [t \in Callers |-> NoEntry]
  /\ owner = "closed"
  /\ published = {}
  /\ calls = 0
  /\ aborted = FALSE

Goto(t, where) == pc' = [pc EXCEPT ![t] = where]
Unlocked(t) == IF lock = t THEN "free" ELSE lock

-----------------------------------------------------------------------------
(* begin_opening: the assertions, then three stores lock-free callers see. *)
BeginOpening ==
  /\ owner = "closed"
  /\ epoch < MaxEpochs
  /\ lock = "free"
  /\ lock' = Owner
  /\ aborted' = (phase # "CLOSED" \/ inside # {} \/ door # "sealed")
  /\ epoch' = epoch + 1
  /\ owner' = "reopening"
  /\ UNCHANGED <<phase, gate, pc, entry, published, calls>>

ReopenExports ==
  /\ owner = "reopening"
  /\ door' = "open"
  /\ owner' = "announcing"
  /\ UNCHANGED <<phase, epoch, inside, udfs, lock, pc, entry, published, calls, aborted>>

AnnounceOpening ==
  /\ owner = "announcing"
  /\ phase' = "OPENING"
  /\ lock' = "free"
  /\ owner' = "opening"
  /\ UNCHANGED <<epoch, gate, pc, entry, published, calls, aborted>>

(* complete_open: lock, wait for the counted entries, publish.             *)
CompleteOpen ==
  /\ owner = "opening"
  /\ lock = "free"
  /\ lock' = Owner
  /\ owner' = "waitIdle"
  /\ UNCHANGED <<phase, epoch, gate, pc, entry, published, calls, aborted>>

WaitForQuiescence ==
  /\ owner = "waitIdle"
  /\ inside = {}
  /\ aborted' = (aborted \/ phase # "OPENING")
  /\ owner' = "operation"
  /\ UNCHANGED <<phase, epoch, gate, lock, pc, entry, published, calls>>

OperationOk ==
  /\ owner = "operation"
  /\ published' = published \cup {epoch}
  /\ aborted' = (aborted \/ phase # "OPENING")
  /\ phase' = "OPEN"
  /\ lock' = "free"
  /\ owner' = "open"
  /\ UNCHANGED <<epoch, gate, pc, entry, calls>>

OperationFails ==
  /\ owner = "operation"
  /\ lock' = "free"
  /\ owner' = "opening"
  /\ UNCHANGED <<phase, epoch, gate, pc, entry, published, calls, aborted>>

(* begin_close_with: only the CAS is visible to callers; it waits for the  *)
(* lock when it observes OPENING.                                          *)
BeginClose ==
  /\ owner \in {"opening", "open"}
  /\ phase \in {"OPENING", "OPEN"}
  /\ phase = "OPENING" => lock = "free"
  /\ phase' = "CLOSING"
  /\ owner' = "closing"
  /\ UNCHANGED <<epoch, gate, lock, pc, entry, published, calls, aborted>>

(* seal_and_drain: wait_idle on the open gate, seal it, wait, CAS CLOSED.  *)
DrainIdle ==
  /\ owner = "closing"
  /\ inside = {}
  /\ owner' = "sealing"
  /\ UNCHANGED <<phase, epoch, gate, lock, pc, entry, published, calls, aborted>>

(* A broken variant: the zero observation is taken for the terminal drain. *)
SealsNothing == door

SealedDoor == "sealed"

SealExports ==
  /\ owner = "sealing"
  /\ door' = SealedDoor
  /\ owner' = "draining"
  /\ UNCHANGED <<phase, epoch, inside, udfs, lock, pc, entry, published, calls, aborted>>

(* A broken variant: CLOSED is published without a second wait.            *)
NoSecondWait == TRUE

ExportsQuiescent == inside = {}

FinishDrain ==
  /\ owner = "draining"
  /\ ExportsQuiescent
  /\ aborted' = (aborted \/ phase # "CLOSING")
  /\ phase' = "CLOSED"
  /\ owner' = "closed"
  /\ UNCHANGED <<epoch, gate, lock, pc, entry, published, calls>>

(* drain_with_com_dispatch cannot prepare: the module stays undrained.     *)
DrainFails ==
  /\ owner \in {"closing", "sealing"}
  /\ owner' = "undrained"
  /\ UNCHANGED <<phase, epoch, gate, lock, pc, entry, published, calls, aborted>>

-----------------------------------------------------------------------------
(* A broken variant: no caller takes opening_lock.                         *)
NeverLocks(observed) == FALSE

TakesOpeningLock(observed) == observed = "OPENING"

(* enter_with and enter_udf_with.                                          *)
Observe(t) ==
  /\ pc[t] = "idle"
  /\ calls < MaxCalls
  /\ calls' = calls + 1
  /\ entry' = [entry EXCEPT ![t].sawOpening = IF phase = "OPENING" THEN "yes" ELSE "no"]
  /\ Goto(t, IF TakesOpeningLock(phase) THEN "lock" ELSE "check")
  /\ UNCHANGED <<phase, epoch, gate, lock, owner, published, aborted>>

LockOpening(t) ==
  /\ pc[t] = "lock"
  /\ lock = "free"
  /\ lock' = t
  /\ Goto(t, "check")
  /\ UNCHANGED <<phase, epoch, gate, entry, owner, published, calls, aborted>>

(* Return without a reservation.                                           *)
RejectUncounted(t) ==
  /\ lock' = Unlocked(t)
  /\ entry' = [entry EXCEPT ![t] = NoEntry]
  /\ Goto(t, "idle")

CheckPhase(t) ==
  /\ pc[t] = "check"
  /\ \/ phase = "CLOSED" /\ RejectUncounted(t)
     \/ phase # "CLOSED" /\ Goto(t, "reserve") /\ UNCHANGED <<lock, entry>>
  /\ UNCHANGED <<phase, epoch, gate, owner, published, calls, aborted>>

Reserve(t) ==
  /\ pc[t] = "reserve"
  /\ \/ /\ door = "open"
        /\ inside' = inside \cup {t}
        /\ udfs' \in {udfs, udfs \cup {t}}
        /\ Goto(t, "recheck")
        /\ UNCHANGED <<lock, entry>>
     \/ /\ door = "sealed"
        /\ RejectUncounted(t)
        /\ UNCHANGED <<inside, udfs>>
  /\ UNCHANGED <<phase, epoch, door, owner, published, calls, aborted>>

(* A broken variant: the permit of a refused late entry is forgotten.      *)
KeepsPermit(t) == inside

WithoutPermit(t) == inside \ {t}

(* A broken variant: whatever is not closed is admitted.                   *)
AcceptsUnlessClosed == IF phase = "CLOSED" THEN "no" ELSE "yes"

Accepted == IF phase = "OPEN" THEN "yes" ELSE "no"

Recheck(t) ==
  /\ pc[t] = "recheck"
  /\ \/ /\ phase = "CLOSED"
        /\ udfs' = udfs \ {t}
        /\ inside' = WithoutPermit(t)
        /\ RejectUncounted(t)
     \/ /\ phase # "CLOSED"
        /\ entry' = [entry EXCEPT ![t].accepted = Accepted]
        /\ Goto(t, "stamp")
        /\ UNCHANGED <<inside, udfs, lock>>
  /\ UNCHANGED <<phase, epoch, door, owner, published, calls, aborted>>

(* The epoch is loaded after the phase; returning releases the lock.       *)
Stamp(t) ==
  /\ pc[t] = "stamp"
  /\ entry' = [entry EXCEPT ![t].epoch = epoch]
  /\ lock' = Unlocked(t)
  /\ Goto(t, "guard")
  /\ UNCHANGED <<phase, epoch, gate, owner, published, calls, aborted>>

(* A broken variant: the UDF stripe is not decremented.                    *)
ForgetsUdf(t) == udfs

WithoutUdf(t) == udfs \ {t}

(* Drop for ExportCallGuard.                                               *)
LeaveUdf(t) ==
  /\ pc[t] = "guard"
  /\ udfs' = WithoutUdf(t)
  /\ Goto(t, "leave")
  /\ UNCHANGED <<phase, epoch, door, inside, lock, entry, owner, published, calls, aborted>>

LeaveExport(t) ==
  /\ pc[t] = "leave"
  /\ inside' = inside \ {t}
  /\ entry' = [entry EXCEPT ![t] = NoEntry]
  /\ Goto(t, "idle")
  /\ UNCHANGED <<phase, epoch, door, udfs, lock, owner, published, calls, aborted>>

(* Nothing more to do once the bounds are used up.                         *)
Finished ==
  /\ calls = MaxCalls
  /\ \A t \in Callers : pc[t] = "idle"
  /\ owner = "undrained" \/ (owner = "closed" /\ epoch = MaxEpochs)
  /\ UNCHANGED vars

Opener == \/ BeginOpening \/ ReopenExports \/ AnnounceOpening
          \/ CompleteOpen \/ WaitForQuiescence \/ OperationOk \/ OperationFails

Closer == BeginClose \/ DrainIdle \/ SealExports \/ FinishDrain \/ DrainFails

Caller(t) == \/ LockOpening(t) \/ CheckPhase(t) \/ Reserve(t) \/ Recheck(t)
             \/ Stamp(t) \/ LeaveUdf(t) \/ LeaveExport(t)

Next ==
  \/ Opener \/ Closer
  \/ \E t \in Callers : Observe(t) \/ Caller(t)
  \/ Finished

Spec == Init /\ [][Next]_vars

(* Export calls return, the mutex starves nobody, and an owner that began  *)
(* to publish or to drain goes on.  Nothing obliges Excel to open or close *)
(* the module or to call it.                                               *)
Fairness ==
  /\ \A t \in Callers : SF_vars(LockOpening(t)) /\ WF_vars(Caller(t))
  /\ WF_vars(ReopenExports \/ AnnounceOpening \/ WaitForQuiescence)
  /\ WF_vars(OperationOk \/ OperationFails)
  /\ WF_vars(DrainIdle \/ SealExports \/ FinishDrain)

LiveSpec == Spec /\ Fairness

-----------------------------------------------------------------------------
(* Variables have their types; exactly the callers between Reserve and the *)
(* end of their guard are counted.                                         *)
TypeOK ==
  /\ phase \in {"OPENING", "OPEN", "CLOSING", "CLOSED"}
  /\ epoch \in 0 .. MaxEpochs
  /\ door \in {"open", "sealed"}
  /\ inside = {t \in Callers : pc[t] \in {"recheck", "stamp", "guard", "leave"}}
  /\ lock \in Callers \cup {Owner, "free"}
  /\ pc \in [Callers -> {"idle", "lock", "check", "reserve", "recheck",
                         "stamp", "guard", "leave"}]
  /\ entry \in [Callers -> [epoch : 0 .. MaxEpochs, accepted : {"yes", "no"},
                            sawOpening : {"yes", "no"}]]
  /\ published \subseteq 1 .. MaxEpochs
  /\ calls \in 0 .. MaxCalls

(* The assertions of begin_opening, complete_open, seal_and_drain and      *)
(* ExportCallGuard::drop never fire: in particular no guard crosses        *)
(* ingress epochs, although a caller reads phase, gate and epoch apart.    *)
AssertionsHold ==
  /\ ~aborted
  /\ \A t \in Callers : pc[t] \in {"guard", "leave"} => entry[t].epoch = epoch

(* Only an epoch whose publication callback has succeeded admits a call:   *)
(* a caller that raced the opening is counted but rejected.                *)
AdmittedAfterPublication ==
  \A t \in Callers :
    (pc[t] \in {"guard", "leave"} /\ entry[t].accepted = "yes")
      => entry[t].epoch \in published

(* ExportsDrained is a stable certificate: from FinishDrain until the next *)
(* begin_opening nobody is counted and nobody can be.                      *)
DrainIsStable ==
  owner = "closed" => inside = {} /\ udfs = {} /\ door = "sealed"

(* Every caller counted as a UDF still holds its export permit, so a       *)
(* drained gate implies that no UDF is active.                             *)
UdfsAreInside == udfs \subseteq inside

(* A caller that saw OPENING is out of the gate before the publication     *)
(* callback runs: opening_lock orders it before the zero-active check or   *)
(* after the OPEN transition.                                              *)
OpeningEntriesPrecedePublication ==
  owner = "operation" => \A t \in inside : entry[t].sawOpening = "no"

(* The comments on opening_lock and complete_open claim more: that no new  *)
(* entry at all overtakes the publication between its zero-active check    *)
(* and the OPEN transition.  A caller that observed the phase before it    *)
(* became OPENING takes no lock and does.                                  *)
PublicationNotOvertaken == owner = "operation" => inside = {}

(* Once calls stop arriving, a caller returns, an owner that started to    *)
(* publish finishes, and a closing module is drained or reported failed.   *)
OwnerGetsThrough ==
  /\ owner = "waitIdle" ~> owner \in {"opening", "open"}
  /\ owner = "closing" ~> owner \in {"closed", "undrained"}
  /\ \A t \in Callers : pc[t] = "lock" ~> pc[t] = "idle"
=============================================================================
