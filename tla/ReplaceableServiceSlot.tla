----------------------- MODULE ReplaceableServiceSlot ------------------------
(***************************************************************************)
(* ReplaceableServiceSlot of xlfn-kernel: two lanes, each a published      *)
(* pointer behind a reader gate, and the index of the active lane.         *)
(* Replacements and closes serialise on the transition mutex, which holds  *)
(* the canonical owners; readers take no lock and revalidate the active    *)
(* index after entering a lane.  The lane gates are taken at the level of  *)
(* AdmissionGate.tla.                                                      *)
(***************************************************************************)
EXTENDS Integers, FiniteSets

CONSTANTS Readers, Writers,
          MaxServices   \* bound: replacement candidates

Services == 1 .. MaxServices
Lanes == {0, 1}
NO_ACTIVE_LANE == 2
null == 0

VARIABLES
  active,     \* the lane readers use, or NO_ACTIVE_LANE
  published,  \* the pointer of each lane
  door,       \* the gate of each lane: "open" or "sealed"
  inside,     \* the readers that hold a permit of each lane
  holder,     \* the writer that holds the transition mutex, or "free"
  current,    \* owners.current: <<lane, service>> or <<>>
  previous,   \* the transition's withdrawn lane: <<lane, service>> or <<>>
  wpc, candidate,        \* writers: step, and the candidate of a replacement
  rpc, index, ptr,       \* readers: step, chosen lane, service held
  freed,      \* services whose Box was handed to a caller or destroyed
  committed,  \* services the active index has selected so far
  born, aborted

wvars == <<holder, current, previous, wpc, candidate, freed, committed, born>>
rvars == <<rpc, index, ptr>>
vars == <<active, published, door, inside, aborted, wvars, rvars>>

Init ==
  /\ active = NO_ACTIVE_LANE
  /\ published = [l \in Lanes |-> null]
  /\ door = [l \in Lanes |-> "sealed"]
  /\ inside = [l \in Lanes |-> {}]
  /\ holder = "free" /\ current = <<>> /\ previous = <<>>
  /\ wpc = [w \in Writers |-> "idle"]
  /\ candidate = [w \in Writers |-> null]
  /\ rpc = [r \in Readers |-> "idle"]
  /\ index = [r \in Readers |-> NO_ACTIVE_LANE]
  /\ ptr = [r \in Readers |-> null]
  /\ freed = {} /\ committed = {} /\ born = 0 /\ aborted = FALSE

-----------------------------------------------------------------------------
(* read_if_ready.                                                          *)
LoadActive(r) ==
  /\ rpc[r] \in {"idle", "retry"}
  /\ IF active \in Lanes
       THEN rpc' = [rpc EXCEPT ![r] = "enter"]
       ELSE rpc' = [rpc EXCEPT ![r] = "idle"]
  /\ index' = [index EXCEPT ![r] = active]
  /\ UNCHANGED <<active, published, door, inside, aborted, wvars, ptr>>

EnterLane(r) ==
  /\ rpc[r] = "enter"
  /\ \/ /\ door[index[r]] = "open"
        /\ inside' = [inside EXCEPT ![index[r]] = @ \cup {r}]
        /\ rpc' = [rpc EXCEPT ![r] = "revalidate"]
     \/ /\ door[index[r]] = "sealed"
        /\ rpc' = [rpc EXCEPT ![r] = "retry"]
        /\ UNCHANGED inside
  /\ UNCHANGED <<active, published, door, aborted, wvars, index, ptr>>

(* A broken variant: the lane is trusted once its gate admitted.           *)
TrustsLane(r) == TRUE

StillActive(r) == active = index[r]

(* A broken variant: the retry forgets to drop the permit.                 *)
PermitKept(r) == inside

PermitDropped(r) == [inside EXCEPT ![index[r]] = @ \ {r}]

Revalidate(r) ==
  /\ rpc[r] = "revalidate"
  /\ \/ /\ StillActive(r)
        /\ rpc' = [rpc EXCEPT ![r] = "load"]
        /\ UNCHANGED inside
     \/ /\ ~StillActive(r)
        /\ inside' = PermitDropped(r)
        /\ rpc' = [rpc EXCEPT ![r] = "retry"]
  /\ UNCHANGED <<active, published, door, aborted, wvars, index, ptr>>

LoadPointer(r) ==
  /\ rpc[r] = "load"
  /\ aborted' = (aborted \/ published[index[r]] = null)
  /\ ptr' = [ptr EXCEPT ![r] = published[index[r]]]
  /\ rpc' = [rpc EXCEPT ![r] = "reading"]
  /\ UNCHANGED <<active, published, door, inside, wvars, index>>

DropRead(r) ==
  /\ rpc[r] = "reading"
  /\ inside' = [inside EXCEPT ![index[r]] = @ \ {r}]
  /\ ptr' = [ptr EXCEPT ![r] = null]
  /\ index' = [index EXCEPT ![r] = NO_ACTIVE_LANE]
  /\ rpc' = [rpc EXCEPT ![r] = "idle"]
  /\ UNCHANGED <<active, published, door, aborted, wvars>>

-----------------------------------------------------------------------------
(* Transition::new: take the mutex and the current owner.                  *)
TakeTransition(w) ==
  /\ wpc[w] = "idle"
  /\ holder = "free"
  /\ holder' = w
  /\ previous' = current
  /\ current' = <<>>

(* A broken variant: every replacement installs into lane 0.               *)
AlwaysLaneZero == 0

Target == IF previous = <<>> THEN 0 ELSE 1 - previous[1]

BeginReplace(w) ==
  /\ TakeTransition(w)
  /\ born < MaxServices
  /\ born' = born + 1
  /\ candidate' = [candidate EXCEPT ![w] = born + 1]
  /\ wpc' = [wpc EXCEPT ![w] = "prepare"]
  /\ UNCHANGED <<active, published, door, inside, aborted, freed, committed, rvars>>

TargetIsVacant ==
  door[Target] = "sealed" /\ inside[Target] = {} /\ published[Target] = null

(* precommit accepts: publish() installs the candidate in the target lane. *)
Install(w) ==
  /\ wpc[w] = "prepare"
  /\ aborted' = (aborted \/ ~TargetIsVacant)
  /\ current' = <<Target, candidate[w]>>
  /\ published' = [published EXCEPT ![Target] = candidate[w]]
  /\ wpc' = [wpc EXCEPT ![w] = "reopen"]
  /\ UNCHANGED <<active, door, inside, holder, previous, candidate, freed,
                 committed, born, rvars>>

(* precommit fails or panics: drop restores the publication and the        *)
(* candidate is destroyed after the mutex is released.                     *)
Reject(w) ==
  /\ wpc[w] = "prepare"
  /\ aborted' = (aborted \/ ~TargetIsVacant)
  /\ current' = previous
  /\ previous' = <<>>
  /\ holder' = "free"
  /\ freed' = freed \cup {candidate[w]}
  /\ candidate' = [candidate EXCEPT ![w] = null]
  /\ wpc' = [wpc EXCEPT ![w] = "idle"]
  /\ UNCHANGED <<active, published, door, inside, committed, born, rvars>>

(* A broken variant: the lane is switched to without reopening its gate.   *)
StaysSealed == door

Reopened == [door EXCEPT ![Target] = "open"]

ReopenTarget(w) ==
  /\ wpc[w] = "reopen"
  /\ aborted' = (aborted \/ door[Target] = "open")
  /\ door' = Reopened
  /\ wpc' = [wpc EXCEPT ![w] = "switch"]
  /\ UNCHANGED <<active, published, inside, holder, current, previous, candidate,
                 freed, committed, born, rvars>>

(* The linearisation point of a replacement.                               *)
Switch(w) ==
  /\ wpc[w] = "switch"
  /\ active' = Target
  /\ committed' = committed \cup {candidate[w]}
  /\ candidate' = [candidate EXCEPT ![w] = null]
  /\ wpc' = [wpc EXCEPT ![w] = "seal"]
  /\ UNCHANGED <<published, door, inside, aborted, holder, current, previous,
                 freed, born, rvars>>

(* ClosingTxn::withdraw, up to the seal it shares with publish().          *)
BeginClose(w) ==
  /\ TakeTransition(w)
  /\ active' = NO_ACTIVE_LANE
  /\ wpc' = [wpc EXCEPT ![w] = "seal"]
  /\ UNCHANGED <<published, door, inside, aborted, candidate, freed, committed,
                 born, rvars>>

SealPrevious(w) ==
  /\ wpc[w] = "seal"
  /\ door' = IF previous = <<>> THEN door ELSE [door EXCEPT ![previous[1]] = "sealed"]
  /\ wpc' = [wpc EXCEPT ![w] = "wait"]
  /\ UNCHANGED <<active, published, inside, aborted, holder, current, previous,
                 candidate, freed, committed, born, rvars>>

(* A broken variant: wait() drains the lane that is active now.            *)
ActiveDrained == current # <<>> => inside[current[1]] = {}

PreviousDrained == previous # <<>> => inside[previous[1]] = {}

(* A broken variant: the lane keeps the pointer to the retired service.    *)
KeepsPointer == published

PointerCleared == [published EXCEPT ![previous[1]] = null]

(* RetiringReplacement::wait and DrainedReplacement::reclaim; the Box is   *)
(* returned to the caller and the mutex released.                          *)
Reclaim(w) ==
  /\ wpc[w] = "wait"
  /\ PreviousDrained
  /\ IF previous = <<>>
       THEN UNCHANGED <<published, freed>>
       ELSE /\ published' = PointerCleared
            /\ freed' = freed \cup {previous[2]}
  /\ previous' = <<>>
  /\ holder' = "free"
  /\ wpc' = [wpc EXCEPT ![w] = "idle"]
  /\ UNCHANGED <<active, door, inside, aborted, current, candidate, committed,
                 born, rvars>>

Read(r) ==
  LoadActive(r) \/ EnterLane(r) \/ Revalidate(r) \/ LoadPointer(r) \/ DropRead(r)

Write(w) ==
  \/ Install(w) \/ Reject(w) \/ ReopenTarget(w) \/ Switch(w)
  \/ SealPrevious(w) \/ Reclaim(w)

Next ==
  \/ \E r \in Readers : Read(r)
  \/ \E w \in Writers : BeginReplace(w) \/ BeginClose(w) \/ Write(w)

Spec == Init /\ [][Next]_vars

(* Guards are dropped, precommit returns, runnable threads run.            *)
Fairness ==
  /\ \A r \in Readers :
       WF_vars(EnterLane(r) \/ Revalidate(r) \/ LoadPointer(r) \/ DropRead(r)
               \/ (rpc[r] = "retry" /\ LoadActive(r)))
  /\ \A w \in Writers : WF_vars(Write(w))

LiveSpec == Spec /\ Fairness

-----------------------------------------------------------------------------
(* Variables have their types.                                             *)
TypeOK ==
  /\ active \in Lanes \cup {NO_ACTIVE_LANE}
  /\ published \in [Lanes -> Services \cup {null}]
  /\ door \in [Lanes -> {"open", "sealed"}]
  /\ \A l \in Lanes :
       inside[l] = {r \in Readers : index[r] = l /\ rpc[r] \in {"revalidate", "load", "reading"}}
  /\ holder \in Writers \cup {"free"}
  /\ \A own \in {current, previous} : own = <<>> \/ own \in Lanes \X Services
  /\ freed \subseteq Services /\ committed \subseteq Services
  /\ \A w \in Writers : (wpc[w] = "idle") = (holder # w)

(* The service a guard dereferences has not been returned to the replacing *)
(* caller nor destroyed, however often lanes were swapped since it entered.*)
ReadsAreLive == \A r \in Readers : rpc[r] = "reading" => ptr[r] \notin freed

(* A reader only ever gets a service the active index has selected: a lane *)
(* that is open but not yet switched to is not readable (read_if_ready's   *)
(* revalidation).                                                          *)
ReadsAreCommitted == \A r \in Readers : rpc[r] = "reading" => ptr[r] \in committed

(* No blackout: whenever a lane is active its gate admits and its pointer  *)
(* is set, in the middle of replacements too.                              *)
ActiveLaneServes ==
  active \in Lanes => door[active] = "open" /\ published[active] # null
                      /\ published[active] \notin freed

(* The fail_stop branches are unreachable: the target lane of a            *)
(* replacement is always vacant and an admitted reader finds a pointer.    *)
NoFailStop == ~aborted

(* reset() after a close succeeds: with no transition in progress and no   *)
(* active lane, every lane is sealed, drained and unlinked, and no service *)
(* but the ones handed out exists.                                         *)
ClosedIsReset ==
  holder = "free" /\ active = NO_ACTIVE_LANE =>
    /\ current = <<>>
    /\ \A l \in Lanes : door[l] = "sealed" /\ published[l] = null
                        /\ \A r \in inside[l] : rpc[r] # "reading"
    /\ freed = 1 .. born

(* Every replacement and close ends, and every reader's retry loop too.    *)
TransitionsEnd ==
  /\ \A w \in Writers : wpc[w] = "seal" ~> wpc[w] = "idle"
  /\ \A r \in Readers : rpc[r] = "retry" ~> rpc[r] \in {"idle", "reading"}
=============================================================================
