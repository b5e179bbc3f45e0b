---------------------------- MODULE LifecycleState ----------------------------
(***************************************************************************)
(* The canonical state of LifecycleCoordinator and its transitions, as     *)
(* operators on a record.  Each is one critical section of the lifecycle   *)
(* lock; HostLifecycle.tla interleaves them.                               *)
(*                                                                         *)
(*   phase  Closed, Opening, Open, Rollback (OpenRollbackPending), Closing *)
(*          or Quarantined                                                 *)
(*   stage  Idle or Finalizing of Closed, OpeningActive or Ready of        *)
(*          Closing, "-" otherwise                                         *)
(*   pay    the generation: Empty, Staged, Published, Retiring             *)
(*   res    who may act on the module authority: AwaitingAbort, Unowned,   *)
(*          Available, Outstanding, Returned or Unavailable                *)
(*   auth   the authority stored here: None, Lease, Closing, Drained or    *)
(*          Retained                                                       *)
(*   att    the open attempt, claim the removal attempt, ep the module     *)
(*          epoch of the authority (0 for none)                            *)
(*   q      whether a quarantine waits for the owner to resolve            *)
(***************************************************************************)
EXTENDS Integers

Idle ==
  [phase |-> "Closed", stage |-> "Idle", pay |-> "Empty", res |-> "-",
   auth |-> "None", att |-> 0, claim |-> 0, ep |-> 0, q |-> "no"]

States ==
  [phase : {"Closed", "Opening", "Open", "Rollback", "Closing", "Quarantined"},
   stage : {"Idle", "Finalizing", "OpeningActive", "Ready", "-"},
   pay : {"Empty", "Staged", "Published", "Retiring"},
   res : {"-", "AwaitingAbort", "Unowned", "Available", "Outstanding",
          "Returned", "Unavailable"},
   auth : {"None", "Lease", "Closing", "Drained", "Retained"},
   att : Nat, claim : Nat, ep : Nat, q : {"no", "yes"}]

(* The shapes the nested Rust enums allow.                                 *)
WellFormed(s) ==
  /\ s \in States
  /\ s.stage \in {"Idle", "Finalizing"} <=> s.phase = "Closed"
  /\ s.stage \in {"OpeningActive", "Ready"} <=> s.phase = "Closing"
  /\ s.auth # "None" <=> (s.phase = "Open" \/ s.res \in {"Available", "Returned", "Unavailable"})
  /\ s.claim # 0 <=> (s.stage = "Finalizing" \/ s.res \in {"Outstanding", "Returned"})
  /\ s.q = "yes" => s.stage \in {"Finalizing", "OpeningActive"}

-----------------------------------------------------------------------------
(* Opening.                                                                *)
OpeningOf(attempt) == [Idle EXCEPT !.phase = "Opening", !.stage = "-", !.att = attempt]

open_attempt(s) ==
  IF s.phase = "Opening" \/ s.stage = "OpeningActive" THEN s.att ELSE 0

CanStage(s, attempt) ==
  s.phase = "Opening" /\ s.pay = "Empty" /\ s.att = attempt

StageGeneration(s) == [s EXCEPT !.pay = "Staged"]

(* publish_opening_generation_locked and commit_open under one lock.       *)
CommitOpen(s, epoch) ==
  [s EXCEPT !.phase = "Open", !.pay = "Published", !.auth = "Lease",
            !.att = 0, !.ep = epoch]

(* An open attempt that fails still owes the module authority.             *)
RecordOpenFailure(s) ==
  IF s.phase = "Opening"
    THEN [s EXCEPT !.phase = "Rollback", !.res = "AwaitingAbort"]
  ELSE IF s.stage = "OpeningActive"
    THEN IF s.q = "yes"
           THEN [s EXCEPT !.phase = "Quarantined", !.stage = "-",
                          !.res = "AwaitingAbort", !.q = "no"]
           ELSE [s EXCEPT !.stage = "Ready", !.res = "AwaitingAbort"]
  ELSE s

RollbackRequired(s) == s.phase \in {"Opening", "Rollback"}

-----------------------------------------------------------------------------
(* Closing.                                                                *)
RequestClosing(s) ==
  CASE s.phase = "Opening" -> [s EXCEPT !.phase = "Closing", !.stage = "OpeningActive"]
    [] s.phase = "Open" -> [s EXCEPT !.phase = "Closing", !.stage = "Ready",
                                     !.res = "Available"]
    [] s.phase = "Rollback" -> [s EXCEPT !.phase = "Closing", !.stage = "Ready"]
    [] OTHER -> s

Claimable(s) ==
  (s.stage = "Ready" \/ s.phase = "Rollback") /\ s.res = "Available"

(* A broken variant: the state keeps a copy of the authority it hands out. *)
CopiesAuthority(s, attempt) == [s EXCEPT !.res = "Outstanding", !.claim = attempt]

ClaimRemoval(s, attempt) ==
  [s EXCEPT !.res = "Outstanding", !.auth = "None", !.claim = attempt]

Owned(s) == s.stage = "Ready" \/ s.phase \in {"Rollback", "Quarantined"}

(* The invariants of return_removal_authority.                             *)
CanReturn(s, attempt, epoch) ==
  Owned(s) /\ s.res = "Outstanding" /\ s.claim = attempt /\ s.ep = epoch

ReturnAuthority(s, authority) == [s EXCEPT !.res = "Returned", !.auth = authority]

(* classify: only an authority that is still closing starts a removal.     *)
WithAuthority(s, authority, epoch) ==
  [s EXCEPT !.res = IF authority \in {"Lease", "Closing"} THEN "Available" ELSE "Unavailable",
            !.auth = authority, !.ep = epoch, !.claim = 0, !.att = 0]

CanRelease(s, attempt) ==
  /\ s.claim = attempt
  /\ s.stage = "Finalizing" \/ (Owned(s) /\ s.res \in {"Outstanding", "Returned"})

NoAuthority(s) ==
  [s EXCEPT !.res = "Unowned", !.auth = "None", !.ep = 0, !.claim = 0, !.att = 0]

QuarantinedEmpty == [NoAuthority(Idle) EXCEPT !.phase = "Quarantined", !.stage = "-"]

(* A broken variant: a claim that returned nothing stays recorded.         *)
KeepsClaim(s) == IF s.res = "Returned" THEN WithAuthority(s, s.auth, s.ep) ELSE s

Released(s) ==
  IF s.res = "Returned" THEN WithAuthority(s, s.auth, s.ep) ELSE NoAuthority(s)

(* A broken variant: the end of a finalization is not recorded.            *)
KeepsFinalizing(s, failed) == IF s.stage = "Finalizing" THEN s ELSE Released(s)

ReleaseClaim(s, failed) ==
  IF s.stage = "Finalizing"
    THEN IF failed \/ s.q = "yes" THEN QuarantinedEmpty ELSE Idle
    ELSE IF failed THEN [Released(s) EXCEPT !.phase = "Quarantined", !.stage = "-"]
                   ELSE Released(s)

-----------------------------------------------------------------------------
(* install_returned_authority: where an authority that comes back late may *)
(* be stored.  Otherwise it goes to the quarantine vault.                  *)
CanInstall(s, epoch) ==
  \/ s.stage = "Idle"
  \/ s.phase = "Opening" /\ s.pay # "Published"
  \/ s.stage = "OpeningActive"
  \/ Owned(s) /\ s.res \in {"AwaitingAbort", "Unowned"}
  \/ Owned(s) /\ s.res = "Outstanding" /\ s.ep = epoch

ResolvesTo(s) == IF s.q = "yes" THEN "Quarantined" ELSE "Closing"

Destination(s) ==
  CASE s.stage = "Idle" -> [s EXCEPT !.phase = "Closing", !.stage = "Ready"]
    [] s.phase = "Opening" -> [s EXCEPT !.phase = "Rollback"]
    [] s.stage = "OpeningActive" ->
         [s EXCEPT !.phase = ResolvesTo(s),
                   !.stage = IF ResolvesTo(s) = "Closing" THEN "Ready" ELSE "-",
                   !.q = "no"]
    [] OTHER -> s

InstallAuthority(s, authority, epoch) ==
  IF s.res = "Outstanding"
    THEN ReturnAuthority(s, authority)
    ELSE WithAuthority(Destination(s), authority, epoch)

-----------------------------------------------------------------------------
(* A broken variant: a quarantine during finalization ends it at once.     *)
SeizesFinalization(s) == QuarantinedEmpty

QuarantineFinalizing(s) == [s EXCEPT !.q = "yes"]

(* quarantine_core: an open attempt or a finalization that is running is   *)
(* only asked; its owner resolves the request.                             *)
Quarantine(s) ==
  CASE s.stage = "Idle" -> QuarantinedEmpty
    [] s.stage = "Finalizing" -> QuarantineFinalizing(s)
    [] s.phase = "Opening" -> [s EXCEPT !.phase = "Closing", !.stage = "OpeningActive",
                                        !.q = "yes"]
    [] s.stage = "OpeningActive" -> [s EXCEPT !.q = "yes"]
    [] s.phase = "Open" -> [s EXCEPT !.phase = "Quarantined", !.res = "Available"]
    [] OTHER -> [s EXCEPT !.phase = "Quarantined", !.stage = "-"]

(* A broken variant: an undrained authority is drained once more.          *)
CleansRetained(s) == TRUE

Cleanable(s) == s.auth # "Retained"

(* take_module_cleanup_for_quarantine: what the caller is told.            *)
CleanupClaim(s, ingressClosed) ==
  CASE s.q = "yes" -> "DeferredOwner"
    [] s.q = "no" /\ Owned(s) /\ s.res = "AwaitingAbort" ->
         IF ingressClosed THEN "NoModuleAuthority" ELSE "DeferredOwner"
    [] s.q = "no" /\ Owned(s) /\ s.res = "Outstanding" -> "DeferredOwner"
    [] s.q = "no" /\ Owned(s) /\ s.auth # "None" ->
         IF Cleanable(s) THEN "Ready" ELSE "RetainedUndrained"
    [] OTHER -> IF ingressClosed /\ s.auth = "None" THEN "NoModuleAuthority"
                                                    ELSE "Unavailable"

(* A broken variant: the cleanup authority stays available to others.      *)
LeavesAuthority(s) == s

(* The state left behind when the claim is Ready.                          *)
TakeCleanup(s) ==
  IF s.res = "Returned" THEN [s EXCEPT !.res = "Outstanding", !.auth = "None"]
                        ELSE NoAuthority(s)

-----------------------------------------------------------------------------
(* Completion of a removal or of the rollback of an open attempt.          *)
FinalRemovalReady(s, attempt) ==
  /\ s.stage = "Ready"
  /\ s.res = "Outstanding" /\ s.claim = attempt
  /\ s.pay \in {"Retiring", "Empty"}

OpenRollbackReady(s, attempt) ==
  /\ s.stage = "Ready" \/ s.phase = "Rollback"
  /\ s.res = "Outstanding" /\ s.claim = attempt
  /\ s.pay = "Empty"

TakeGeneration(s) ==
  CASE s.pay = "Published" /\ s.phase # "Opening" -> [s EXCEPT !.pay = "Retiring"]
    [] s.pay = "Staged" -> [s EXCEPT !.pay = "Empty"]
    [] OTHER -> s

ClearRetirement(s) == [s EXCEPT !.pay = "Empty"]

CanFinish(s, attempt, rollback) ==
  /\ s.stage = "Ready" \/ (rollback /\ s.phase = "Rollback")
  /\ s.res = "Outstanding" /\ s.claim = attempt
  /\ s.pay = "Empty"

FinishClosed(s) ==
  [Idle EXCEPT !.stage = "Finalizing", !.claim = s.claim]

CanComplete(s, attempt) ==
  s.stage = "Finalizing" /\ s.claim = attempt /\ s.q = "no"
=============================================================================
