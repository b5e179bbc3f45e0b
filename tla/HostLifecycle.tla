----------------------------- MODULE HostLifecycle -----------------------------
(***************************************************************************)
(* Excel's host threads calling xlAutoOpen, xlAutoClose and xlAutoRemove   *)
(* on one runtime.  The thread that binds the add-in's thread-affine slot  *)
(* opens, rolls back and removes; a host call on any other thread fails to *)
(* bind and quarantines the runtime under the owner's feet.  Every step is *)
(* one critical section of the lifecycle lock, or the user code and drains *)
(* between two of them.                                                    *)
(*                                                                         *)
(* The module authority (the affine token of one ingress epoch) moves      *)
(* between the threads (tok), the canonical state (st.auth) and the vault. *)
(* Return guards, the generation's readers and the ingress protocol are    *)
(* the subjects of other modules: returns is the admission flag, ingress   *)
(* the epoch and the phase of its word.                                    *)
(***************************************************************************)
EXTENDS LifecycleState, FiniteSets, TLC

CONSTANTS Hosts,      \* host threads
          MaxCalls    \* bound on host calls

VARIABLES st,         \* the canonical lifecycle state
          removals,   \* removal_epoch
          attempts,   \* last open attempt id
          claims,     \* last removal attempt id
          ingress,    \* [phase, ep] of the module's admission word
          returns,    \* return admission: "open" or "closed"
          slot,       \* the thread-affine slot: [owner, value]
          vault,      \* authorities put beyond use
          host,       \* per thread: where its call is and what it owns
          stopped,    \* "no", or why the process aborted
          calls       \* host calls made

shared == <<st, removals, attempts, claims, ingress, returns, slot, vault, stopped>>
vars == <<st, removals, attempts, claims, ingress, returns, slot, vault, host,
          stopped, calls>>

Nobody == "nobody"

Returned == [pc |-> "idle", job |-> "-", kind |-> "-", tok |-> "None",
             att |-> 0, claim |-> 0, failed |-> FALSE, seen |-> 0, then |-> "-"]

Init ==
  /\ st = Idle
  /\ removals = 0 /\ attempts = 0 /\ claims = 0
  /\ ingress = [phase |-> "CLOSED", ep |-> 0]
  /\ returns = "closed"
  /\ slot = [owner |-> Nobody, value |-> "empty"]
  /\ vault = {}
  /\ host = [h \in Hosts |-> Returned]
  /\ stopped = "no"
  /\ calls = 0

At(h, pc) == stopped = "no" /\ host[h].pc = pc

Become(h, change) == host' = [host EXCEPT ![h] = change @@ @]

FailStop(reason) == stopped' = reason

-----------------------------------------------------------------------------
(* Host calls and the thread-affine binding.                               *)
Call(h, job) ==
  /\ At(h, "idle") /\ calls < MaxCalls
  /\ st.phase # "Quarantined"
  /\ calls' = calls + 1
  /\ Become(h, [pc |-> "bind", job |-> job])
  /\ UNCHANGED shared

Binds(h) == slot.owner \in {Nobody, h}

(* Binding succeeds on the slot's own thread, or on any when it is free.   *)
BindOrQuarantine(h, next) ==
  IF Binds(h)
    THEN slot' = [slot EXCEPT !.owner = h] /\ Become(h, [pc |-> next])
    ELSE UNCHANGED slot /\ Become(h, [pc |-> "q.core", then |-> "return"])

Bind(h) ==
  /\ At(h, "bind")
  /\ BindOrQuarantine(h, IF host[h].job = "open" THEN "route" ELSE "request")
  /\ UNCHANGED <<st, removals, attempts, claims, ingress, returns, vault, stopped, calls>>

Rebind(h) ==
  /\ At(h, "rebind")
  /\ BindOrQuarantine(h, "sample")
  /\ UNCHANGED <<st, removals, attempts, claims, ingress, returns, vault, stopped, calls>>

(* xlAutoOpen of an open add-in removes it first: a controlled reload.     *)
Route(h) ==
  /\ At(h, "route")
  /\ IF st.phase = "Open" THEN Become(h, [pc |-> "request", job |-> "reload"])
                          ELSE Become(h, [pc |-> "sample"])
  /\ UNCHANGED <<shared, calls>>

Return(h) ==
  /\ At(h, "return")
  /\ host' = [host EXCEPT ![h] = Returned]
  /\ UNCHANGED <<shared, calls>>

(* xlAutoOpen failed: after a reload nothing owns the runtime any more.    *)
Refused(h) ==
  /\ At(h, "refused")
  /\ IF host[h].job = "reload" /\ st.phase # "Quarantined"
       THEN Become(h, [pc |-> "q.core", then |-> "return"])
       ELSE Become(h, [pc |-> "return"])
  /\ UNCHANGED <<shared, calls>>

-----------------------------------------------------------------------------
(* Opening.                                                                *)
Sample(h) ==
  /\ At(h, "sample")
  /\ Become(h, [pc |-> "pending", seen |-> removals])
  /\ UNCHANGED <<shared, calls>>

PendingRollback(h) ==
  /\ At(h, "pending")
  /\ IF st.phase = "Rollback" THEN Become(h, [pc |-> "acquire", then |-> "begin"])
                              ELSE Become(h, [pc |-> "begin"])
  /\ UNCHANGED <<shared, calls>>

(* OpenAcquisition: one critical section reserves the attempt, reopens the *)
(* returns and starts an ingress epoch.  Returns may refuse to reopen.     *)
BeginOpen(h) ==
  /\ At(h, "begin")
  /\ IF st # Idle \/ removals # host[h].seen
       THEN /\ Become(h, [pc |-> "refused"])
            /\ UNCHANGED <<st, attempts, ingress, returns, stopped>>
       ELSE /\ attempts' = attempts + 1
            /\ \/ /\ st' = OpeningOf(attempts')
                  /\ returns' = "open"
                  /\ IF ingress.phase = "CLOSED" THEN UNCHANGED stopped
                                                 ELSE FailStop("ingress busy")
                  /\ ingress' = [phase |-> "OPENING", ep |-> ingress.ep + 1]
                  /\ Become(h, [pc |-> "user", tok |-> "Opening", att |-> attempts'])
               \/ /\ st' = Quarantine(RecordOpenFailure(OpeningOf(attempts')))
                  /\ Become(h, [pc |-> "refused"])
                  /\ UNCHANGED <<ingress, returns, stopped>>
  /\ UNCHANGED <<removals, claims, slot, vault, calls>>

(* Metadata retry, the reentrant-removal check, registration and the       *)
(* add-in's own initialisation.  Whatever fails is rolled back, except an  *)
(* initialiser that does not return: its transaction is dropped.           *)
InitializeAddin(h) ==
  /\ At(h, "user")
  /\ \E next \in {"stage", "rollback", "abandon"} :
       Become(h, [pc |-> next, then |-> "q.core"])
  /\ UNCHANGED <<shared, calls>>

StageGenerationStep(h) ==
  /\ At(h, "stage")
  /\ IF CanStage(st, host[h].att)
       THEN /\ st' = StageGeneration(st)
            /\ \E next \in {"install", "rollback"} : Become(h, [pc |-> next])
       ELSE /\ Become(h, [pc |-> "rollback"])
            /\ UNCHANGED st
  /\ UNCHANGED <<removals, attempts, claims, ingress, returns, slot, vault, stopped, calls>>

InstallLifecycle(h) ==
  /\ At(h, "install")
  /\ IF slot = [owner |-> h, value |-> "empty"]
       THEN /\ slot' = [slot EXCEPT !.value = "held"]
            /\ Become(h, [pc |-> "validate"])
       ELSE /\ Become(h, [pc |-> "abandon", then |-> "q.core"])
            /\ UNCHANGED slot
  /\ UNCHANGED <<st, removals, attempts, claims, ingress, returns, vault, stopped, calls>>

ValidateCommit(h) ==
  /\ At(h, "validate")
  /\ IF open_attempt(st) = host[h].att
       THEN Become(h, [pc |-> "commit"])
       ELSE Become(h, [pc |-> "abandon", then |-> "refused"])
  /\ UNCHANGED <<shared, calls>>

(* Where an authority that a thread gives up goes: the canonical state, or *)
(* the vault together with a quarantine.                                   *)
StoreAuthority(authority) ==
  IF CanInstall(st, ingress.ep)
    THEN st' = InstallAuthority(st, authority, ingress.ep) /\ UNCHANGED vault
    ELSE st' = Quarantine(st) /\ vault' = vault \cup {authority}

BeginClose == ingress' = [ingress EXCEPT !.phase = "CLOSING"]

(* A broken variant: the commit does not look at the phase again.          *)
AlwaysCommits == TRUE

StillOpening == st.phase = "Opening"

(* commit_inner: services are armed and the generation published under one *)
(* lock.  A close that overtook the attempt takes the module back; so does *)
(* a failure to arm, which quarantines in a second critical section.       *)
CommitOpenStep(h) ==
  /\ At(h, "commit")
  /\ \/ /\ StillOpening
        /\ st' = CommitOpen(st, ingress.ep)
        /\ ingress' = [ingress EXCEPT !.phase = "OPEN"]
        /\ Become(h, [pc |-> "return", tok |-> "None"])
        /\ UNCHANGED vault
     \/ /\ BeginClose
        /\ StoreAuthority("Closing")
        /\ Become(h, [pc |-> IF StillOpening THEN "unarmed" ELSE "refused", tok |-> "None"])
  /\ UNCHANGED <<removals, attempts, claims, returns, slot, stopped, calls>>

CommitFailed(h) ==
  /\ At(h, "unarmed")
  /\ st' = Quarantine(st)
  /\ Become(h, [pc |-> "refused"])
  /\ UNCHANGED <<removals, attempts, claims, ingress, returns, slot, vault, stopped, calls>>

(* abandon_open, first critical section: the module comes back.            *)
Abandon(h) ==
  /\ At(h, "abandon")
  /\ returns' = "closed"
  /\ IF host[h].tok = "None" THEN UNCHANGED <<st, vault, ingress>>
                             ELSE BeginClose /\ StoreAuthority("Closing")
  /\ Become(h, [pc |-> "abandoned", tok |-> "None"])
  /\ UNCHANGED <<removals, attempts, claims, slot, stopped, calls>>

Abandoned(h) ==
  /\ At(h, "abandoned")
  /\ st' = Quarantine(RecordOpenFailure(st))
  /\ Become(h, [pc |-> host[h].then, then |-> "refused"])
  /\ UNCHANGED <<removals, attempts, claims, ingress, returns, slot, vault, stopped, calls>>
-----------------------------------------------------------------------------
(* Rolling an open attempt back.                                           *)

(* OpenRollbackOwner::run up to the issue of the rollback request.  The    *)
(* add-in's state, if it was initialised, is parked in the slot first.     *)
RollbackRequest(h) ==
  /\ At(h, "rollback")
  /\ IF open_attempt(st) = host[h].att
       THEN /\ \E v \in {slot.value, "held"} : slot' = [slot EXCEPT !.value = v]
            /\ Become(h, [pc |-> "mark"])
       ELSE /\ Become(h, [pc |-> "q.core", then |-> "abandon"])
            /\ UNCHANGED slot
  /\ UNCHANGED <<st, removals, attempts, claims, ingress, returns, vault, stopped, calls>>

(* A broken variant: return admission stays open during the rollback.      *)
MarkLeavesReturns(h) ==
  /\ At(h, "mark")
  /\ st' = RecordOpenFailure(st)
  /\ Become(h, [pc |-> "giveback",
                then |-> IF RollbackRequired(st) THEN "acquire" ELSE "refused"])
  /\ UNCHANGED <<removals, attempts, claims, ingress, returns, slot, vault, stopped, calls>>

MarkOpenFailed(h) ==
  /\ At(h, "mark")
  /\ st' = RecordOpenFailure(st)
  /\ returns' = "closed"
  /\ Become(h, [pc |-> "giveback",
                then |-> IF RollbackRequired(st) THEN "acquire" ELSE "refused"])
  /\ UNCHANGED <<removals, attempts, claims, ingress, slot, vault, stopped, calls>>

ReturnOpenModule(h) ==
  /\ At(h, "giveback")
  /\ BeginClose
  /\ StoreAuthority("Closing")
  /\ Become(h, [pc |-> host[h].then, then |-> "refused", tok |-> "None"])
  /\ UNCHANGED <<removals, attempts, claims, returns, slot, stopped, calls>>

(* rollback_owner: the claim, a reason not to need one, or quarantine.     *)
AcquireRollback(h) ==
  /\ At(h, "acquire")
  /\ \/ /\ st.phase = "Rollback" /\ Claimable(st)
        /\ claims' = claims + 1
        /\ st' = ClaimRemoval(st, claims')
        /\ Become(h, [pc |-> "td.drain", kind |-> "rollback", claim |-> claims',
                      tok |-> "Closing", failed |-> FALSE])
     \/ /\ IF st.phase \in {"Closed", "Closing"}
             THEN Become(h, [pc |-> host[h].then])
             ELSE Become(h, [pc |-> "q.core"])
        /\ st.phase # "Rollback"
        /\ UNCHANGED <<st, claims>>
  /\ UNCHANGED <<removals, attempts, ingress, returns, slot, vault, stopped, calls>>

-----------------------------------------------------------------------------
(* Removal.  final_owner requests the close and claims it, in one critical *)
(* section; a close that cannot be claimed yet waits for the next change.  *)
FinalDecision(h) ==
  LET s == RequestClosing(st)
  IN  IF Claimable(s)
        THEN /\ claims' = claims + 1
             /\ st' = ClaimRemoval(s, claims')
             /\ BeginClose
             /\ Become(h, [pc |-> "td.drain", kind |-> "final", claim |-> claims',
                           tok |-> "Closing", failed |-> FALSE])
      ELSE /\ st' = s
           /\ Become(h, [pc |-> IF s.stage = "Idle" \/ s.phase = "Quarantined"
                                  THEN "already" ELSE "wait"])
           /\ UNCHANGED <<claims, ingress>>

RequestRemoval(h) ==
  /\ At(h, "request")
  /\ removals' = removals + 1
  /\ returns' = "closed"
  /\ FinalDecision(h)
  /\ UNCHANGED <<attempts, slot, vault, stopped, calls>>

WaitForChange(h) ==
  /\ At(h, "wait")
  /\ st.stage # "Finalizing" /\ (st.phase = "Closing" => Claimable(st))
  /\ FinalDecision(h)
  /\ UNCHANGED <<removals, attempts, returns, slot, vault, stopped, calls>>

AlreadyClosed(h) ==
  /\ At(h, "already")
  /\ IF st.phase = "Closed" /\ slot # [owner |-> h, value |-> "empty"]
       THEN Become(h, [pc |-> "q.core", then |-> "removed"]) /\ UNCHANGED slot
       ELSE /\ Become(h, [pc |-> "removed"])
            /\ slot' = IF st.phase = "Closed" THEN [slot EXCEPT !.owner = Nobody] ELSE slot
  /\ UNCHANGED <<st, removals, attempts, claims, ingress, returns, vault, stopped, calls>>

(* A reload goes on to open again, unless Excel refused further callbacks. *)
Removed(h) ==
  /\ At(h, "removed")
  /\ IF host[h].job = "reload" /\ st.phase = "Closed"
       THEN \E next \in {"rebind", "return"} : Become(h, [pc |-> next])
       ELSE Become(h, [pc |-> "return"])
  /\ UNCHANGED <<shared, calls>>

-----------------------------------------------------------------------------
(* The teardown both kinds of owner run.                                   *)
DrainExecution(h) ==
  /\ At(h, "td.drain")
  /\ \/ /\ ingress' = [ingress EXCEPT !.phase = "CLOSED"]
        /\ Become(h, [pc |-> "td.detach", tok |-> "Drained"])
        /\ UNCHANGED st
     \/ /\ st' = Quarantine(st)
        /\ Become(h, [pc |-> "td.return", tok |-> "Retained"])
        /\ UNCHANGED ingress
  /\ UNCHANGED <<removals, attempts, claims, returns, slot, vault, stopped, calls>>

(* Producers, registrations, callbacks and host detachment.                *)
DetachHost(h) ==
  /\ At(h, "td.detach")
  /\ \E next \in {"td.take", "td.return"} : Become(h, [pc |-> next])
  /\ UNCHANGED <<shared, calls>>

TakeGenerationStep(h) ==
  /\ At(h, "td.take")
  /\ st' = TakeGeneration(st)
  /\ Become(h, [pc |-> "td.cleanup"])
  /\ UNCHANGED <<removals, attempts, claims, ingress, returns, slot, vault, stopped, calls>>

(* Services are sealed, the add-in's close runs and gives its state up.    *)
CleanupAddin(h) ==
  /\ At(h, "td.cleanup")
  /\ \/ Become(h, [pc |-> "td.return"]) /\ UNCHANGED slot
     \/ /\ slot' = [slot EXCEPT !.value = "empty"]
        /\ \E next \in {"td.ready", "td.return"} : Become(h, [pc |-> next])
  /\ UNCHANGED <<st, removals, attempts, claims, ingress, returns, vault, stopped, calls>>

(* A stage failed: the authority goes back to the claim, the runtime is    *)
(* quarantined, and then the claim is released: three critical sections.   *)
ReturnModuleAuthority(h) ==
  /\ At(h, "td.return")
  /\ IF CanReturn(st, host[h].claim, ingress.ep)
       THEN st' = ReturnAuthority(st, host[h].tok) /\ UNCHANGED stopped
       ELSE UNCHANGED st /\ FailStop("lifecycle invariant")
  /\ Become(h, [pc |-> "td.quarantine", tok |-> "None", then |-> "q.core"])
  /\ UNCHANGED <<removals, attempts, claims, ingress, returns, slot, vault, calls>>

QuarantineState(h) ==
  /\ At(h, "td.quarantine")
  /\ st' = Quarantine(st)
  /\ Become(h, [pc |-> "td.release"])
  /\ UNCHANGED <<removals, attempts, claims, ingress, returns, slot, vault, stopped, calls>>

(* RemovalClaimGuard::drop.                                                *)
ReleaseRemovalClaim(h) ==
  /\ At(h, "td.release")
  /\ IF CanRelease(st, host[h].claim)
       THEN st' = ReleaseClaim(st, host[h].failed) /\ UNCHANGED stopped
       ELSE UNCHANGED st /\ FailStop("lifecycle invariant")
  /\ Become(h, [pc |-> host[h].then, claim |-> 0, failed |-> FALSE,
                then |-> IF host[h].kind = "final" THEN "removed" ELSE "refused"])
  /\ UNCHANGED <<removals, attempts, claims, ingress, returns, slot, vault, calls>>

AfterClaim(h) == IF host[h].kind = "final" THEN "fail stop" ELSE "q.core"

(* Certification reads readiness in one critical section and retires the   *)
(* generation in a second.  The drained token is consumed by the first.    *)
Ready(h) == IF host[h].kind = "final" THEN FinalRemovalReady(st, host[h].claim)
                                      ELSE OpenRollbackReady(st, host[h].claim)

CertifyReady(h) ==
  /\ At(h, "td.ready")
  /\ IF Ready(h)
       THEN Become(h, [pc |-> IF st.pay = "Retiring" THEN "td.clear" ELSE "td.finish",
                       tok |-> "None"])
       ELSE Become(h, [pc |-> "td.quarantine", tok |-> "None", then |-> AfterClaim(h)])
  /\ UNCHANGED <<shared, calls>>

ClearCertifiedRetirement(h) ==
  /\ At(h, "td.clear")
  /\ IF Ready(h)
       THEN st' = ClearRetirement(st) /\ Become(h, [pc |-> "td.finish"])
       ELSE UNCHANGED st /\ Become(h, [pc |-> "td.quarantine", then |-> AfterClaim(h)])
  /\ UNCHANGED <<removals, attempts, claims, ingress, returns, slot, vault, stopped, calls>>

(* The claim is armed to quarantine from here until finalization is done.  *)
FinishClosedStep(h) ==
  /\ At(h, "td.finish")
  /\ IF CanFinish(st, host[h].claim, host[h].kind = "rollback")
       THEN st' = FinishClosed(st) /\ Become(h, [pc |-> "td.unbind", failed |-> TRUE])
       ELSE UNCHANGED st /\ Become(h, [pc |-> "td.quarantine", failed |-> TRUE,
                                       then |-> AfterClaim(h)])
  /\ UNCHANGED <<removals, attempts, claims, ingress, returns, slot, vault, stopped, calls>>

ReleaseBinding(h) ==
  /\ At(h, "td.unbind")
  /\ IF slot = [owner |-> h, value |-> "empty"]
       THEN /\ slot' = [slot EXCEPT !.owner = Nobody]
            /\ Become(h, [pc |-> "td.complete"])
       ELSE /\ Become(h, [pc |-> "td.release", then |-> AfterClaim(h)])
            /\ UNCHANGED slot
  /\ UNCHANGED <<st, removals, attempts, claims, ingress, returns, vault, stopped, calls>>

CompleteFinalization(h) ==
  /\ At(h, "td.complete")
  /\ IF CanComplete(st, host[h].claim)
       THEN Become(h, [pc |-> "td.release", failed |-> FALSE,
                       then |-> IF host[h].kind = "final" THEN "removed" ELSE host[h].then])
       ELSE Become(h, [pc |-> "td.release", then |-> AfterClaim(h)])
  /\ UNCHANGED <<shared, calls>>

(* handle_unload_hazard of a CloseInvariantViolation.                      *)
CloseInvariant(h) ==
  /\ At(h, "fail stop")
  /\ FailStop("close invariant")
  /\ UNCHANGED <<st, removals, attempts, claims, ingress, returns, slot, vault, host, calls>>
-----------------------------------------------------------------------------
(* Quarantine from any thread: quarantine_runtime.                         *)

(* A broken variant: return admission stays open.                          *)
LeavesReturns(h) ==
  /\ At(h, "q.core")
  /\ st' = Quarantine(st)
  /\ Become(h, [pc |-> "q.take"])
  /\ UNCHANGED <<removals, attempts, claims, ingress, returns, slot, vault, stopped, calls>>

QuarantineCore(h) ==
  /\ At(h, "q.core")
  /\ returns' = "closed"
  /\ st' = Quarantine(st)
  /\ Become(h, [pc |-> "q.take"])
  /\ UNCHANGED <<removals, attempts, claims, ingress, slot, vault, stopped, calls>>

TakeModuleCleanup(h) ==
  LET answer == CleanupClaim(st, ingress.phase = "CLOSED")
  IN  /\ At(h, "q.take")
      /\ IF answer = "Ready"
           THEN /\ st' = TakeCleanup(st)
                /\ ingress' = IF st.auth = "Lease" THEN [ingress EXCEPT !.phase = "CLOSING"]
                                                   ELSE ingress
                /\ Become(h, [pc |-> "q.drain",
                              tok |-> IF st.auth = "Lease" THEN "Closing" ELSE st.auth])
           ELSE /\ Become(h, [pc |-> host[h].then, then |-> "refused"])
                /\ UNCHANGED <<st, ingress>>
      /\ IF \/ answer = "Unavailable"
            \/ answer = "RetainedUndrained" /\ st.ep # ingress.ep
           THEN FailStop("lacks authority") ELSE UNCHANGED stopped
      /\ UNCHANGED <<removals, attempts, claims, returns, slot, vault, calls>>

(* ModuleCleanupReady::finish: drain and close the callbacks, or keep the  *)
(* authority beyond use.                                                   *)
FinishModuleCleanup(h) ==
  /\ At(h, "q.drain")
  /\ \/ /\ ingress' = [ingress EXCEPT !.phase = "CLOSED"]
        /\ Become(h, [pc |-> host[h].then, tok |-> "None", then |-> "refused"])
        /\ UNCHANGED <<st, vault>>
     \/ /\ host[h].tok = "Closing"
        /\ StoreAuthority("Retained")
        /\ Become(h, [pc |-> host[h].then, tok |-> "None", then |-> "refused"])
        /\ UNCHANGED ingress
  /\ UNCHANGED <<removals, attempts, claims, returns, slot, stopped, calls>>

-----------------------------------------------------------------------------
Opens(h) ==
  \/ Sample(h) \/ PendingRollback(h) \/ BeginOpen(h) \/ InitializeAddin(h)
  \/ StageGenerationStep(h) \/ InstallLifecycle(h) \/ ValidateCommit(h)
  \/ CommitOpenStep(h) \/ CommitFailed(h) \/ Abandon(h) \/ Abandoned(h)
  \/ RollbackRequest(h) \/ MarkOpenFailed(h) \/ ReturnOpenModule(h) \/ AcquireRollback(h)

Removes(h) ==
  \/ RequestRemoval(h) \/ WaitForChange(h) \/ AlreadyClosed(h) \/ Removed(h)
  \/ DrainExecution(h) \/ DetachHost(h) \/ TakeGenerationStep(h) \/ CleanupAddin(h)
  \/ ReturnModuleAuthority(h) \/ QuarantineState(h) \/ ReleaseRemovalClaim(h)
  \/ CertifyReady(h) \/ ClearCertifiedRetirement(h) \/ FinishClosedStep(h)
  \/ ReleaseBinding(h) \/ CompleteFinalization(h) \/ CloseInvariant(h)

Step(h) ==
  \/ Bind(h) \/ Rebind(h) \/ Route(h) \/ Refused(h) \/ Return(h)
  \/ Opens(h) \/ Removes(h)
  \/ QuarantineCore(h) \/ TakeModuleCleanup(h) \/ FinishModuleCleanup(h)

(* Nothing is left to do, or the process is gone.                          *)
Finished ==
  /\ stopped # "no" \/ \A h \in Hosts : host[h].pc = "idle"
  /\ UNCHANGED vars

Next ==
  \/ \E h \in Hosts : Step(h) \/ \E job \in {"open", "close"} : Call(h, job)
  \/ Finished

Spec == Init /\ [][Next]_vars

(* A host call that is running goes on running: drains and user code end.  *)
Fairness == \A h \in Hosts : WF_vars(Step(h))

LiveSpec == Spec /\ Fairness

-----------------------------------------------------------------------------
(* The canonical state is always one the nested enums can express.         *)
TypeOK ==
  /\ WellFormed(st)
  /\ ingress.phase \in {"CLOSED", "OPENING", "OPEN", "CLOSING"}
  /\ returns \in {"open", "closed"}
  /\ slot \in [owner : Hosts \cup {Nobody}, value : {"empty", "held"}]
  /\ vault \subseteq {"Closing", "Retained"}
  /\ stopped \in {"no", "ingress busy", "lifecycle invariant", "close invariant",
                  "lacks authority"}
  /\ \A h \in Hosts :
       host[h].tok \in {"None", "Opening", "Closing", "Drained", "Retained"}

(* Who holds the module authority of the current ingress epoch.            *)
Live == {"Opening", "Lease", "Closing", "Retained"}

Holders ==
  {h \in Hosts : host[h].tok \in Live}
    \cup (IF st.auth \in Live THEN {"state"} ELSE {})
    \cup (IF vault # {} THEN {"vault"} ELSE {})

(* The module authority is never duplicated and never lost: while an       *)
(* ingress epoch is not drained exactly one place holds its token, and     *)
(* once it is drained nobody does.                                         *)
AuthorityConserved ==
  Cardinality(Holders) = IF ingress.phase = "CLOSED" THEN 0 ELSE 1

(* return_removal_authority, release_removal_claim and the ingress open    *)
(* abort the process when the claim they were given no longer matches:     *)
(* whatever other threads quarantine in between, it always matches.        *)
ClaimsMatch == stopped \notin {"lifecycle invariant", "ingress busy"}

(* A removal claim recorded in the canonical state has exactly one thread  *)
(* that will release it, so nobody waits for an owner that is gone.        *)
ClaimHasOneOwner ==
  stopped = "no" =>
    /\ \A h \in Hosts : host[h].claim # 0 => st.claim = host[h].claim
    /\ st.claim # 0 => \E h \in Hosts : host[h].claim = st.claim
    /\ \A g, h \in Hosts : g # h /\ host[g].claim # 0 => host[h].claim = 0

(* Closed and idle really is closed: the ingress is drained, the add-in's  *)
(* slot is empty, return admission is shut and nobody still owns a piece.  *)
ClosedIsClean ==
  st = Idle => /\ ingress.phase = "CLOSED" /\ returns = "closed"
               /\ slot.value = "empty" /\ vault = {}
               /\ \A h \in Hosts : host[h].tok = "None"

(* Return admission is shut before Closing is published.                   *)
ReturnsClosedFirst == st.phase = "Closing" => returns = "closed"

(* Quarantine is terminal, and a quarantine asked of a running open        *)
(* attempt or finalization is not forgotten by whoever resolves it.        *)
QuarantineIsTerminal ==
  [][/\ st.phase = "Quarantined" => st'.phase = "Quarantined"
     /\ st.q = "yes" => st'.q = "yes" \/ st'.phase = "Quarantined"]_st

(* An epoch whose drain failed is never drained again, by any thread, and  *)
(* no generation opens over it.                                            *)
RetainedStaysRetained ==
  [][/\ st.auth # "Retained" /\ "Retained" \notin vault
     /\ \A h \in Hosts : host[h].tok # "Retained"]_ingress

(* Every host call returns to Excel, unless the process was aborted: no    *)
(* claim, wait or deferred cleanup blocks a host thread for ever.          *)
HostCallsReturn ==
  \A h \in Hosts : host[h].pc # "idle" ~> (host[h].pc = "idle" \/ stopped # "no")

(* The abort "active module epoch lacks affine close authority" means what *)
(* it says: no thread holds the authority it reports as missing.           *)
LackingAuthorityIsReal == stopped = "lacks authority" => Holders = {}
=============================================================================
