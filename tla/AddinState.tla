------------------------------ MODULE AddinState ------------------------------
(***************************************************************************)
(* Who owns the objects that Addin::open returned: the lifecycle state,    *)
(* which never leaves the thread that created it, the shared state and the *)
(* layers.  They pass from the opening transaction (open_txn.rs) to the    *)
(* thread-affine slot (thread_affine.rs, binding.rs) and the canonical     *)
(* generation, and from there through the stages of the teardown           *)
(* (pipeline.rs), each of which may fail or panic.                         *)
(*                                                                         *)
(* fate says where each object is.  One that user code has not released    *)
(* properly must end in the quarantine vault or be forgotten: its          *)
(* destructor would run on the wrong thread or under code still running.   *)
(* The transitions of the canonical state are those of LifecycleState;     *)
(* HostLifecycle interleaves their critical sections in more detail.       *)
(***************************************************************************)
EXTENDS LifecycleState, FiniteSets, TLC

CONSTANTS Hosts,      \* threads on which Excel may call the lifecycle exports
          MaxOpens,   \* bound on open attempts
          MaxCalls    \* bound on host calls

VARIABLES st,         \* the canonical lifecycle state
          attempts,   \* the last open attempt
          affinity,   \* AffinityControl: [owner, binding, modifying]
          tls,        \* per thread: the attempt whose lifecycle state it stores, or 0
          fate,       \* per attempt: where its three objects are
          closed,     \* per attempt: which of quiesce and cleanup have succeeded
          host,       \* per thread: its call
          calls

vars == <<st, attempts, affinity, tls, fate, closed, host, calls>>

Nobody == "nobody"
Attempts == 1..MaxOpens
Kinds == {"life", "shared", "layers"}
Places == {"none", "held", "slot", "root", "dropped", "vault", "forgotten"}

Returned == [pc |-> "idle", job |-> "-", access |-> 0, claim |-> "none", att |-> 0, gen |-> 0,
             kind |-> "-", removal |-> 0]

Init ==
  /\ st = Idle /\ attempts = 0 /\ calls = 0
  /\ affinity = [owner |-> Nobody, binding |-> 0, modifying |-> FALSE]
  /\ tls = [h \in Hosts |-> 0]
  /\ fate = [a \in Attempts |-> [o \in Kinds |-> "none"]]
  /\ closed = [a \in Attempts |-> {}]
  /\ host = [h \in Hosts |-> Returned]

Become(h, change) == host' = [host EXCEPT ![h] = change @@ @]
Move(a, where) == fate' = [fate EXCEPT ![a] = where @@ @]

-----------------------------------------------------------------------------
(* The thread-affine slot.                                                 *)

\* bind_current: the same binding for its owner, a new one while nobody changes the slot.
Binds(h) == affinity.owner = h \/ (affinity.owner = Nobody /\ ~affinity.modifying)
Bound(h) == IF affinity.owner = h THEN affinity
            ELSE [affinity EXCEPT !.owner = h, !.binding = @ + 1]

\* verify_access
Verified(h) == affinity.owner = h /\ affinity.binding = host[h].access
\* binding: at most one transaction may change the occupancy.
Claims(h) == Verified(h) /\ ~affinity.modifying
Claimed == [affinity EXCEPT !.modifying = TRUE]
\* BindingClaim::drop
Dropped(h) == IF host[h].claim # "none" /\ affinity.binding = host[h].access
              THEN [affinity EXCEPT !.modifying = FALSE] ELSE affinity

-----------------------------------------------------------------------------
(* Host calls.                                                             *)
Call(h, job) ==
  /\ host[h].pc = "idle" /\ calls < MaxCalls /\ st.phase # "Quarantined"
  /\ job = "open" => attempts < MaxOpens
  /\ calls' = calls + 1
  /\ Become(h, [pc |-> "bind", job |-> job])
  /\ UNCHANGED <<st, attempts, affinity, tls, fate, closed>>

(* A host call on a thread that cannot bind the slot quarantines.          *)
Bind(h) ==
  /\ host[h].pc = "bind"
  /\ IF Binds(h)
       THEN /\ affinity' = Bound(h)
            /\ Become(h, [pc |-> CASE host[h].job = "open" -> "route"
                                    [] host[h].job = "remove" -> "request"
                                    [] OTHER -> "begin",
                          access |-> affinity'.binding])
            /\ UNCHANGED st
       ELSE /\ st' = Quarantine(st) /\ Become(h, [pc |-> "unclaim"])
            /\ UNCHANGED affinity
  /\ UNCHANGED <<attempts, tls, fate, closed, calls>>

Route(h) ==
  /\ host[h].pc = "route"
  /\ Become(h, IF st.phase = "Open" THEN [pc |-> "request", job |-> "reload"]
                                    ELSE [pc |-> "begin"])
  /\ UNCHANGED <<st, attempts, affinity, tls, fate, closed, calls>>

(* The binding claim is given up last, after what the call decided.        *)
Unclaim(h) ==
  /\ host[h].pc = "unclaim"
  /\ affinity' = Dropped(h)
  /\ IF host[h].job = "reopen" /\ host[h].kind # "opened"
       THEN Become(h, [pc |-> "refused", claim |-> "none", att |-> 0, gen |-> 0])
       ELSE host' = [host EXCEPT ![h] = Returned]
  /\ UNCHANGED <<st, attempts, tls, fate, closed, calls>>

(* A reload that did not open again leaves nothing that owns the runtime.  *)
Refused(h) ==
  /\ host[h].pc = "refused"
  /\ st' = Quarantine(st)
  /\ host' = [host EXCEPT ![h] = Returned]
  /\ UNCHANGED <<attempts, affinity, tls, fate, closed, calls>>

(* A thread that ends forgets what its storage still holds.                *)
Exit(h) ==
  /\ host[h].pc = "idle"
  /\ Become(h, [pc |-> "gone"])
  /\ tls' = [tls EXCEPT ![h] = 0]
  /\ IF tls[h] # 0 THEN Move(tls[h], [life |-> "forgotten"]) ELSE UNCHANGED fate
  /\ UNCHANGED <<st, attempts, affinity, closed, calls>>

-----------------------------------------------------------------------------
(* Opening: every typestate of OpeningTxn and what dropping it does.       *)

Begin(h) ==
  /\ host[h].pc = "begin"
  /\ IF st = Idle /\ attempts < MaxOpens
       THEN /\ attempts' = attempts + 1
            /\ st' = OpeningOf(attempts')
            /\ Become(h, [pc |-> "host", att |-> attempts'])
       ELSE Become(h, [pc |-> "unclaim"]) /\ UNCHANGED <<st, attempts>>
  /\ UNCHANGED <<affinity, tls, fate, closed, calls>>

\* The module authority comes back with the end of an attempt.
Aborted(h) == InstallAuthority(RecordOpenFailure(st), "Closing", host[h].att)
Ownership(h) == IF host[h].att = 0 THEN "none" ELSE fate[host[h].att].life

(* abandon_open: quarantine first; a lifecycle state that the transaction  *)
(* owns is forgotten, an installed one stays in the slot.                  *)
Abandon(h) ==
  /\ st' = Quarantine(Aborted(h))
  /\ IF Ownership(h) = "held" THEN Move(host[h].att, [life |-> "forgotten"]) ELSE UNCHANGED fate
  /\ Become(h, [pc |-> "unclaim"])

(* Metadata debt, the registrar, and a removal that Excel asked for.       *)
Preflight(h) ==
  /\ host[h].pc = "host"
  /\ \E next \in {"init", "rollback"} : Become(h, [pc |-> next])
  /\ UNCHANGED <<st, attempts, affinity, tls, fate, closed, calls>>

(* Addin::open: there is nothing on which to call quiesce when it fails.   *)
Initialize(h) ==
  /\ host[h].pc = "init"
  /\ \/ /\ Move(host[h].att, [life |-> "held", shared |-> "held", layers |-> "held"])
        /\ Become(h, [pc |-> "stage"])
        /\ UNCHANGED st
     \/ Abandon(h)
  /\ UNCHANGED <<attempts, affinity, tls, closed, calls>>

Staged(h) ==
  IF CanStage(st, host[h].att)
    THEN /\ st' = StageGeneration(st)
         /\ Move(host[h].att, [shared |-> "root", layers |-> "root"])
         /\ Become(h, [pc |-> "prepare"])
    ELSE /\ Move(host[h].att, [shared |-> "vault", layers |-> "vault"])
         /\ Become(h, [pc |-> "rollback"])
         /\ UNCHANGED st
Stage(h) ==
  /\ host[h].pc = "stage" /\ Staged(h)
  /\ UNCHANGED <<attempts, affinity, tls, closed, calls>>

(* The executor, the event registrations and the functions; any may panic. *)
Prepare(h) ==
  /\ host[h].pc = "prepare"
  /\ \/ \E next \in {"install", "rollback"} : Become(h, [pc |-> next]) /\ UNCHANGED <<st, fate>>
     \/ Abandon(h)
  /\ UNCHANGED <<attempts, affinity, tls, closed, calls>>

\* install_addin_lifecycle: a claim of an empty binding, and the value in the thread's storage.
Installs(h) == Claims(h) /\ tls[h] = 0
Installed(h, next) ==
  /\ affinity' = Claimed
  /\ tls' = [tls EXCEPT ![h] = host[h].att]
  /\ Move(host[h].att, [life |-> "slot"])
  /\ Become(h, [pc |-> next, claim |-> "occupied"])

Install(h) ==
  /\ host[h].pc = "install"
  /\ IF Installs(h) THEN Installed(h, "commit")
                    ELSE Become(h, [pc |-> "rollback"]) /\ UNCHANGED <<affinity, tls, fate>>
  /\ UNCHANGED <<st, attempts, closed, calls>>

(* commit: the generation is published, or its services cannot be armed,   *)
(* or its publication is refused; a quarantine may have overtaken it.      *)
Commit(h) ==
  LET returned == InstallAuthority(st, "Closing", host[h].att) IN
  /\ host[h].pc = "commit"
  /\ IF open_attempt(st) # host[h].att THEN Abandon(h)
     ELSE \/ /\ st.phase = "Opening"
             /\ st' = CommitOpen(st, host[h].att)
             /\ Become(h, [pc |-> "unclaim", kind |-> "opened"])
             /\ UNCHANGED fate
          \/ /\ st' = IF st.phase = "Opening" THEN Quarantine(returned) ELSE returned
             /\ Become(h, [pc |-> "unclaim"])
             /\ UNCHANGED fate
          \/ /\ st.phase = "Opening"
             /\ st' = [Quarantine(returned) EXCEPT !.pay = "Empty"]
             /\ Become(h, [pc |-> "unclaim"])
             /\ Move(host[h].att, [shared |-> "vault", layers |-> "vault"])
  /\ UNCHANGED <<attempts, affinity, tls, closed, calls>>

-----------------------------------------------------------------------------
(* Rolling an attempt back (OpenRollbackOwner::run).                       *)

(* A state that the transaction still owns is installed first, so that the *)
(* same teardown can quiesce and clean it.                                 *)
RollbackInstall(h) ==
  /\ host[h].pc = "rollback"
  /\ IF Ownership(h) # "held"
       THEN Become(h, [pc |-> "mark"]) /\ UNCHANGED <<st, affinity, tls, fate>>
     ELSE IF Installs(h) THEN Installed(h, "mark") /\ UNCHANGED st
     ELSE Abandon(h) /\ UNCHANGED <<affinity, tls>>
  /\ UNCHANGED <<attempts, closed, calls>>

(* rollback_request and mark_open_failed; a close that overtook the        *)
(* attempt does the cleanup itself.                                        *)
MarkFailed(h) ==
  /\ host[h].pc = "mark"
  /\ st' = Aborted(h)
  /\ Become(h, [pc |-> IF RollbackRequired(st) THEN "acquire" ELSE "unclaim"])
  /\ UNCHANGED <<attempts, affinity, tls, fate, closed, calls>>

(* rollback_owner *)
AcquireRollback(h) ==
  /\ host[h].pc = "acquire"
  /\ IF st.phase = "Rollback" /\ Claimable(st)
       THEN /\ st' = ClaimRemoval(st, calls)
            /\ Become(h, [pc |-> "drain", kind |-> "rollback", removal |-> calls])
       ELSE /\ st' = IF st.phase \in {"Closed", "Closing"} THEN st ELSE Quarantine(st)
            /\ Become(h, [pc |-> "unclaim"])
  /\ UNCHANGED <<attempts, affinity, tls, fate, closed, calls>>

-----------------------------------------------------------------------------
(* Removal and the teardown that both kinds of owner run.                  *)

(* final_owner; a removal waits for an attempt or a finalization under way.*)
RequestRemoval(h) ==
  LET s == RequestClosing(st) IN
  /\ host[h].pc = "request"
  /\ IF Claimable(s)
       THEN /\ st' = ClaimRemoval(s, calls)
            /\ Become(h, [pc |-> "drain", kind |-> "final", removal |-> calls])
       ELSE /\ s.stage = "Idle" \/ s.phase = "Quarantined"
            /\ st' = s
            /\ Become(h, [pc |-> "already"])
  /\ UNCHANGED <<attempts, affinity, tls, fate, closed, calls>>

(* A runtime that was closed already gives an empty binding back.          *)
AlreadyClosed(h) ==
  /\ host[h].pc = "already"
  /\ IF st.phase # "Closed" THEN Become(h, [pc |-> "unclaim"]) /\ UNCHANGED <<st, affinity>>
     ELSE IF Installs(h)
       THEN /\ affinity' = Claimed
            /\ Become(h, [pc |-> "release", claim |-> "empty"])
            /\ UNCHANGED st
     ELSE st' = Quarantine(st) /\ Become(h, [pc |-> "unclaim"]) /\ UNCHANGED affinity
  /\ UNCHANGED <<attempts, tls, fate, closed, calls>>

(* A broken variant: the claim is released, and nothing is published.      *)
Unpublished == ReleaseClaim(ReturnAuthority(st, "Drained"), FALSE)

(* The module authority goes back drained, the runtime is quarantined and  *)
(* the removal claim released, before the binding claim is dropped.        *)
Quarantined == ReleaseClaim(Quarantine(ReturnAuthority(st, "Drained")), FALSE)
Fail(h) == st' = Quarantined /\ Become(h, [pc |-> "unclaim"])
\* A shared state that QuiescedAddin still owns goes to the vault.
Retain(h) == IF host[h].gen # 0 THEN Move(host[h].gen, [shared |-> "vault"]) ELSE UNCHANGED fate

(* Drained execution, stopped producers, closed callbacks, detached host.  *)
Drain(h) ==
  /\ host[h].pc = "drain"
  /\ \/ Verified(h) /\ Become(h, [pc |-> "quiesce"]) /\ UNCHANGED st
     \/ Fail(h)
  /\ UNCHANGED <<attempts, affinity, tls, fate, closed, calls>>

\* The generation in the canonical state: the attempt that staged it.
Root == IF st.pay \in {"Staged", "Published"}
        THEN {a \in Attempts : fate[a].shared = "root"} ELSE {}

(* QuiescedAddin::quiesce: the access is checked before the generation is  *)
(* taken; a lifecycle state without its generation cannot be closed.       *)
Quiesce(h) ==
  /\ host[h].pc = "quiesce"
  /\ IF Root = {}
       THEN /\ IF tls[h] # 0 THEN Fail(h) ELSE Become(h, [pc |-> "seal"]) /\ UNCHANGED st
            /\ UNCHANGED <<fate, closed>>
       ELSE \E a \in Root :
              \/ /\ tls[h] # 0
                 /\ st' = TakeGeneration(st)
                 /\ Move(a, [shared |-> "held", layers |-> "dropped"])
                 /\ closed' = [closed EXCEPT ![a] = @ \cup {"quiesced"}]
                 /\ Become(h, [pc |-> "seal", gen |-> a])
              \/ /\ st' = ReleaseClaim(Quarantine(ReturnAuthority(TakeGeneration(st), "Drained")),
                                       FALSE)
                 /\ Move(a, [shared |-> "vault", layers |-> "vault"])
                 /\ Become(h, [pc |-> "unclaim"])
                 /\ UNCHANGED closed
  /\ UNCHANGED <<attempts, affinity, tls, calls>>

(* Handle topics are shut down, then the generation's services are sealed. *)
SealServices(h) ==
  /\ host[h].pc = "seal"
  /\ \/ Become(h, [pc |-> "cleanup"]) /\ UNCHANGED <<st, fate>>
     \/ Fail(h) /\ Retain(h)
  /\ UNCHANGED <<attempts, affinity, tls, closed, calls>>

(* QuiescedAddin::cleanup: without a shared state only the binding is      *)
(* claimed; otherwise Addin::cleanup runs on the installed state.          *)
Cleanup(h) ==
  /\ host[h].pc = "cleanup"
  /\ IF host[h].gen = 0
       THEN /\ IF Installs(h)
                 THEN /\ affinity' = Claimed
                      /\ Become(h, [pc |-> "finish", claim |-> "empty"])
                      /\ UNCHANGED st
                 ELSE Fail(h) /\ UNCHANGED affinity
            /\ UNCHANGED <<fate, closed>>
       ELSE /\ \/ /\ Verified(h) /\ tls[h] # 0
                  /\ closed' = [closed EXCEPT ![host[h].gen] = @ \cup {"cleaned"}]
                  /\ Become(h, [pc |-> "take"])
                  /\ UNCHANGED <<st, fate>>
               \/ Fail(h) /\ Retain(h) /\ UNCHANGED closed
            /\ UNCHANGED affinity
  /\ UNCHANGED <<attempts, tls, calls>>

(* take: an inherited claim is used, a removal acquires it here.           *)
Take(h) ==
  /\ host[h].pc = "take"
  /\ IF (host[h].claim = "occupied" \/ Claims(h)) /\ tls[h] # 0
       THEN /\ affinity' = Claimed
            /\ tls' = [tls EXCEPT ![h] = 0]
            /\ Move(tls[h], [life |-> "held"])
            /\ Become(h, [pc |-> "dispose", claim |-> "empty", att |-> tls[h]])
            /\ UNCHANGED st
       ELSE Fail(h) /\ Retain(h) /\ UNCHANGED <<affinity, tls>>
  /\ UNCHANGED <<attempts, closed, calls>>

(* The lifecycle state is dropped before the shared state; a destructor    *)
(* that panics has run, and is never run again.                            *)
Dispose(h) ==
  /\ host[h].pc = "dispose"
  /\ \/ /\ Move(host[h].att, [life |-> "dropped"])
        /\ Become(h, [pc |-> "shared"])
        /\ UNCHANGED st
     \/ /\ fate' = [fate EXCEPT ![host[h].att].life = "dropped",
                                ![host[h].gen].shared = "vault"]
        /\ Fail(h)
  /\ UNCHANGED <<attempts, affinity, tls, closed, calls>>

DropShared(h) ==
  /\ host[h].pc = "shared"
  /\ Move(host[h].gen, [shared |-> "dropped"])
  /\ \/ Become(h, [pc |-> "finish"]) /\ UNCHANGED st
     \/ Fail(h)
  /\ UNCHANGED <<attempts, affinity, tls, closed, calls>>

(* The services end, diagnostics and RTD are quiescent, the certificate is *)
(* issued and consumed.                                                    *)
Finish(h) ==
  LET s == ClearRetirement(st) IN
  /\ host[h].pc = "finish"
  /\ \/ /\ CanFinish(s, host[h].removal, host[h].kind = "rollback")
        /\ st' = FinishClosed(s)
        /\ Become(h, [pc |-> "release"])
     \/ Fail(h)
  /\ UNCHANGED <<attempts, affinity, tls, fate, closed, calls>>

(* release_empty_claimed: the owner is cleared while the claim is held.    *)
Release(h) ==
  /\ host[h].pc = "release"
  /\ IF tls[h] = 0
       THEN /\ affinity' = [affinity EXCEPT !.owner = Nobody]
            /\ Become(h, [pc |-> "released"])
            /\ UNCHANGED st
       ELSE /\ st' = IF host[h].removal = 0 THEN Quarantine(st) ELSE ReleaseClaim(st, TRUE)
            /\ Become(h, [pc |-> "unclaim"])
            /\ UNCHANGED affinity
  /\ UNCHANGED <<attempts, tls, fate, closed, calls>>

ClaimEnds(h) ==
  /\ host[h].pc = "released"
  /\ affinity' = Dropped(h)
  /\ Become(h, [pc |-> IF host[h].removal = 0 THEN "unclaim" ELSE "complete", claim |-> "none"])
  /\ UNCHANGED <<st, attempts, tls, fate, closed, calls>>

(* complete_finalization, which a quarantine in between makes fail.  After *)
(* the removal of a reload the same call opens again, if Excel lets it.    *)
Complete(h) ==
  /\ host[h].pc = "complete"
  /\ st' = ReleaseClaim(st, ~CanComplete(st, host[h].removal))
  /\ \/ Become(h, [pc |-> "unclaim"])
     \/ /\ host[h].job = "reload" /\ st'.phase = "Closed"
        /\ host' = [host EXCEPT ![h] = [Returned EXCEPT !.pc = "bind", !.job = "reopen"]]
  /\ UNCHANGED <<attempts, affinity, tls, fate, closed, calls>>

-----------------------------------------------------------------------------
Step(h) ==
  \/ \E job \in {"open", "remove"} : Call(h, job)
  \/ Bind(h) \/ Route(h) \/ Unclaim(h) \/ Refused(h) \/ Exit(h)
  \/ Begin(h) \/ Preflight(h) \/ Initialize(h) \/ Stage(h) \/ Prepare(h)
  \/ Install(h) \/ Commit(h)
  \/ RollbackInstall(h) \/ MarkFailed(h) \/ AcquireRollback(h)
  \/ RequestRemoval(h) \/ AlreadyClosed(h) \/ Drain(h) \/ Quiesce(h) \/ SealServices(h)
  \/ Cleanup(h) \/ Take(h) \/ Dispose(h) \/ DropShared(h) \/ Finish(h)
  \/ Release(h) \/ ClaimEnds(h) \/ Complete(h)
Next == \E h \in Hosts : Step(h)
Spec == Init /\ [][Next]_vars

-----------------------------------------------------------------------------
(* The variables have their types.                                         *)
TypeOK ==
  /\ WellFormed(st)
  /\ affinity \in [owner : Hosts \cup {Nobody}, binding : 0..(2 * MaxCalls), modifying : BOOLEAN]
  /\ tls \in [Hosts -> 0..MaxOpens]
  /\ fate \in [Attempts -> [Kinds -> Places]]
  /\ closed \in [Attempts -> SUBSET {"quiesced", "cleaned"}]
  /\ \A h \in Hosts : host[h].claim \in {"none", "empty", "occupied"}

(* One transaction at a time may change whether the slot is occupied, on   *)
(* the thread that owns the binding, and what its typestate says of the    *)
(* slot is what the thread's storage holds (BindingTxn).                   *)
ClaimsAreExact ==
  /\ affinity.modifying <=> \E h \in Hosts : host[h].claim # "none"
  /\ \A h, k \in Hosts : host[h].claim # "none" /\ host[k].claim # "none" => h = k
  /\ \A h \in Hosts : host[h].claim # "none" =>
       /\ affinity.binding = host[h].access
       /\ affinity.owner = h \/ (affinity.owner = Nobody /\ host[h].pc = "released")
       /\ host[h].claim = "occupied" <=> tls[h] # 0
  /\ \A h \in Hosts : tls[h] # 0 => affinity.owner = h

(* The error branches of installing, taking and releasing are never taken: *)
(* whatever fails or is quarantined around it, a transaction that comes    *)
(* this far still has its attempt, its binding and the occupancy it knows. *)
TransitionsCannotFail ==
  \A h \in Hosts :
    /\ host[h].pc \in {"install", "already"} /\ st.phase # "Quarantined" => Installs(h)
    /\ host[h].pc = "rollback" /\ Ownership(h) = "held" => Installs(h)
    /\ host[h].pc \in {"commit", "mark"} => open_attempt(st) = host[h].att
    /\ host[h].pc \in {"cleanup", "take"} =>
         Verified(h) /\ (host[h].gen # 0 => tls[h] = host[h].gen)
    /\ host[h].pc = "release" => tls[h] = 0

(* Every object has one place: a lifecycle state is in the slot exactly    *)
(* when its thread stores it, what is in the canonical generation is       *)
(* there, and what is held is held by a call that is not over.             *)
EveryObjectHasItsPlace ==
  \A a \in Attempts :
    /\ fate[a].life = "slot" <=> \E h \in Hosts : tls[h] = a
    /\ fate[a].shared = "root" <=> fate[a].layers = "root"
    /\ fate[a].shared = "root" => st.pay \in {"Staged", "Published"}
    /\ \A o \in Kinds : fate[a][o] = "held" =>
         \E h \in Hosts : a \in {host[h].att, host[h].gen} /\ host[h].pc \notin {"unclaim", "idle"}

(* The add-in's destructors run in order: nothing is dropped before it was *)
(* quiesced, the lifecycle state only after Addin::cleanup and before the  *)
(* shared state, which otherwise ends in the vault.                        *)
DroppedInOrder ==
  \A a \in Attempts :
    /\ fate[a].layers = "dropped" => "quiesced" \in closed[a]
    /\ fate[a].life = "dropped" => closed[a] = {"quiesced", "cleaned"}
    /\ fate[a].shared = "dropped" => fate[a].life = "dropped"
    /\ "cleaned" \in closed[a] => "quiesced" \in closed[a]

(* A runtime that is closed, and may be opened again, has nothing left: a  *)
(* lost object or a failed stage always ends in quarantine, published      *)
(* before another transaction can claim the slot.                          *)
ClosedLeavesNothing ==
  /\ st = Idle =>
       \A a \in Attempts : \/ \A o \in Kinds : fate[a][o] = "none"
                           \/ \A o \in Kinds : fate[a][o] = "dropped"
  /\ st.phase # "Quarantined" /\ st.q = "no" =>
       \A a \in Attempts, o \in Kinds : fate[a][o] \in {"vault", "forgotten"} =>
         \E h \in Hosts : host[h].pc = "gone" \/ host[h].att = a \/ host[h].gen = a
=============================================================================
