---------------------------- MODULE HostCallbacks ----------------------------
(***************************************************************************)
(* Calls from the add-in into Excel (callback_gate.rs, host_callback.rs,   *)
(* callback_value.rs, host_api.rs).  An entry point of Excel has a session *)
(* that a terminal status suppresses; a call needs a permit of the module  *)
(* wide gate, and its result is Excel's memory: it is decoded, perhaps     *)
(* with a nested call that takes it as an argument, then given back with   *)
(* one xlFree, and the permit is kept until then.  Workers that answer an  *)
(* asynchronous function pass the same gate without a session.  The module *)
(* closes the gate when its exports have drained and reopens it for the    *)
(* next epoch, where one active callback would stop the process.           *)
(***************************************************************************)
EXTENDS Naturals, Sequences, FiniteSets

CONSTANTS Threads,     \* threads that call exports
          HostThread,  \* the thread of the lifecycle entry points
          Workers,     \* pollers that answer asynchronous calls
          MaxDepth,    \* calls nested in decoders (three in ExcelHost::caller)
          AuditCapacity,
          MaxFailures, \* failing xlFree calls of a behaviour
          MaxEpochs

VARIABLES module,      \* where the owner of the epoch is, and how many epochs it opened
          phase,       \* ModuleCallbackAdmission::phase
          sealed,      \* the stripes of its gate
          calls,       \* the session of a thread and its frames, the innermost last
          workers,     \* the asynchronous answer under way
          audit        \* CALLBACK_CLEANUP_AUDIT, and the calls and frees made so far
vars == <<module, phase, sealed, calls, workers, audit>>

Outside == [session |-> "none", frames |-> <<>>]
Frame(at) == [at |-> at, frees |-> 0, nested |-> FALSE]
Reserving == {"phase", "reserved", "admitted"}
Callers == Threads \cup {HostThread}

Init ==
  /\ module = [at |-> "closed", epoch |-> 0, aborted |-> FALSE]
  /\ phase = "closed" /\ sealed = TRUE
  /\ calls = [t \in Callers |-> Outside]
  /\ workers = [w \in Workers |-> "idle"]
  /\ audit = [debts |-> 0, dropped |-> 0, failed |-> 0, owed |-> 0]

Frames(t) == calls[t].frames
Depth(t) == Len(Frames(t))
Top(t) == Frames(t)[Depth(t)]
At(t) == IF Depth(t) = 0 THEN "none" ELSE Top(t).at
Move(t, at) == calls' = [calls EXCEPT ![t].frames[Depth(t)].at = at]
Pop(s) == SubSeq(s, 1, Len(s) - 1)

\* StripedDrainGate::active: a result keeps its permit until its xlFree has returned.
HoldsPermit(f) == f.at \in {"reserved", "admitted", "live", "failed", "terminal", "freeing"}
Active == Cardinality({<<t, i>> \in Callers \X (1..MaxDepth) :
                         i <= Depth(t) /\ HoldsPermit(Frames(t)[i])})
          + Cardinality({w \in Workers : workers[w] \in {"reserved", "admitted"}})

-----------------------------------------------------------------------------
(* ModuleCallbackAdmission::enter: the phase, a permit, and the phase again. *)
SeesOpen == phase = "open"
MayReserve == ~sealed

\* The session that ExcelHost borrows, HostCallbackSession::new.
Enter(t) ==
  /\ calls[t].session = "none"
  /\ IF t = HostThread THEN module.at \in {"opening", "drained"} ELSE module.at = "open"
  /\ calls' = [calls EXCEPT ![t].session = "available"]
  /\ UNCHANGED <<module, phase, sealed, workers, audit>>

Leave(t) ==
  /\ calls[t].session # "none" /\ Depth(t) = 0
  /\ calls' = [calls EXCEPT ![t] = Outside]
  /\ UNCHANGED <<module, phase, sealed, workers, audit>>

(* A broken variant: a session is asked only when it starts. *)
NeverBlocks(session) == TRUE
\* HostCallbackState::blocked_status
Permits(session) == session = "available"

\* The calls of ExcelHost follow one another or, in caller, are nested in a decoder whose
\* live result they take as their argument.
CallsAt(t) == At(t) = "none" \/ (At(t) = "live" /\ ~Top(t).nested)

(* HostCallbackSession::call. A suppressed session or a gate that is not open changes nothing. *)
Call(t) ==
  /\ calls[t].session # "none" /\ Permits(calls[t].session)
  /\ Depth(t) < MaxDepth /\ SeesOpen
  /\ CallsAt(t)
  /\ calls' = [calls EXCEPT ![t].frames =
       Append(IF Depth(t) = 0 THEN @ ELSE [@ EXCEPT ![Depth(t)].nested = TRUE], Frame("phase"))]
  /\ UNCHANGED <<module, phase, sealed, workers, audit>>

Reserve(t) ==
  /\ At(t) = "phase"
  /\ IF MayReserve THEN Move(t, "reserved") ELSE calls' = [calls EXCEPT ![t].frames = Pop(@)]
  /\ UNCHANGED <<module, phase, sealed, workers, audit>>

Recheck(t) ==
  /\ At(t) = "reserved"
  /\ IF SeesOpen THEN Move(t, "admitted") ELSE calls' = [calls EXCEPT ![t].frames = Pop(@)]
  /\ UNCHANGED <<module, phase, sealed, workers, audit>>

\* HostCallbackSession::observe
Observed(session, status) == IF status = "terminal" THEN "suppressed" ELSE session

(* ExcelCallbackValue::call_with_session: Excel is called, or there is no entry point to call *)
(* (Empty, the permit is dropped).  Whatever the status, the result has to be given back. *)
Invoke(t, status) ==
  /\ At(t) = "admitted"
  /\ calls' = [calls EXCEPT
       ![t].frames = IF status = "uninvoked" THEN Pop(@)
                     ELSE [@ EXCEPT ![Depth(t)].at = status],
       ![t].session = Observed(@, status)]
  /\ audit' = IF status = "uninvoked" THEN audit ELSE [audit EXCEPT !.owed = @ + 1]
  /\ UNCHANGED <<module, phase, sealed, workers>>

(* A broken variant: an indeterminate release is tried again by Drop. *)
UnlessReleased(at) == at # "released"
\* The states from which release_in_place calls Excel.
MayRelease(at) == at \in {"live", "failed", "terminal"}

(* CallbackOwner::release_in_place: indeterminate before Excel is called.  Drop comes here *)
(* again for a value that release has consumed, and has nothing left to do. *)
Release(t) ==
  /\ Depth(t) > 0 /\ At(t) \notin Reserving \cup {"freeing"}
  /\ calls' = [calls EXCEPT ![t].frames =
       IF MayRelease(At(t))
       THEN [@ EXCEPT ![Depth(t)].at = "freeing", ![Depth(t)].frees = @ + 1]
       ELSE Pop(@)]
  /\ UNCHANGED <<module, phase, sealed, workers, audit>>

(* A broken variant: a full audit forgets its oldest record silently. *)
Overwrites(a) == [a EXCEPT !.debts = IF @ = AuditCapacity THEN @ ELSE @ + 1]
\* record_callback_value_debt
Recorded(a) == IF a.debts = AuditCapacity THEN [a EXCEPT !.dropped = @ + 1]
               ELSE [a EXCEPT !.debts = @ + 1]

(* xlFree returns: the permit is dropped, the status observed, a failure recorded. *)
Freed(t, status) ==
  LET settled == [audit EXCEPT !.owed = @ - 1] IN
  /\ At(t) = "freeing"
  /\ status # "success" => audit.failed < MaxFailures
  /\ calls' = [calls EXCEPT
       ![t].frames[Depth(t)].at = IF status = "success" THEN "released" ELSE "indeterminate",
       ![t].session = Observed(@, status)]
  /\ audit' = IF status = "success" THEN settled
              ELSE [Recorded(settled) EXCEPT !.failed = @ + 1]
  /\ UNCHANGED <<module, phase, sealed, workers>>

(* async_return on a poller: the same gate, no session and nothing to free. *)
Answer(w) ==
  /\ \/ /\ workers[w] = "idle" /\ module.at \in {"open", "exports", "drained", "sealing", "sealed"}
        /\ SeesOpen /\ workers' = [workers EXCEPT ![w] = "phase"]
     \/ /\ workers[w] = "phase"
        /\ workers' = [workers EXCEPT ![w] = IF MayReserve THEN "reserved" ELSE "idle"]
     \/ /\ workers[w] = "reserved"
        /\ workers' = [workers EXCEPT ![w] = IF SeesOpen THEN "admitted" ELSE "idle"]
     \/ /\ workers[w] = "admitted" /\ workers' = [workers EXCEPT ![w] = "idle"]
  /\ UNCHANGED <<module, phase, sealed, calls, audit>>

-----------------------------------------------------------------------------
Advance(from, to) == module.at = from /\ module' = [module EXCEPT !.at = to]

(* ModuleRuntime::begin_open_internal: reset_callbacks, which stops the process when a *)
(* callback is active, reopens the stripes and then publishes the phase. *)
Reset ==
  \/ /\ module.at = "closed" /\ ~module.aborted /\ module.epoch < MaxEpochs
     /\ IF Active # 0 THEN module' = [module EXCEPT !.aborted = TRUE] /\ UNCHANGED sealed
        ELSE module' = [module EXCEPT !.at = "reopened", !.epoch = @ + 1] /\ sealed' = FALSE
     /\ UNCHANGED <<phase, calls, workers, audit>>
  \/ /\ Advance("reopened", "opening") /\ phase' = "open"
     /\ UNCHANGED <<sealed, calls, workers, audit>>

(* The open commits, or rolls back into the close that every epoch ends with. *)
OpenDone ==
  /\ calls[HostThread].session = "none"
  /\ Advance("opening", "open") \/ Advance("opening", "exports")
  /\ UNCHANGED <<phase, sealed, calls, workers, audit>>

(* begin_close_effects stops the exports, seal_and_drain waits for their calls. *)
CloseExports ==
  /\ Advance("open", "exports") \/ (Advance("exports", "drained") /\ \A t \in Threads : calls[t] = Outside)
  /\ UNCHANGED <<phase, sealed, calls, workers, audit>>

(* ModuleCallbackAdmission::close: new entrants are rejected before the stripes are sealed. *)
Close ==
  /\ calls[HostThread].session = "none"
  /\ \/ Advance("drained", "sealing") /\ phase' = "closed" /\ UNCHANGED sealed
     \/ Advance("sealing", "sealed") /\ sealed' = TRUE /\ UNCHANGED phase
  /\ UNCHANGED <<calls, workers, audit>>

(* A broken variant: the epoch ends without waiting for its tasks. *)
AnyTasks == TRUE
\* stop_producers: the asynchronous runtime joins its tasks.
TasksStopped == \A w \in Workers : workers[w] = "idle"

(* The resources are reclaimed; certify closes the gate again and ends the epoch. *)
Certify ==
  /\ TasksStopped
  /\ Advance("sealed", "closed")
  /\ UNCHANGED <<phase, sealed, calls, workers, audit>>

Next ==
  \/ Reset \/ OpenDone \/ CloseExports \/ Close \/ Certify
  \/ \E w \in Workers : Answer(w)
  \/ \E t \in Callers :
       \/ Enter(t) \/ Leave(t) \/ Call(t) \/ Reserve(t) \/ Recheck(t) \/ Release(t)
       \/ \E status \in {"live", "failed", "terminal", "uninvoked"} : Invoke(t, status)
       \/ \E status \in {"success", "failed", "terminal"} : Freed(t, status)
Spec == Init /\ [][Next]_vars

-----------------------------------------------------------------------------
TypeOK ==
  /\ module.at \in {"closed", "reopened", "opening", "open", "exports", "drained", "sealing", "sealed"}
  /\ phase \in {"open", "closed"} /\ sealed \in BOOLEAN
  /\ \A t \in Callers : calls[t].session \in {"none", "available", "suppressed"}
  /\ \A w \in Workers : workers[w] \in {"idle"} \cup Reserving

(* Every result of Excel is given back with exactly one xlFree, also when it fails, when the *)
(* session is suppressed and when Drop follows an explicit release; a result that a nested *)
(* call has as its argument is still Excel's live value. *)
ResultsFreedOnce ==
  /\ \A t \in Callers : \A i \in 1..Depth(t) :
       /\ Frames(t)[i].frees <= 1
       /\ i < Depth(t) => Frames(t)[i].at = "live"
  /\ audit.owed = Cardinality({<<t, i>> \in Callers \X (1..MaxDepth) :
       i <= Depth(t) /\ Frames(t)[i].at \in {"live", "failed", "terminal", "freeing"}})

(* After a terminal status the entry point starts no other call, wherever in a chain of *)
(* nested calls it was observed; what is left to do is to free. *)
TerminalIsFinal ==
  \A t \in Callers : calls[t].session = "suppressed" => At(t) \notin Reserving

(* The process is never stopped for a callback that is active when the next epoch opens: *)
(* also the permit that an entrant holds between its two looks at the phase is gone. *)
EpochsAreClean == ~module.aborted

(* Every xlFree that failed is in the audit or counted as dropped from it. *)
FailuresAudited == audit.debts + audit.dropped = audit.failed
=============================================================================
