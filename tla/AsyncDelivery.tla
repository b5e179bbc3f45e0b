---------------------------- MODULE AsyncDelivery ----------------------------
(***************************************************************************)
(* One native asynchronous call from its entry into the boundary to its    *)
(* answer (xlfn/src/async_udf: boundary.rs, boundary/launch.rs,            *)
(* completion.rs, transport.rs, future.rs, task.rs).                       *)
(*                                                                         *)
(* Excel waits for one xlAsyncReturn per call.  The copied handle moves    *)
(* from the launch to the task and is spent by whoever ends the call: a    *)
(* failed preparation or reservation, the completed evaluation, or the     *)
(* fallback of a destroyed task.  Cancellation and shutdown run beside it. *)
(* The cancellation slot is its promise in CancellationSlots: one decision *)
(* between delivery and cancellation.                                      *)
(***************************************************************************)
EXTENDS Naturals, FiniteSets, TLC

CONSTANTS Calls,
          Malformed,   \* calls whose raw handle does not parse
          None

VARIABLES call,    \* call[c]: progress of the call and what it owns
          gate,    \* admission of callbacks into Excel: "open" or "closed"
          phase    \* the closing thread

vars == <<call, gate, phase>>

NewCall == [pc |-> "outside",
            handle |-> FALSE,        \* the copied handle is still pending
            alive |-> FALSE,         \* user captures or the user future exist
            decide |-> "running",    \* the delivery state of the slot
            flag |-> FALSE,          \* the cancelled flag of the slot
            got |-> None,            \* what the evaluation produced
            say |-> None,            \* the answer being sent
            told |-> None,           \* the answer Excel received
            outcome |-> None,        \* delivered, rejected or suppressed
            completion |-> None,     \* what observation is told
            returns |-> 0]           \* xlAsyncReturn calls made

Init == call = [c \in Calls |-> NewCall] /\ gate = "open" /\ phase = "open"

Become(c, change) == call' = [call EXCEPT ![c] = change @@ @]
At(c, pc) == call[c].pc = pc

\* Where a call still holds its ingress permit, and where its task is counted.
Launching == {"admitted", "launched", "prepared", "reserved", "failing", "failcall"}
Running == {"task", "evaluated", "sending", "calling", "sent", "dropping"}

Sending(c, pc, say, completion) ==
    Become(c, [pc |-> pc, handle |-> FALSE, say |-> say, completion |-> completion])

-----------------------------------------------------------------------------
(* The launch, under the call's ingress permit.                             *)

\* async_udf_boundary_named: a closed ingress or runtime refuses silently.
Enter(c) ==
    /\ At(c, "outside")
    /\ Become(c, [pc |-> IF phase = "open" THEN "admitted" ELSE "refused"])
    /\ UNCHANGED <<gate, phase>>

\* A layer that refuses the call is answered through the raw handle.
LayersRefuse(c) ==
    /\ At(c, "admitted")
    /\ IF c \in Malformed
       THEN Become(c, [pc |-> "done", completion |-> "error"])
       ELSE Sending(c, "failing", "error", "error")
    /\ UNCHANGED <<gate, phase>>

\* The responder copies the handle before any user code runs.
MakeResponder(c) ==
    /\ At(c, "admitted")
    /\ IF c \in Malformed
       THEN Become(c, [pc |-> "done", completion |-> "error"])
       ELSE Become(c, [pc |-> "launched", handle |-> TRUE])
    /\ UNCHANGED <<gate, phase>>

\* LaunchOwner::prepare: preflight, execution lease, user start.  Its error or
\* panic ends the call with the responder bound before.
Prepare(c) ==
    /\ At(c, "launched")
    /\ \/ Become(c, [pc |-> "prepared", alive |-> TRUE])
       \/ \E why \in {"error", "panic"} : Sending(c, "failing", why, "error")
    /\ UNCHANGED <<gate, phase>>

(* A broken variant: the rejected body is dropped after the answer. *)
KeepsCaptures(c) == [alive |-> call[c].alive]
DropsCaptures(c) == [alive |-> FALSE]

\* PreparedLaunch::reserve: a refusal destroys the captures, then answers.
Reserve(c) ==
    /\ At(c, "prepared")
    /\ \/ Become(c, [pc |-> "reserved"])
       \/ Become(c, [pc |-> "failing", handle |-> FALSE, say |-> "error", completion |-> "error"]
                    @@ DropsCaptures(c))
    /\ UNCHANGED <<gate, phase>>

Commit(c) ==
    /\ At(c, "reserved")
    /\ Become(c, [pc |-> "task"])
    /\ UNCHANGED <<gate, phase>>

-----------------------------------------------------------------------------
(* The task.                                                                *)

\* A poll of a task that is not cancelled: the user future is ready.  It is
\* destroyed in place, where it can still panic, before anything is answered.
Evaluate(c) ==
    /\ At(c, "task")
    /\ ~call[c].flag
    /\ \E got \in {"value", "error", "panic"} :
           Become(c, [pc |-> "evaluated", alive |-> FALSE, got |-> got])
    /\ UNCHANGED <<gate, phase>>

(* A broken variant: a finished evaluation is delivered without asking. *)
DeliversAnyway(c) == TRUE
TryStartDelivery(c) == call[c].decide = "running"

\* complete_evaluation, up to the callback.  A value whose conversion fails or
\* panics is answered as an error.
Complete(c) ==
    /\ At(c, "evaluated")
    /\ IF ~TryStartDelivery(c) THEN Sending(c, "sending", "na", "cancelled")
       ELSE \E say \in IF call[c].got = "value" THEN {"value", "error", "panic"} ELSE {call[c].got} :
                Become(c, [pc |-> "sending", handle |-> FALSE, say |-> say,
                           decide |-> IF call[c].decide = "running" THEN "delivering" ELSE call[c].decide,
                           completion |-> IF say = "value" THEN "success" ELSE "error"])
    /\ UNCHANGED <<gate, phase>>

(* A broken variant: the fallback does not look whether the handle is spent. *)
FallbackAlways(c) == TRUE
(* Another: a task the executor abandons without cancelling it gets no answer. *)
FallbackIfCancelled(c) == call[c].handle /\ call[c].flag
FallbackDue(c) == call[c].handle

\* AsyncUdfTask::drop and AsyncDelivery::fallback.  The executor destroys a
\* task it completed, one whose poll saw the cancellation, or one it abandons.
Destroy(c) ==
    /\ call[c].pc \in {"task", "sent"}
    /\ \E panicked \in IF call[c].alive THEN BOOLEAN ELSE {FALSE} :
       IF FallbackDue(c)
       THEN Become(c, [pc |-> "sending", handle |-> FALSE, alive |-> FALSE,
                       say |-> IF panicked /\ ~call[c].flag THEN "panic" ELSE "na",
                       completion |-> IF call[c].flag THEN "cancelled" ELSE "error"])
       ELSE Become(c, [pc |-> "dropping", alive |-> FALSE])
    /\ UNCHANGED <<gate, phase>>

\* CompletionGuard: accounting ends after the answer and the destructors.
Release(c) ==
    /\ At(c, "dropping")
    /\ Become(c, [pc |-> "done"])
    /\ UNCHANGED <<gate, phase>>

-----------------------------------------------------------------------------
(* async_return: callback admission, then Excel, which may reject.          *)

EnterCallback(c) ==
    /\ call[c].pc \in {"sending", "failing"}
    /\ LET launch == At(c, "failing") IN
       Become(c, IF gate = "open"
                 THEN [pc |-> IF launch THEN "failcall" ELSE "calling", returns |-> call[c].returns + 1]
                 ELSE [pc |-> IF launch THEN "done" ELSE "sent", outcome |-> "suppressed"])
    /\ UNCHANGED <<gate, phase>>

(* A broken variant: a failed delivery leaves the handle to the fallback. *)
RearmsHandle(accepted) == ~accepted
HandleAfter(accepted) == FALSE

ExcelAnswers(c) ==
    /\ call[c].pc \in {"calling", "failcall"}
    /\ \E accepted \in BOOLEAN :
       Become(c, [pc |-> IF At(c, "failcall") THEN "done" ELSE "sent",
                  handle |-> HandleAfter(accepted),
                  told |-> IF accepted THEN call[c].say ELSE None,
                  outcome |-> IF accepted THEN "delivered" ELSE "rejected",
                  decide |-> IF call[c].decide = "delivering" THEN "done" ELSE call[c].decide])
    /\ UNCHANGED <<gate, phase>>

-----------------------------------------------------------------------------
(* Cancellation of a counted task, and the closing thread: no new calls,    *)
(* launches drained, tasks cancelled and drained, then callbacks closed.    *)

(* A broken variant: a task that was already spawned is not cancelled. *)
ReachesReserved(c) == At(c, "reserved")
Reaches(c) == call[c].pc \in {"reserved"} \cup Running

Cancel(c) ==
    /\ Reaches(c)
    /\ ~call[c].flag
    /\ Become(c, [flag |-> TRUE,
                  decide |-> IF call[c].decide = "running" THEN "cancelled" ELSE call[c].decide])
    /\ UNCHANGED <<gate, phase>>

Seal == phase = "open" /\ phase' = "sealed" /\ UNCHANGED <<call, gate>>

DrainCalls ==
    /\ phase = "sealed"
    /\ \A c \in Calls : call[c].pc \notin Launching
    /\ phase' = "cancelling"
    /\ UNCHANGED <<call, gate>>

(* A broken variant: cancelled tasks are taken for stopped tasks. *)
CancelledIsDrained == \A c \in Calls : call[c].pc \in Running => call[c].flag
TasksDrained == \A c \in Calls : call[c].pc \notin Running

DrainTasks ==
    /\ phase = "cancelling"
    /\ TasksDrained
    /\ phase' = "drained"
    /\ UNCHANGED <<call, gate>>

CloseCallbacks ==
    /\ phase = "drained"
    /\ gate' = "closed" /\ phase' = "closed"
    /\ UNCHANGED call

Finished ==
    /\ phase = "closed"
    /\ \A c \in Calls : call[c].pc \in {"done", "refused"}
    /\ UNCHANGED vars

Step(c) == \/ Enter(c) \/ LayersRefuse(c) \/ MakeResponder(c) \/ Prepare(c) \/ Reserve(c) \/ Commit(c)
           \/ Evaluate(c) \/ Complete(c) \/ Destroy(c) \/ Release(c)
           \/ EnterCallback(c) \/ ExcelAnswers(c)
Next == (\E c \in Calls : Step(c) \/ Cancel(c)) \/ Seal \/ DrainCalls \/ DrainTasks \/ CloseCallbacks
        \/ Finished

Spec == Init /\ [][Next]_vars

(* Fairness: a launch runs to its end on the calling thread, Excel returns  *)
(* from a callback, and shutdown cancels what runs.  A task ends by itself  *)
(* only if it is woken: the executor is fair to cancelled or finished ones. *)
ShutdownCancels(c) == phase = "cancelling" /\ Cancel(c)
FairStep(c) == At(c, "task") => call[c].flag
Fairness ==
   /\ \A c \in Calls : WF_vars(~At(c, "outside") /\ FairStep(c) /\ Step(c))
   /\ \A c \in Calls : WF_vars(ShutdownCancels(c))
   /\ WF_vars(DrainCalls) /\ WF_vars(DrainTasks) /\ WF_vars(CloseCallbacks)

LiveSpec == Spec /\ Fairness

-----------------------------------------------------------------------------
\* The shape of a call's record.
TypeOK ==
    /\ call \in [Calls -> [pc : {"outside", "refused", "done"} \cup Launching \cup Running,
                           handle : BOOLEAN, alive : BOOLEAN, flag : BOOLEAN,
                           decide : {"running", "cancelled", "delivering", "done"},
                           got : {None, "value", "error", "panic"},
                           say : {None, "value", "error", "panic", "na"},
                           told : {None, "value", "error", "panic", "na"},
                           outcome : {None, "delivered", "rejected", "suppressed"},
                           completion : {None, "success", "error", "cancelled"},
                           returns : 0..2]]
    /\ gate \in {"open", "closed"}
    /\ phase \in {"open", "sealed", "cancelling", "drained", "closed"}

\* Excel is called back at most once for a call, whatever the order of
\* completion, rejection by Excel, cancellation, panic and destruction.
AtMostOneReturn == \A c \in Calls : call[c].returns <= 1

\* A call that ended and whose handle parses made its one delivery attempt:
\* no exit path of launch or task forgets the waiting cell.
NoHandleForgotten ==
    \A c \in Calls : At(c, "done") /\ c \notin Malformed =>
        ~call[c].handle /\ call[c].outcome # None

\* User captures and the user future are destroyed before Excel is called
\* back and the call is observed to complete.
CapturesDieFirst ==
    \A c \in Calls : call[c].pc \in {"calling", "failcall"} => ~call[c].alive

\* Cancellation that won the race is final: the cell gets #N/A or an error and
\* the observation "cancelled", never a value; and success is reported only
\* for a call whose value was sent.
AnswerMatchesDecision ==
    \A c \in Calls :
        /\ call[c].decide = "cancelled" => call[c].say # "value"
        /\ call[c].completion = "success" => call[c].say = "value"
        /\ call[c].completion = "cancelled" => call[c].say = "na"

\* Shutdown closes the callback gate only when nobody needs it: an answer is
\* never suppressed, so every admitted call reaches Excel.
NothingSuppressed == \A c \in Calls : call[c].outcome # "suppressed"

\* A call that was admitted ends, and shutdown completes, once closing began.
CloseAnswersEveryCall ==
    \A c \in Calls : (phase # "open" /\ ~At(c, "outside")) ~> (call[c].pc \in {"done", "refused"})
ShutdownCompletes == (phase = "sealed") ~> (phase = "closed")
=============================================================================
