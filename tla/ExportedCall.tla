----------------------------- MODULE ExportedCall ----------------------------
(***************************************************************************)
(* One synchronous call of an exported worksheet function, from the ABI    *)
(* boundary that the macros generate to the pointer that Excel gets:       *)
(* __private.rs (the entry points and the call frame), return_abi.rs (the  *)
(* boundary), execution.rs (layers), call.rs (call storage and handle      *)
(* permits), value/input.rs (argument and call contexts), call_return/     *)
(* (how a result becomes a payload) and panic_boundary.rs.  Calculation    *)
(* events cross a smaller boundary of their own.                           *)
(*                                                                         *)
(* Everything that is released by a destructor is an entry of "held", in   *)
(* the order in which it was acquired.  User code (layers, conversions,    *)
(* the function itself, its result's conversion) may return, fail or panic *)
(* wherever it runs, and the handle service may be sealed at any time.     *)
(***************************************************************************)
EXTENDS Naturals, Sequences, FiniteSets, SequencesExt

CONSTANTS MaxLayers,     \* layers of the add-in
          MaxArguments,
          Domains        \* handle domains; an argument is a value or a handle of a domain

VARIABLES at,            \* where the call is
          fn,            \* the exported function
          held,          \* what the call will release, the latest last
          entered,       \* layers whose guards the call owns, or owned
          exits,         \* <<layer, outcome>>, in order
          prepared,      \* arguments that are converted
          recorded,      \* what the fingerprint of the inputs consists of
          permits,       \* Retained: the domains whose permits the storage keeps
          service,       \* the resolver's cell: unresolved, read, refused; and the slot
          result,        \* what the operation came to
          reports,       \* failures reported: <<kind, has a call id>>
          traces,        \* outcomes traced
          answer         \* what Excel gets

vars == <<at, fn, held, entered, exits, prepared, recorded, permits, service, result, reports,
          traces, answer>>

Kinds == {"value"} \cup Domains
Faults == {"Input", "Domain", "Internal", "Closing", "Panic"}
Outcomes == {"none", "ok"} \cup Faults
\* What a piece of user code does: it returns, fails in some way of its own, or panics.
Behaviours == {"ok", "Domain", "Panic"}
Flavours == {"plain", "new", "fresh", "alias", "numeric", "event"}
Functions ==
  [flavour : Flavours \ {"event"}, layers : 0..MaxLayers, trace : BOOLEAN,
   arguments : UNION {[1..n -> Kinds] : n \in 0..MaxArguments}]
  \cup {[flavour |-> "event", layers |-> 0, trace |-> FALSE, arguments |-> <<>>]}
IsFormula == fn.flavour \in {"new", "fresh", "alias"}
Nothing == [flavour |-> "event", layers |-> 0, trace |-> FALSE, arguments |-> <<>>]

Init ==
  /\ at = "idle" /\ fn = Nothing /\ held = <<>> /\ entered = <<>> /\ exits = <<>>
  /\ prepared = <<>> /\ recorded = <<>> /\ permits = <<>>
  /\ service = [cell |-> "unresolved", sealed |-> FALSE]
  /\ result = "none" /\ reports = <<>> /\ traces = <<>> /\ answer = "none"

Acquire(what) == held' = held \o what
Holds(what) == \E i \in 1..Len(held) : held[i] = what
inside == <<entered, exits, prepared, recorded, permits, service, traces>>

-----------------------------------------------------------------------------
(* export_value_boundary and sync_boundary: the nesting of numeric results is entered before *)
(* anything can refuse the call. *)
Call(f) ==
  /\ at = "idle" /\ fn' = f /\ at' = "ingress"
  /\ Acquire(IF f.flavour = "event" THEN <<>> ELSE <<"numeric">>)
  /\ UNCHANGED <<inside, result, reports, answer>>

\* report_sync_failure with no call id, then B::rejected; an event reports nothing.
Refused ==
  /\ reports' = IF fn.flavour = "event" THEN reports ELSE Append(reports, <<"Closing", FALSE>>)
  /\ answer' = CASE fn.flavour = "event" -> "none" [] fn.flavour = "numeric" -> "null"
                 [] OTHER -> "closing"
  /\ at' = "teardown" /\ UNCHANGED held
Admitted(step, what, next) ==
  /\ at = step /\ Acquire(what) /\ at' = next /\ UNCHANGED <<reports, answer>>

(* enter_udf_with, then Runtime::enter, then enter_return_producer; an event runs after the *)
(* first two. *)
Ingress(ok) ==
  /\ at = "ingress" /\ UNCHANGED <<fn, inside, result>>
  /\ IF ok THEN Admitted("ingress", <<"ingress", "external">>, "admission") ELSE Refused
Admission(ok) ==
  /\ at = "admission" /\ UNCHANGED <<fn, inside, result>>
  /\ IF ok THEN Admitted("admission", <<"call">>, IF fn.flavour = "event" THEN "event" ELSE "producer")
     ELSE Refused
Producer(ok) ==
  /\ at = "producer" /\ UNCHANGED <<fn, inside, result>>
  /\ IF ok THEN Admitted("producer", <<"producer">>, "layers") ELSE Refused

(* ffi_boundary_void: cancel_async_calculation or end_calculation; a panic ends here. *)
Event ==
  /\ at = "event" /\ at' = "teardown"
  /\ UNCHANGED <<fn, held, inside, result, reports, answer>>

-----------------------------------------------------------------------------
(* enter_layers: safe_enter one layer after another. *)
EnterLayer(how) ==
  /\ at = "layers" /\ Len(entered) < fn.layers
  /\ IF how = "ok"
     THEN entered' = Append(entered, Len(entered) + 1) /\ UNCHANGED <<at, result>>
     ELSE result' = how /\ at' = "undo" /\ UNCHANGED entered
  /\ UNCHANGED <<fn, held, exits, prepared, recorded, permits, service, reports, traces, answer>>

\* Guards that have not been asked to leave, the last one first (impl_udf_layers_exit);
\* safe_exit contains what a guard does.
Remaining == LET order == Reverse(entered) IN SubSeq(order, Len(exits) + 1, Len(order))
ExitNext == exits' = Append(exits, <<Head(Remaining), result>>)
Reported(kind) == reports' = Append(reports, <<kind, TRUE>>)
(* The refusal of a layer: the earlier guards leave with the error, the failure is reported *)
(* and traced, and the function is never called. *)
UndoLayers ==
  /\ at = "undo"
  /\ IF Remaining # <<>> THEN ExitNext /\ UNCHANGED <<at, reports, traces, answer>>
     ELSE /\ Reported(result) /\ at' = "publish" /\ UNCHANGED exits
          /\ traces' = IF fn.trace THEN Append(traces, result) ELSE traces
          /\ answer' = IF fn.flavour = "numeric" THEN "null" ELSE "error"
  /\ UNCHANGED <<fn, held, entered, prepared, recorded, permits, service, result>>

-----------------------------------------------------------------------------
(* with_excel_callback_scope_and_call and CallFrame::new: the callback session, the storage *)
(* (its permits are dropped before its scratch) and the frame with the service resolver. *)
Scope ==
  /\ at = "layers" /\ Len(entered) = fn.layers
  /\ Acquire(<<"session", "scratch", "permits", "frame">>) /\ at' = "arguments"
  /\ UNCHANGED <<fn, inside, result, reports, answer>>

\* The operation ends with a fault: everything it acquired is released, the latest first.
Fails(kind) == result' = kind /\ at' = "leave"

\* FormulaHandleServiceResolver::get: the first answer is kept.
Resolved ==
  IF service.cell # "unresolved" THEN service
  ELSE [service EXCEPT !.cell = IF service.sealed THEN "refused" ELSE "read"]

\* CallStorage::enter_handle_domain: a domain is entered once for the call.
Retains(d) == IF \E i \in 1..Len(permits) : permits[i] = d THEN permits ELSE Append(permits, d)

(* prepare_argument and its kin: a value is converted; a handle is looked up in the service *)
(* under a permit of its domain.  A formula's inputs are recorded in order. *)
Argument(how) ==
  /\ at = "arguments" /\ Len(prepared) < Len(fn.arguments)
  /\ LET kind == fn.arguments[Len(prepared) + 1] IN
       /\ service' = IF kind = "value" THEN service ELSE Resolved
       /\ permits' = IF kind # "value" /\ service'.cell = "read" THEN Retains(kind) ELSE permits
       /\ IF kind # "value" /\ service'.cell = "refused"
          THEN Fails("Closing") /\ UNCHANGED <<prepared, recorded>>
          ELSE IF how # "ok" THEN Fails(how) /\ UNCHANGED <<prepared, recorded>>
          ELSE /\ prepared' = Append(prepared, kind) /\ UNCHANGED <<at, result>>
               /\ recorded' = IF IsFormula THEN Append(recorded, kind) ELSE recorded
  /\ UNCHANGED <<fn, held, entered, exits, reports, traces, answer>>

(* return_context: the frame becomes the return context, which keeps what the resolver has *)
(* read; set_handle_reuse(false) makes the revision one of its own, unless the ids are used up. *)
Finish(how) ==
  /\ at = "arguments" /\ Len(prepared) = Len(fn.arguments)
  /\ held' = [held EXCEPT ![Len(held)] = "context"]
  /\ IF fn.flavour = "fresh" /\ how # "ok"
     THEN Fails("Internal") /\ UNCHANGED recorded
     ELSE /\ at' = (IF IsFormula THEN "lookup" ELSE "materialize") /\ UNCHANGED result
          /\ recorded' = IF fn.flavour = "fresh" THEN Append(recorded, "invocation") ELSE recorded
  /\ UNCHANGED <<fn, entered, exits, prepared, permits, service, reports, traces, answer>>

(* publish_new_handle and publish_existing_alias: the service, the key of the revision (a host *)
(* callback), then for a new handle a look at what the formula has already. *)
Lookup(how, known) ==
  /\ at = "lookup" /\ service' = Resolved
  /\ IF service'.cell = "refused" THEN Fails("Closing")
     ELSE IF how # "ok" THEN Fails("Internal")
     ELSE /\ at' = (IF fn.flavour = "new" /\ known THEN "encode" ELSE "materialize")
          /\ UNCHANGED result
  /\ UNCHANGED <<fn, held, entered, exits, prepared, recorded, permits, reports, traces, answer>>

(* The operation: prepared arguments are materialized, the function is called, its result is *)
(* published or converted, and the payload is prepared for the ABI. *)
Runs(step, next, how) ==
  /\ at = step
  /\ IF how = "ok" THEN at' = next /\ UNCHANGED result ELSE Fails(how)
  /\ UNCHANGED <<fn, held, inside, reports, answer>>
Materialize(how) == Runs("materialize", "body", how)
Body(how) == Runs("body", "encode", how)
Encode(how) ==
  /\ at = "encode" /\ Fails(how)
  /\ UNCHANGED <<fn, held, inside, reports, answer>>

-----------------------------------------------------------------------------
(* The closure returns or unwinds: destructors in reverse order. *)
Leave ==
  /\ at = "leave" /\ Holds("session")
  /\ held' = Front(held)
  /\ permits' = IF Last(held) = "permits" THEN <<>> ELSE permits
  /\ service' = IF Last(held) \in {"frame", "context"} THEN [service EXCEPT !.cell = "unresolved"]
                ELSE service
  /\ UNCHANGED <<at, fn, entered, exits, prepared, recorded, result, reports, traces, answer>>

(* catch_udf_no_unwind has returned: a panic or a failure is reported, once, before the layers *)
(* see it. *)
Caught ==
  /\ at = "leave" /\ ~Holds("session")
  /\ IF result = "ok" THEN UNCHANGED reports ELSE Reported(result)
  /\ at' = "exit"
  /\ UNCHANGED <<fn, held, inside, result, answer>>

(* exit_layers, trace, and the value or B::error. *)
ExitLayer ==
  /\ at = "exit" /\ Remaining # <<>> /\ ExitNext
  /\ UNCHANGED <<at, fn, held, entered, prepared, recorded, permits, service, result, reports,
                 traces, answer>>
Traced ==
  /\ at = "exit" /\ Remaining = <<>>
  /\ traces' = IF fn.trace THEN Append(traces, result) ELSE traces
  /\ answer' = IF result = "ok" THEN "value" ELSE IF fn.flavour = "numeric" THEN "null" ELSE "error"
  /\ at' = "publish"
  /\ UNCHANGED <<fn, held, entered, exits, prepared, recorded, permits, service, result, reports>>

(* B::publish consumes the producer; then the call, the observation, and after the handoff of *)
(* the root the ingress and the nesting. *)
Publish ==
  /\ at = "publish" /\ held' = SelectSeq(held, LAMBDA g : g # "producer") /\ at' = "teardown"
  /\ UNCHANGED <<fn, inside, result, reports, answer>>
Teardown ==
  /\ at = "teardown" /\ held # <<>>
  /\ held' = Front(held)
  /\ UNCHANGED <<at, fn, inside, result, reports, answer>>
Return ==
  /\ at = "teardown" /\ held = <<>> /\ at' = "done"
  /\ UNCHANGED <<fn, held, inside, result, reports, answer>>

(* The teardown of the call runs code that may panic: export_value_boundary answers with the *)
(* detached error, export_numeric_boundary with null. *)
Escapes ==
  /\ at = "teardown" /\ held # <<>> /\ Last(held) = "call"
  /\ held' = Front(held)
  /\ answer' = CASE fn.flavour = "event" -> "none" [] fn.flavour = "numeric" -> "null"
                 [] OTHER -> "closing"
  /\ result' = "Panic"
  /\ UNCHANGED <<at, fn, inside, reports>>

\* The service slot is sealed by a shutdown that waits for the reads it has given out.
Seal ==
  /\ at \notin {"idle", "done"} /\ ~service.sealed
  /\ service' = [service EXCEPT !.sealed = TRUE]
  /\ UNCHANGED <<at, fn, held, entered, exits, prepared, recorded, permits, result, reports,
                 traces, answer>>

Next ==
  \/ \E f \in Functions : Call(f)
  \/ \E ok \in BOOLEAN : Ingress(ok) \/ Admission(ok) \/ Producer(ok)
  \/ \E how \in Behaviours :
       \/ EnterLayer(how) \/ Finish(how) \/ Materialize(how) \/ Body(how) \/ Encode(how)
       \/ \E known \in BOOLEAN : Lookup(how, known)
  \/ \E how \in {"ok", "Input", "Panic"} : Argument(how)
  \/ Event \/ UndoLayers \/ Scope \/ Leave \/ Caught \/ ExitLayer \/ Traced \/ Publish
  \/ Teardown \/ Return \/ Escapes \/ Seal
Spec == Init /\ [][Next]_vars

-----------------------------------------------------------------------------
TypeOK ==
  /\ fn \in Functions /\ result \in Outcomes
  /\ answer \in {"none", "value", "error", "closing", "null"}
  /\ service \in [cell : {"unresolved", "read", "refused"}, sealed : BOOLEAN]
  /\ Len(entered) <= MaxLayers /\ Len(exits) <= Len(entered) /\ Len(prepared) <= MaxArguments

UserCode == {"layers", "undo", "arguments", "lookup", "materialize", "body", "encode", "leave", "exit"}
Operation == {"arguments", "lookup", "materialize", "body", "encode"}
(* Whatever user code runs, it runs under the ingress, the generation, a return obligation and *)
(* the nesting of numeric results.  The function's own code runs only when every layer let the *)
(* call in and every argument was converted; its handles are covered by a read of the service *)
(* and by one permit for each of their domains, although the service may be sealed meanwhile; *)
(* a call that has begun to read the service is not cut off by that. *)
UserCodeIsCovered ==
  /\ at \in UserCode => \A g \in {"numeric", "ingress", "external", "call", "producer"} : Holds(g)
  /\ at \in Operation =>
       /\ Len(entered) = fn.layers /\ exits = <<>> /\ Holds("session") /\ Holds("scratch")
       /\ prepared = SubSeq(fn.arguments, 1, Len(prepared))
       /\ \A i \in 1..Len(prepared) : prepared[i] # "value" =>
            service.cell = "read" /\ Cardinality({k \in 1..Len(permits) : permits[k] = prepared[i]}) = 1
  /\ at \in {"materialize", "body", "encode"} => prepared = fn.arguments
  /\ at \in {"materialize", "body", "encode"} /\ IsFormula =>
       /\ service.cell = "read"
       /\ recorded = fn.arguments \o (IF fn.flavour = "fresh" THEN <<"invocation">> ELSE <<>>)
  /\ permits # <<>> => Holds("permits") /\ Holds("scratch")
  /\ at = "leave" /\ result = "Closing" => \A i \in 1..Len(prepared) : prepared[i] = "value"

(* Each layer that was entered leaves exactly once, the last one first, with the outcome of *)
(* the call or the refusal; no other layer is asked to; and Excel's answer waits for them. *)
LayersBalance ==
  /\ \A i \in 1..Len(exits) : exits[i][1] = entered[Len(entered) - i + 1]
  /\ answer # "none" => Len(exits) = Len(entered)
  /\ at # "teardown" /\ at # "done" => \A i \in 1..Len(exits) : exits[i][2] = result

(* Excel is answered exactly once and with the value only if all went well; a failure is *)
(* reported exactly once, with a call id once there is one, and traced as the layers saw it. *)
AnsweredOnce ==
  /\ at = "done" => held = <<>> /\ permits = <<>> /\ service.cell = "unresolved"
  /\ at = "done" /\ fn.flavour # "event" =>
       /\ answer = "value" => result = "ok" /\ reports = <<>>
       /\ result \in Faults \cup {"none"} => answer # "value"
       /\ result \in Faults /\ answer \in {"error", "null"} => Len(reports) <= 1
       /\ result = "none" => reports = <<<<"Closing", FALSE>>>>
  /\ Len(reports) <= 1 /\ Len(traces) <= 1
  /\ at = "publish" => /\ (result # "ok") = (reports = <<<<result, TRUE>>>>)
                       /\ traces = IF fn.trace THEN <<result>> ELSE <<>>
                       /\ (answer = "value") = (result = "ok")
=============================================================================
