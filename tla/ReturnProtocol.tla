--------------------------- MODULE ReturnProtocol ---------------------------
(***************************************************************************)
(* How the result of a synchronous worksheet function crosses to Excel and *)
(* comes back: return_abi.rs (the boundary), return_abi/slot.rs (one       *)
(* inline block per thread), detached_scalar.rs (one root per thread for   *)
(* primitives), numeric.rs (FP12 results kept until the next outer call),  *)
(* ownership.rs and runtime_components/return_protocol.rs (the obligations *)
(* that keep the module loaded).                                           *)
(*                                                                         *)
(* A thread is a stack of calls: user code, the layers that see the        *)
(* outcome and the teardown of a call may all make Excel call a worksheet  *)
(* function again on the same thread.  Excel reads a result before the     *)
(* same thread goes on, and frees a block that asks for it later, from any *)
(* thread.  Managers close, wait for, reopen and certify the returns.      *)
(***************************************************************************)
EXTENDS Naturals, Sequences, FiniteSets

CONSTANTS Threads,        \* calculation threads of Excel
          Managers,       \* threads that open and close the add-in
          MaxCalls,       \* worksheet calls in a behaviour
          MaxDepth,       \* calls on the stack of a thread
          MaxReopens      \* reopenings of the return admission

VARIABLES stack,          \* calls of a thread, the innermost last
          reading,        \* the result Excel got on a thread and has not read yet
          slot,           \* RETURN_BLOCK_SLOT of a thread: its state and its block
          heap,           \* blocks that live on the heap
          root,           \* the call whose primitive is in the root of a thread
          epochs,         \* FP12 results published by a thread since its last outer call
          owed,           \* blocks Excel has read and must give to xlAutoFree12
          freeing,        \* the block whose xlAutoFree12 callback runs on a thread
          gate,           \* obligations that are counted, and whether admission is closed
          managers,       \* what a manager does, the epoch of its certificate
          admission,      \* the current admission epoch; reopenings so far
          module,         \* whether the exports are open, and whether the module is mapped
          calls           \* worksheet calls so far

vars == <<stack, reading, slot, heap, root, epochs, owed, freeing, gate, managers, admission,
          module, calls>>

Ids == 0..MaxCalls
None == [id |-> 0, kind |-> "none", place |-> "none"]
SlotStates == {"Vacant", "Published", "Poisoned"}
Frame == [id : Ids, abi : {"value", "numeric"}, at : {"admitted", "body", "made", "out"},
          kind : {"none", "scalar", "block", "fp12", "null"}, place : {"none", "slot", "heap"}]
Result == [id : Ids, kind : {"none", "scalar", "block", "fp12", "null", "closing"},
           place : {"none", "slot", "heap"}]

Init ==
  /\ stack = [t \in Threads |-> <<>>]
  /\ reading = [t \in Threads |-> None]
  /\ slot = [t \in Threads |-> [state |-> "Vacant", block |-> 0]]
  /\ heap = {} /\ owed = {}
  /\ root = [t \in Threads |-> 0]
  /\ epochs = [t \in Threads |-> {}]
  /\ freeing = [t \in Threads |-> 0]
  /\ gate = [sealed |-> TRUE, active |-> 0]
  /\ managers = [m \in Managers |-> [at |-> "idle", epoch |-> 0, reopens |-> 0, fresh |-> TRUE]]
  /\ admission = [epoch |-> 0, reopens |-> 0]
  /\ module = [exports |-> "closed", mapped |-> TRUE]
  /\ calls = 0

Top(t) == stack[t][Len(stack[t])]
Pop(t) == [stack EXCEPT ![t] = SubSeq(@, 1, Len(@) - 1)]
Replace(t, frame) == [stack EXCEPT ![t][Len(stack[t])] = frame]
\* Excel runs on the thread: between calls, or inside one that called back into it.
InExcel(t) == /\ reading[t] = None /\ freeing[t] = 0
              /\ stack[t] # <<>> => Top(t).at # "admitted"
Rejected(abi) == [None EXCEPT !.kind = IF abi = "value" THEN "closing" ELSE "null"]

-----------------------------------------------------------------------------
(* A broken variant: every entry reclaims, nested ones too. *)
EveryEntry(t) == TRUE
\* Fp12CallGuard::enter: only an outer entry shows that Excel has read the last epoch.
StartsEpoch(t) == stack[t] = <<>>

(* sync_boundary: numeric nesting first, then the exports and the generation; a call that *)
(* is not admitted gets the permanent error root or null. *)
Enter(t, abi) ==
  /\ InExcel(t) /\ module.mapped /\ Len(stack[t]) < MaxDepth /\ calls < MaxCalls
  /\ calls' = calls + 1
  /\ epochs' = IF StartsEpoch(t) THEN [epochs EXCEPT ![t] = {}] ELSE epochs
  /\ IF module.exports = "open"
     THEN /\ stack' = [stack EXCEPT ![t] = Append(@, [id |-> calls', abi |-> abi, at |-> "admitted",
                                                      kind |-> "none", place |-> "none"])]
          /\ UNCHANGED reading
     ELSE reading' = [reading EXCEPT ![t] = Rejected(abi)] /\ UNCHANGED stack
  /\ UNCHANGED <<slot, heap, root, owed, freeing, gate, managers, admission, module>>

(* enter_return_producer: the call takes its obligation, or leaves as if it had not been *)
(* admitted because the returns were closed meanwhile. *)
EnterProducer(t) ==
  /\ stack[t] # <<>> /\ Top(t).at = "admitted"
  /\ IF gate.sealed
     THEN /\ reading' = [reading EXCEPT ![t] = Rejected(Top(t).abi)]
          /\ stack' = Pop(t) /\ UNCHANGED gate
     ELSE /\ stack' = Replace(t, [Top(t) EXCEPT !.at = "body"])
          /\ gate' = [gate EXCEPT !.active = @ + 1] /\ UNCHANGED reading
  /\ UNCHANGED <<slot, heap, root, epochs, owed, freeing, managers, admission, module, calls>>

(* sync_boundary_inner: the body returns, fails or panics, and its value is converted.  An *)
(* FP12 result is linked into the epoch of the thread here, before the layers see the *)
(* outcome; an error is a primitive or null. *)
Prepare(t, kind) ==
  /\ stack[t] # <<>> /\ Top(t).at = "body" /\ InExcel(t)
  /\ kind \in IF Top(t).abi = "value" THEN {"scalar", "block"} ELSE {"fp12", "null"}
  /\ stack' = Replace(t, [Top(t) EXCEPT !.at = "made", !.kind = kind])
  /\ epochs' = IF kind = "fp12" THEN [epochs EXCEPT ![t] = @ \cup {Top(t).id}] ELSE epochs
  /\ UNCHANGED <<reading, slot, heap, root, owed, freeing, gate, managers, admission, module, calls>>

(* A broken variant: a block that Excel has not freed yet is written over. *)
ReusesPublished(t) == slot[t].state \in {"Vacant", "Published"}
\* ReturnBlockSlot::try_reserve
Reservable(t) == slot[t].state = "Vacant"

(* A broken variant: the obligation ends with the call although its block lives on. *)
EndsWithCall(kind) == 1
\* What publication gives back: only a block takes its obligation along.
Discharged(kind) == IF kind = "block" THEN 0 ELSE 1

(* B::publish: an owned value moves into the slot of the thread or to the heap, with its *)
(* obligation; a primitive stays private until Finish. *)
Publish(t) ==
  /\ stack[t] # <<>> /\ Top(t).at = "made" /\ InExcel(t)
  /\ LET kind == Top(t).kind
         id == Top(t).id
         place == IF kind # "block" THEN "none" ELSE IF Reservable(t) THEN "slot" ELSE "heap"
     IN /\ stack' = Replace(t, [Top(t) EXCEPT !.at = "out", !.place = place])
        /\ slot' = IF place = "slot"
                   THEN [slot EXCEPT ![t] = [state |-> "Published", block |-> id]] ELSE slot
        /\ heap' = IF place = "heap" THEN heap \cup {id} ELSE heap
        /\ gate' = [gate EXCEPT !.active = @ - Discharged(kind)]
  /\ UNCHANGED <<reading, root, epochs, owed, freeing, managers, admission, module, calls>>

(* B::finish: the call and its guards are gone; a primitive is written to the root of the *)
(* thread last of all. *)
Finish(t) ==
  /\ stack[t] # <<>> /\ Top(t).at = "out" /\ InExcel(t)
  /\ root' = IF Top(t).kind = "scalar" THEN [root EXCEPT ![t] = Top(t).id] ELSE root
  /\ reading' = [reading EXCEPT ![t] =
                   [id |-> Top(t).id, kind |-> Top(t).kind, place |-> Top(t).place]]
  /\ stack' = Pop(t)
  /\ UNCHANGED <<slot, heap, epochs, owed, freeing, gate, managers, admission, module, calls>>

-----------------------------------------------------------------------------
(* Excel reads the result; a block asks to be freed. *)
ExcelReads(t) ==
  /\ reading[t] # None
  /\ owed' = IF reading[t].kind = "block"
             THEN owed \cup {[id |-> reading[t].id, of |-> t, place |-> reading[t].place]} ELSE owed
  /\ reading' = [reading EXCEPT ![t] = None]
  /\ UNCHANGED <<stack, slot, heap, root, epochs, freeing, gate, managers, admission, module, calls>>

(* free_return_boundary: the obligation is taken out of the block before the block is *)
(* destroyed, in place on its own thread, blindly on another; a destructor that panics *)
(* poisons the slot, a free from another thread leaves it taken. *)
BeginFree(t, b, panics) ==
  /\ b \in owed /\ InExcel(t)
  /\ owed' = owed \ {b}
  /\ heap' = heap \ {b.id}
  /\ slot' = IF b.place = "slot" /\ b.of = t
             THEN [slot EXCEPT ![t] = [state |-> IF panics THEN "Poisoned" ELSE "Vacant", block |-> 0]]
             ELSE IF b.place = "slot" THEN [slot EXCEPT ![b.of].block = 0] ELSE slot
  /\ freeing' = [freeing EXCEPT ![t] = b.id]
  /\ UNCHANGED <<stack, reading, root, epochs, gate, managers, admission, module, calls>>

(* The guard of the callback is dropped: the obligation ends with the callback. *)
EndFree(t) ==
  /\ freeing[t] # 0
  /\ freeing' = [freeing EXCEPT ![t] = 0]
  /\ gate' = [gate EXCEPT !.active = @ - 1]
  /\ UNCHANGED <<stack, reading, slot, heap, root, epochs, owed, managers, admission, module, calls>>

-----------------------------------------------------------------------------
\* ReturnProtocol.admission_epoch is held by a manager that waits for quiescence.
Locked == \E m \in Managers : managers[m].at = "waiting"
NextEpoch == admission.reopens + 2
Moves(m, at) == managers' = [managers EXCEPT ![m].at = at]
data == <<stack, reading, slot, heap, root, epochs, owed, freeing, calls>>

(* ReturnProtocol::reopen_admission; the exports are opened after it. *)
Reopen(m) ==
  /\ managers[m].at = "idle" /\ ~Locked /\ module.mapped
  /\ gate.sealed /\ gate.active = 0 /\ admission.reopens < MaxReopens
  /\ gate' = [gate EXCEPT !.sealed = FALSE]
  /\ admission' = [epoch |-> NextEpoch, reopens |-> admission.reopens + 1]
  /\ module' = [module EXCEPT !.exports = "open"]
  /\ UNCHANGED <<managers, data>>

(* ReturnProtocol::close_admission; the exports were closed before it, and calls that had *)
(* passed them may still be on their way. *)
Close(m) ==
  /\ managers[m].at = "idle" /\ ~Locked /\ module.mapped
  /\ module' = [module EXCEPT !.exports = "closed"]
  /\ gate' = [gate EXCEPT !.sealed = TRUE]
  /\ admission' = [admission EXCEPT !.epoch = IF @ = 0 THEN 1 ELSE @]
  /\ managers' = [managers EXCEPT ![m] = [at |-> "closed", epoch |-> admission'.epoch,
                                          reopens |-> admission.reopens, fresh |-> TRUE]]
  /\ UNCHANGED data

(* ClosedReturns::wait: refused when admission was opened since the seal. *)
Wait(m) ==
  /\ managers[m].at = "closed" /\ ~Locked
  /\ Moves(m, IF managers[m].epoch = admission.epoch /\ gate.sealed THEN "waiting" ELSE "idle")
  /\ UNCHANGED <<gate, admission, module, data>>
Waited(m) ==
  /\ managers[m].at = "waiting" /\ gate.active = 0
  /\ Moves(m, "drained")
  /\ UNCHANGED <<gate, admission, module, data>>

(* A broken variant: a certificate of an earlier epoch is as good as a fresh one. *)
AnyEpoch(m) == gate.sealed /\ gate.active = 0
\* ReturnsDrained::matches
Matches(m) == managers[m].epoch = admission.epoch /\ gate.sealed /\ gate.active = 0

(* The certificate is spent: the claim is finished, and once no export runs the module may *)
(* be unmapped. *)
Spend(m, unmap) ==
  /\ managers[m].at = "drained" /\ ~Locked
  /\ managers' = [managers EXCEPT ![m].at = IF Matches(m) THEN "spent" ELSE "idle",
                                  ![m].fresh = @ /\ managers[m].reopens = admission.reopens]
  /\ unmap => Matches(m) /\ module.exports = "closed" /\ \A t \in Threads : stack[t] = <<>>
  /\ module' = [module EXCEPT !.mapped = @ /\ ~unmap]
  /\ UNCHANGED <<gate, admission, data>>
Again(m) == managers[m].at = "spent" /\ Moves(m, "idle") /\ UNCHANGED <<gate, admission, module, data>>

Next ==
  \/ \E t \in Threads :
       \/ \E abi \in {"value", "numeric"} : Enter(t, abi)
       \/ \E kind \in {"scalar", "block", "fp12", "null"} : Prepare(t, kind)
       \/ EnterProducer(t) \/ Publish(t) \/ Finish(t) \/ ExcelReads(t) \/ EndFree(t)
       \/ \E b \in owed, panics \in BOOLEAN : BeginFree(t, b, panics)
  \/ \E m \in Managers :
       \/ Reopen(m) \/ Close(m) \/ Wait(m) \/ Waited(m) \/ Again(m)
       \/ \E unmap \in BOOLEAN : Spend(m, unmap)
Spec == Init /\ [][Next]_vars

-----------------------------------------------------------------------------
TypeOK ==
  /\ \A t \in Threads :
       /\ stack[t] \in Seq(Frame) /\ reading[t] \in Result /\ root[t] \in Ids
       /\ slot[t] \in [state : SlotStates, block : Ids]
       /\ epochs[t] \subseteq Ids /\ freeing[t] \in Ids
  /\ heap \subseteq Ids /\ owed \subseteq [id : Ids, of : Threads, place : {"slot", "heap"}]
  /\ gate \in [sealed : BOOLEAN, active : 0..MaxCalls]

Denotes(t, r) ==
  /\ r.kind = "scalar" => root[t] = r.id
  /\ r.kind = "fp12" => r.id \in epochs[t]
  /\ r.kind = "block" => IF r.place = "slot" THEN slot[t] = [state |-> "Published", block |-> r.id]
                         ELSE r.id \in heap

(* Whatever was called, published or freed in between, on whichever thread: the pointer *)
(* that Excel has not read yet, or has read and must still free, denotes the value that the *)
(* call returned, and so does what a call on the stack has already published. *)
ResultsAreIntact ==
  /\ \A t \in Threads : Denotes(t, reading[t])
  /\ \A b \in owed : Denotes(b.of, [id |-> b.id, kind |-> "block", place |-> b.place])
  /\ \A t \in Threads : \A i \in 1..Len(stack[t]) :
       LET f == stack[t][i] IN
         f.kind = "fp12" \/ (f.kind = "block" /\ f.at = "out") => Denotes(t, f)

Frames(ok(_)) == {<<t, i>> \in Threads \X (1..MaxDepth) : i <= Len(stack[t]) /\ ok(stack[t][i])}
(* The gate counts exactly the calls that may still publish, the blocks Excel has not given *)
(* back and the callbacks that free one. *)
ObligationsExact ==
  gate.active = Cardinality(Frames(LAMBDA f : f.at \in {"body", "made"} \/ f.kind = "block"))
                + Cardinality({t \in Threads : reading[t].kind = "block"})
                + Cardinality(owed) + Cardinality({t \in Threads : freeing[t] # 0})

(* A certificate that was accepted is of the epoch that it drained: admission was not *)
(* reopened in between. And an unmapped module has no call, block or callback left. *)
CertificateIsFresh ==
  /\ \A m \in Managers : managers[m].at = "spent" => managers[m].fresh
  /\ ~module.mapped => gate.active = 0 /\ owed = {} /\ \A t \in Threads :
       stack[t] = <<>> /\ freeing[t] = 0 /\ reading[t].kind # "block"
=============================================================================
