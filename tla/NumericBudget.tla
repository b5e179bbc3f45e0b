---------------------------- MODULE NumericBudget ----------------------------
(***************************************************************************)
(* The memory of FP12 results and the three budgets it is charged to       *)
(* (return_abi/numeric.rs, numeric/process.rs): the counters of the        *)
(* process, which all loaded images share, those of the module image, and  *)
(* the bytes of the thread that published.  Every update of a counter is   *)
(* an atomic operation of its own: an operation leaves the ones that are   *)
(* still to come in pending, and other threads run in between.             *)
(*                                                                         *)
(* A block is none, reserved (charged, not yet allocated), owned by a      *)
(* builder or an output, published (Excel may read it), detached (being    *)
(* reclaimed by an outer call) or kept: memory that could not be freed, or *)
(* whose module or thread is gone.                                         *)
(***************************************************************************)
EXTENDS Integers, Sequences, FiniteSets, FiniteSetsExt

CONSTANTS Threads, Blocks,
          Sizes,                               \* bytes of a block
          ProcessLimit, ModuleLimit, ThreadLimit,
          MaxReloads                           \* times the module is unmapped and loaded again

VARIABLES blocks,      \* state, size and thread of a block
          ledger,      \* the counters of the process and of the module image
          threads,     \* bytes that a thread has published since its last outer call
          pending,     \* counter updates that a thread has still to make
          reloads
vars == <<blocks, ledger, threads, pending, reloads>>

ProcessCounters == {"reservedBytes", "reservedBuffers", "publishedBytes", "publishedBuffers"}
Counters == ProcessCounters \cup {"moduleBytes", "moduleBuffers"}
Empty == [state |-> "none", bytes |-> 0, of |-> "nobody", image |-> 0]

Init ==
  /\ blocks = [b \in Blocks |-> Empty]
  /\ ledger = [c \in Counters |-> 0]
  /\ threads = [t \in Threads |-> 0]
  /\ pending = [t \in Threads |-> <<>>]
  /\ reloads = 0

Add(c, n) == [of |-> c, by |-> n]
Idle(t) == pending[t] = <<>>
\* Nothing of an earlier operation of the thread is left to do.
Free(t) == Idle(t) /\ \A b \in Blocks : blocks[b].state = "detached" => blocks[b].of # t
Set(b, state) == [blocks EXCEPT ![b].state = state]

(* The next counter update of the thread. *)
Update(t) ==
  /\ ~Idle(t)
  /\ ledger' = [ledger EXCEPT ![Head(pending[t]).of] = @ + Head(pending[t]).by]
  /\ pending' = [pending EXCEPT ![t] = Tail(@)]
  /\ UNCHANGED <<blocks, threads, reloads>>

-----------------------------------------------------------------------------
\* ProcessState::release_reserved, which is how Reservation::drop ends a charge.
ReleaseReserved(n) == <<Add("reservedBuffers", -1), Add("reservedBytes", -n)>>
(* A broken variant: the charge that lets others reserve goes first. *)
ReservedFirst(n) ==
  ReleaseReserved(n) \o <<Add("publishedBuffers", -1), Add("publishedBytes", -n)>>
\* ProcessState::release_published
ReleasePublished(n) ==
  <<Add("publishedBuffers", -1), Add("publishedBytes", -n)>> \o ReleaseReserved(n)

(* A broken variant: the last reservation may pass the limit. *)
FitsBefore(used, n, limit) == used < limit
\* ProcessState::reserve, retained_bytes_after
Fits(used, n, limit) == used + n <= limit

(* NumericAllocation::new: the process is charged before memory is asked for. *)
Reserve(t, b, n) ==
  /\ Free(t) /\ blocks[b].state = "none"
  /\ Fits(ledger["reservedBytes"], n, ProcessLimit)
  /\ blocks' = [blocks EXCEPT ![b] = [state |-> "reserved", bytes |-> n, of |-> t, image |-> reloads]]
  /\ ledger' = [ledger EXCEPT !["reservedBytes"] = @ + n]
  /\ pending' = [pending EXCEPT ![t] = <<Add("reservedBuffers", 1)>>]
  /\ UNCHANGED <<threads, reloads>>

(* HeapAlloc succeeds, or fails and the reservation is dropped. *)
Allocate(t, b, ok) ==
  /\ Free(t) /\ blocks[b].state = "reserved" /\ blocks[b].of = t
  /\ blocks' = IF ok THEN Set(b, "owned") ELSE [blocks EXCEPT ![b] = Empty]
  /\ pending' = [pending EXCEPT ![t] = IF ok THEN <<>> ELSE ReleaseReserved(blocks[b].bytes)]
  /\ UNCHANGED <<ledger, threads, reloads>>

(* A broken variant: a block that could not be freed is no longer charged. *)
Uncharges(freed, updates) == updates
\* A failed free keeps its charge until the process ends.
AfterFree(freed, updates) == IF freed THEN updates ELSE <<>>

(* NumericAllocation::drop, on the thread that has the builder or the output now. *)
Drop(t, b, freed) ==
  /\ Free(t) /\ blocks[b].state = "owned"
  /\ blocks' = IF freed THEN [blocks EXCEPT ![b] = Empty] ELSE Set(b, "kept")
  /\ pending' = [pending EXCEPT ![t] = AfterFree(freed, ReleaseReserved(blocks[b].bytes))]
  /\ UNCHANGED <<ledger, threads, reloads>>

(* NumericArrayOutput::publish: the budgets of the thread and of the module first; an *)
(* output that does not fit is dropped by its caller. *)
Publish(t, b) ==
  LET n == blocks[b].bytes IN
  /\ Free(t) /\ blocks[b].state = "owned"
  /\ Fits(threads[t], n, ThreadLimit) /\ Fits(ledger["moduleBytes"], n, ModuleLimit)
  /\ ledger' = [ledger EXCEPT !["moduleBytes"] = @ + n]
  /\ threads' = [threads EXCEPT ![t] = @ + n]
  /\ blocks' = [blocks EXCEPT ![b].state = "published", ![b].of = t]
  /\ pending' = [pending EXCEPT ![t] =
       <<Add("publishedBytes", n), Add("publishedBuffers", 1), Add("moduleBuffers", 1)>>]
  /\ UNCHANGED reloads

(* Fp12CallGuard::enter of an outer call takes the epoch of the thread. *)
OuterEntry(t) ==
  /\ Free(t)
  /\ LET mine == {b \in Blocks : blocks[b].state = "published" /\ blocks[b].of = t} IN
       /\ mine # {}
       /\ blocks' = [b \in Blocks |-> IF b \in mine THEN [blocks[b] EXCEPT !.state = "detached"]
                                      ELSE blocks[b]]
  /\ threads' = [threads EXCEPT ![t] = 0]
  /\ UNCHANGED <<ledger, pending, reloads>>

(* reclaim_epoch, one block: freed first, uncharged afterwards. *)
Reclaim(t, b, freed) ==
  /\ Idle(t) /\ blocks[b].state = "detached" /\ blocks[b].of = t
  /\ LET n == blocks[b].bytes IN
       /\ blocks' = IF freed THEN [blocks EXCEPT ![b] = Empty] ELSE Set(b, "kept")
       /\ pending' = [pending EXCEPT ![t] = AfterFree(freed,
            ReleasePublished(n) \o <<Add("moduleBytes", -n), Add("moduleBuffers", -1)>>)]
  /\ UNCHANGED <<ledger, threads, reloads>>

(* The module is unmapped and loaded again: its counters and thread states start anew, what *)
(* it had published stays, and stays charged to the process. *)
Reload ==
  /\ reloads < MaxReloads
  /\ \A t \in Threads : Idle(t)
  /\ \A b \in Blocks : blocks[b].state \in {"none", "published", "kept"}
  /\ blocks' = [b \in Blocks |-> IF blocks[b].state = "published"
                                 THEN [blocks[b] EXCEPT !.state = "kept"] ELSE blocks[b]]
  /\ ledger' = [ledger EXCEPT !["moduleBytes"] = 0, !["moduleBuffers"] = 0]
  /\ threads' = [t \in Threads |-> 0]
  /\ reloads' = reloads + 1
  /\ UNCHANGED pending

Next ==
  \/ Reload
  \/ \E t \in Threads :
       \/ Update(t) \/ OuterEntry(t)
       \/ \E b \in Blocks :
            \/ Publish(t, b)
            \/ \E n \in Sizes : Reserve(t, b, n)
            \/ \E ok \in BOOLEAN : Allocate(t, b, ok) \/ Drop(t, b, ok) \/ Reclaim(t, b, ok)
Spec == Init /\ [][Next]_vars

-----------------------------------------------------------------------------
TypeOK ==
  /\ \A b \in Blocks : blocks[b].state \in {"none", "reserved", "owned", "published", "detached", "kept"}
  /\ ledger \in [Counters -> Int] /\ threads \in [Threads -> 0..ThreadLimit]

Bytes(S) == MapThenSumSet(LAMBDA b : blocks[b].bytes, S)
In(states) == {b \in Blocks : blocks[b].state \in states}

(* No shared counter ever leaves its range, whichever updates of whichever threads are *)
(* under way: an image that validates the header at that moment would otherwise refuse *)
(* every FP12 result for the rest of the process. *)
HeaderStaysValid == \A c \in ProcessCounters : ledger[c] \in 0..ProcessLimit

(* Memory is never undercounted: at every moment the process is charged for all the memory *)
(* that exists, abandoned and unfreeable blocks included, and the module for all that it *)
(* has published and can reclaim. *)
MemoryIsCharged ==
  /\ Bytes(In({"reserved", "owned", "published", "detached", "kept"})) <= ledger["reservedBytes"]
  /\ ledger["publishedBytes"] <= ledger["reservedBytes"]
  /\ Bytes({b \in In({"published", "detached"}) : blocks[b].image = reloads}) <= ledger["moduleBytes"]
  /\ ledger["moduleBytes"] <= ModuleLimit

(* When no update is under way the reserved counters are exactly the blocks that exist, *)
(* and no charge outlives its memory. *)
ChargesEnd ==
  (\A t \in Threads : Idle(t)) =>
    /\ ledger["reservedBytes"] = Bytes(Blocks)
    /\ ledger["reservedBuffers"] = Cardinality(Blocks \ In({"none"}))
=============================================================================
