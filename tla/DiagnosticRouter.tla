------------------------- MODULE DiagnosticRouter -------------------------
(* The process-wide diagnostic sink (diagnostics.rs, diagnostics/worker.rs, *)
(* worker/lifetime.rs): reports reserve room and bytes and hand an event to *)
(* a worker thread; installing, replacing and closing the sink flush and    *)
(* join the worker, which runs user code that may itself report or try to   *)
(* replace its own sink. The slot is ReplaceableServiceSlot's contract: a   *)
(* reader keeps the service it found, a replacement waits for such readers. *)
EXTENDS Naturals, FiniteSets, FiniteSetsExt, SequencesExt

CONSTANTS
    Threads,      \* threads that are not workers
    MaxSinks,     \* sinks created
    Capacity,     \* DIAGNOSTIC_QUEUE_CAPACITY
    MaxBytes,     \* DIAGNOSTIC_PAYLOAD_MAX_BYTES
    Sizes,        \* clone_bytes of a reported error
    Ops,          \* which of "report", "install", "replace", "close", "reset" are called
    Faults,       \* which of "spawn", "admission", "build", "panic" happen
    MaxReports    \* reports made

VARIABLES
    router,   \* [phase, active, retiring, owner, made]: DiagnosticRouter and its transition lock
    sinks,    \* AsyncDiagnosticSink and its worker, by the order of creation
    callers,  \* what each thread and each worker's user code is doing
    tally     \* [reported, delivered, dropped, discarded, unbuilt]: events that found a sink

vars == <<router, sinks, callers, tally>>

Sinks == 1..MaxSinks
Callers == Threads \cup Sinks
Unmade == [st |-> "unmade", open |-> FALSE, queue |-> <<>>, now |-> <<>>, reserved |-> 0, bytes |-> 0]
Resting == [pc |-> "idle", op |-> "none", lease |-> 0, size |-> 0, old |-> 0, new |-> 0]
Sum(q) == FoldLeft(LAMBDA a, b : a + b, 0, q)

Init ==
    /\ router = [phase |-> "open", active |-> 0, retiring |-> {}, owner |-> 0, made |-> 0]
    /\ sinks = [s \in Sinks |-> Unmade]
    /\ callers = [c \in Callers |-> Resting]
    /\ tally = [reported |-> 0, delivered |-> 0, dropped |-> 0, discarded |-> 0, unbuilt |-> 0]

Goto(c, pc) == callers' = [callers EXCEPT ![c].pc = pc]
Done(c) == callers' = [callers EXCEPT ![c] = Resting]
Count(field) == tally' = [tally EXCEPT ![field] = @ + 1]

\* A worker's user code runs inside the delivery of an event.
MayCall(c) == callers[c].pc = "idle" /\ (c \in Sinks => sinks[c].now # <<>>)

---------------------------------------------------------------------------
(* Reports: report_with_id_no_unwind, AsyncDiagnosticSink::report *)

\* read_if_ready: without a sink the report ends here.
Report(c) ==
    /\ "report" \in Ops /\ MayCall(c) /\ router.active # 0 /\ tally.reported < MaxReports
    /\ \E z \in Sizes :
          callers' = [callers EXCEPT ![c].pc = "reserve", ![c].op = "report",
                                     ![c].lease = router.active, ![c].size = z]
    /\ Count("reported")
    /\ UNCHANGED <<router, sinks>>

(* A broken variant: the slot is not counted against the queue's capacity. *)
FitsBytes(k, z) == k.bytes + z <= MaxBytes

\* DiagnosticObserver::reserve: a slot and the bytes of the clone, or neither.
Fits(k, z) == k.reserved < Capacity /\ k.bytes + z <= MaxBytes

Reserve(c) ==
    /\ callers[c].pc = "reserve"
    /\ LET s == callers[c].lease
           z == callers[c].size
       IN IF Fits(sinks[s], z)
          THEN /\ sinks' = [sinks EXCEPT ![s].reserved = @ + 1, ![s].bytes = @ + z]
               /\ Goto(c, "send") /\ UNCHANGED tally
          ELSE Count("dropped") /\ Done(c) /\ UNCHANGED sinks
    /\ UNCHANGED router

(* A broken variant: a reservation that is not used keeps its bytes. *)
KeepsBytes(k, z) == [k EXCEPT !.reserved = @ - 1]

\* DiagnosticReservation and QueuedCredit on drop.
Refund(k, z) == [k EXCEPT !.reserved = @ - 1, !.bytes = @ - z]

\* The event is built and sent; a worker that died has no receiver, a builder may unwind.
Send(c) ==
    /\ callers[c].pc = "send"
    /\ LET s == callers[c].lease
           z == callers[c].size
           full == Len(sinks[s].queue) >= Capacity
       IN \/ /\ sinks[s].st = "running" /\ ~full
             /\ sinks' = [sinks EXCEPT ![s].queue = Append(@, z)]
             /\ UNCHANGED tally
          \/ /\ sinks[s].st # "running" \/ full
             /\ sinks' = [sinks EXCEPT ![s] = Refund(@, z)]
             /\ Count("dropped")
          \/ /\ "build" \in Faults
             /\ sinks' = [sinks EXCEPT ![s] = Refund(@, z)]
             /\ Count("unbuilt")
    /\ callers' = [callers EXCEPT ![c] = IF @.op = "report" THEN Resting
                                         ELSE [@ EXCEPT !.pc = "unlock", !.lease = 0]]
    /\ UNCHANGED router

---------------------------------------------------------------------------
(* The worker thread *)

\* recv and QueuedCredit::dequeue: the slot is free before the event is delivered.
Receive(s) ==
    /\ sinks[s].st = "running" /\ sinks[s].now = <<>> /\ sinks[s].queue # <<>>
    /\ sinks' = [sinks EXCEPT ![s].now = <<Head(sinks[s].queue)>>, ![s].queue = Tail(@),
                              ![s].reserved = @ - 1]
    /\ UNCHANGED <<router, callers, tally>>

\* deliver_no_unwind returned; the bytes are given back after the error is destroyed.
Delivered(s) ==
    /\ sinks[s].st = "running" /\ sinks[s].now # <<>> /\ callers[s].pc = "idle"
    /\ sinks' = [sinks EXCEPT ![s].bytes = @ - sinks[s].now[1], ![s].now = <<>>]
    /\ Count("delivered")
    /\ UNCHANGED <<router, callers>>

(* A broken variant: the worker stops as soon as its input is closed. *)
StopsAtOnce(k) == ~k.open

\* The receiver ends when the sender is gone and everything sent has been received.
Exhausted(k) == ~k.open /\ k.queue = <<>>

Exit(s) ==
    /\ sinks[s].st = "running" /\ sinks[s].now = <<>> /\ Exhausted(sinks[s])
    /\ sinks' = [sinks EXCEPT ![s].st = "exited"]
    /\ UNCHANGED <<router, callers, tally>>

\* The worker unwinds between two events: what is queued is discarded with its credits.
WorkerPanics(s) ==
    /\ "panic" \in Faults /\ sinks[s].st = "running" /\ sinks[s].now = <<>>
    /\ sinks' = [sinks EXCEPT ![s] = [@ EXCEPT !.st = "panicked", !.queue = <<>>,
                    !.reserved = @ - Len(sinks[s].queue), !.bytes = @ - Sum(sinks[s].queue)]]
    /\ tally' = [tally EXCEPT !.discarded = @ + Len(sinks[s].queue)]
    /\ UNCHANGED <<router, callers>>

---------------------------------------------------------------------------
(* Installing, replacing, closing and resetting *)

\* caller_is_worker: the active sink first, then the list of retiring workers.
IsActiveWorker(c) == c = router.active
IsRetiringWorker(c) == c \in router.retiring

Mutate(c, op) ==
    /\ op \in Ops \cap {"install", "replace", "close", "reset"} /\ MayCall(c)
    /\ op # "reset" \/ c \in Threads
    /\ callers' = [callers EXCEPT ![c].pc = IF op = "reset" THEN "lock" ELSE "active?", ![c].op = op]
    /\ UNCHANGED <<router, sinks, tally>>

CheckActive(c) ==
    /\ callers[c].pc = "active?"
    /\ IF IsActiveWorker(c) THEN Done(c) ELSE Goto(c, "retiring?")
    /\ UNCHANGED <<router, sinks, tally>>

CheckRetiring(c) ==
    /\ callers[c].pc = "retiring?"
    /\ IF IsRetiringWorker(c) THEN Done(c) ELSE Goto(c, "lock")
    /\ UNCHANGED <<router, sinks, tally>>

\* The transition lock, the second look and the phase.
Refuses(op) ==
    CASE op = "reset" -> router.phase # "closed" \/ router.active # 0 \/ router.retiring # {}
      [] op = "close" -> router.phase # "open"
      [] op = "install" -> router.phase # "open" \/ router.active # 0
      [] OTHER -> router.phase # "open"

Lock(c) ==
    /\ callers[c].pc = "lock" /\ router.owner = 0
    /\ LET op == callers[c].op IN
       CASE IsActiveWorker(c) \/ IsRetiringWorker(c) \/ Refuses(op) ->
              Done(c) /\ UNCHANGED <<router, sinks>>
         [] op = "reset" ->
              Done(c) /\ router' = [router EXCEPT !.phase = "open"] /\ UNCHANGED sinks
         [] op = "close" ->
              /\ router' = [router EXCEPT !.owner = c, !.phase = "closing"]
              /\ callers' = [callers EXCEPT ![c].pc = "mark", ![c].old = router.active]
              /\ UNCHANGED sinks
         [] OTHER ->
              \/ /\ router.made < MaxSinks
                 /\ router' = [router EXCEPT !.owner = c, !.made = @ + 1]
                 /\ sinks' = [sinks EXCEPT ![router.made + 1] =
                                 [Unmade EXCEPT !.st = "running", !.open = TRUE]]
                 /\ callers' = [callers EXCEPT ![c].pc = "mark", ![c].old = router.active,
                                               ![c].new = router.made + 1]
              \/ ("spawn" \in Faults \/ router.made = MaxSinks) /\ Done(c) /\ UNCHANGED <<router, sinks>>
    /\ UNCHANGED tally

(* A broken variant: a worker is listed only once its sink has been withdrawn. *)
MarksLate(o) == {}

\* mark_retiring before the slot changes.
Marked(o) == {o} \ {0}

\* The precommit of replace_with, or the first half of close_terminal.
Mark(c) ==
    /\ callers[c].pc = "mark"
    /\ \/ /\ router' = [router EXCEPT !.retiring = @ \cup Marked(callers[c].old)]
          /\ Goto(c, "switch") /\ UNCHANGED sinks
       \/ \* admit_published_sink refuses: the candidate is dropped, which joins its worker
          /\ "admission" \in Faults /\ callers[c].new # 0
          /\ sinks' = [sinks EXCEPT ![callers[c].new].open = FALSE]
          /\ callers' = [callers EXCEPT ![c].pc = "join", ![c].old = callers[c].new]
          /\ UNCHANGED router
    /\ UNCHANGED tally

Switch(c) ==
    /\ callers[c].pc = "switch"
    /\ router' = [router EXCEPT !.active = callers[c].new]
    /\ Goto(c, IF callers[c].old = 0 THEN "unlock" ELSE "drain")
    /\ UNCHANGED <<sinks, tally>>

(* A broken variant: the service is taken out of the slot while it is still read. *)
TakesAtOnce(s) == TRUE

\* RetiringReplacement::wait: the readers of the old service have left.
Unread(s) == \A d \in Callers : callers[d].lease # s

\* AsyncDiagnosticSink::shutdown: drop the sender, then join.
Drain(c) ==
    /\ callers[c].pc = "drain" /\ Unread(callers[c].old)
    /\ sinks' = [sinks EXCEPT ![callers[c].old].open = FALSE]
    /\ Goto(c, "join")
    /\ UNCHANGED <<router, tally>>

\* A panicked worker is reported through the sink that replaced it.
Join(c) ==
    /\ callers[c].pc = "join" /\ sinks[callers[c].old].st \in {"exited", "panicked"}
    /\ LET o == callers[c].old IN
       /\ sinks' = [sinks EXCEPT ![o].st = "gone"]
       /\ router' = [router EXCEPT !.retiring = @ \ {o}]
       /\ IF sinks[o].st = "panicked" /\ callers[c].op # "close" /\ router.active # 0
          THEN \E z \in Sizes :
                  /\ callers' = [callers EXCEPT ![c].pc = "reserve", ![c].lease = router.active,
                                                ![c].size = z]
                  /\ Count("reported")
          ELSE Goto(c, "unlock") /\ UNCHANGED tally

Unlock(c) ==
    /\ callers[c].pc = "unlock"
    /\ router' = [router EXCEPT !.owner = 0,
                    !.phase = IF callers[c].op = "close" THEN "closed" ELSE @]
    /\ Done(c)
    /\ UNCHANGED <<sinks, tally>>

---------------------------------------------------------------------------
Working(c) ==
    \/ Reserve(c) \/ Send(c) \/ CheckActive(c) \/ CheckRetiring(c) \/ Lock(c)
    \/ Mark(c) \/ Switch(c) \/ Drain(c) \/ Join(c) \/ Unlock(c)
Worker(s) == Receive(s) \/ Delivered(s) \/ Exit(s)

Next ==
    \/ \E c \in Callers :
          Report(c) \/ Working(c) \/ (\E op \in {"install", "replace", "close", "reset"} : Mutate(c, op))
    \/ \E s \in Sinks : Worker(s) \/ WorkerPanics(s)

Spec == Init /\ [][Next]_vars

\* Threads run, the transition lock is fair, and a sink's report returns.
Fairness ==
    /\ \A c \in Callers : SF_vars(Working(c))
    /\ \A s \in Sinks : SF_vars(Worker(s))
LiveSpec == Spec /\ Fairness

---------------------------------------------------------------------------
(* The type invariant. *)
TypeOK ==
    /\ router.phase \in {"open", "closing", "closed"} /\ router.active \in 0..MaxSinks
    /\ router.retiring \subseteq Sinks /\ router.owner \in Callers \cup {0}
    /\ \A s \in Sinks :
          /\ sinks[s].st \in {"unmade", "running", "exited", "panicked", "gone"}
          /\ sinks[s].reserved \in 0..Capacity /\ sinks[s].bytes \in 0..MaxBytes
    /\ \A c \in Callers : callers[c].lease \in 0..MaxSinks /\ callers[c].old \in 0..MaxSinks

(* A worker never gets as far as waiting for the transition lock, whose owner may be *)
(* waiting to join that very worker: caller_is_worker sees it either in the slot or in *)
(* the list of retiring workers, whenever the sink is withdrawn between the two looks. *)
WorkersNeverWait == \A s \in Sinks : callers[s].pc # "lock" /\ router.owner # s

(* The credits of a sink are those of the events being built, queued and delivered, the *)
(* queue never refuses an event that was admitted by a reservation, and no event that *)
(* found a sink disappears without being delivered, counted as dropped or discarded. *)
CreditsExact ==
    /\ \A s \in Sinks :
          LET building == {c \in Callers : callers[c].lease = s /\ callers[c].pc = "send"} IN
          /\ sinks[s].reserved = Cardinality(building) + Len(sinks[s].queue)
          /\ sinks[s].bytes = MapThenSumSet(LAMBDA c : callers[c].size, building)
                              + Sum(sinks[s].queue) + Sum(sinks[s].now)
          /\ Len(sinks[s].queue) + Cardinality(building) <= Capacity
    /\ tally.reported = tally.delivered + tally.dropped + tally.discarded + tally.unbuilt
         + Cardinality({c \in Callers : callers[c].pc \in {"reserve", "send"}})
         + MapThenSumSet(LAMBDA s : Len(sinks[s].queue) + Len(sinks[s].now), Sinks)

(* When a worker has been joined nobody reports to its sink any more, all of its credits *)
(* are back and nothing that was accepted is left in its queue; a router that is closed *)
(* has no sink and no worker. *)
RetiredIsFlushed ==
    /\ \A s \in Sinks : sinks[s].st = "gone" =>
          /\ s # router.active /\ s \notin router.retiring /\ Unread(s)
          /\ sinks[s].queue = <<>> /\ sinks[s].now = <<>>
          /\ sinks[s].reserved = 0 /\ sinks[s].bytes = 0
    /\ router.phase = "closed" =>
          /\ router.active = 0 /\ router.retiring = {}
          /\ \A s \in Sinks : sinks[s].st \in {"unmade", "gone"}
             \/ \E c \in Callers : callers[c].pc = "join" /\ callers[c].old = s

(* Installing, replacing and closing return: the worker they join is never waiting for them. *)
MutationsReturn == \A c \in Callers : callers[c].pc # "idle" ~> callers[c].pc = "idle"
============================================================================
