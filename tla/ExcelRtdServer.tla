--------------------------- MODULE ExcelRtdServer ---------------------------
(***************************************************************************)
(* The COM server that Excel talks to (excel_rtd/windows/server.rs,        *)
(* server_gate.rs, server/termination.rs).  One server at a time is        *)
(* ACTIVE; it is created by a worksheet call, started and terminated by    *)
(* Excel, reaped by the next call or by the shutdown of the add-in.        *)
(* Termination never waits inside a COM call: when operations are in       *)
(* flight it is handed to a worker thread that keeps the server.           *)
(*                                                                         *)
(* A thread is a stack of calls, since Excel re-enters a thread whose top  *)
(* call pumps COM messages.  A call that the gate refuses returns at once  *)
(* and is no step.  Every record of srv is one RtdServer; its events are   *)
(* the manual-reset events of its ServerOperationBarrier.                  *)
(***************************************************************************)
EXTENDS Naturals, FiniteSets, SequencesExt

CONSTANTS Threads, MaxServers, MaxDepth,
          Backends,         \* subset of {"handles", "subs"}
          Calling,          \* subset of {"com", "start", "terminate", "shutdown", "notify"}
          Faults            \* subset of {"wait", "spawn", "start", "panic"}

VARIABLES srv, active, stacks

vars == <<srv, active, stacks>>

Servers == 1..MaxServers
Nobody == "nobody"

NewServer(b) ==
  [refs |-> 2, phase |-> "open", owner |-> Nobody, deferred |-> FALSE, coordinator |-> Nobody,
   quiescent |-> FALSE, finished |-> FALSE, tearing |-> Nobody, resources |-> TRUE,
   start |-> "not_started", observations |-> 0, committed |-> FALSE,
   attached |-> b, callback |-> FALSE, notifier |-> FALSE, leases |-> 0, client |-> FALSE,
   worker |-> "idle", sealed |-> FALSE, at |-> "none", panicked |-> FALSE]
Unborn == [NewServer({}) EXCEPT !.refs = 0, !.phase = "unborn"]

Init ==
  /\ srv = [i \in Servers |-> Unborn]
  /\ active = 0
  /\ stacks = [t \in Threads |-> << >>]

-----------------------------------------------------------------------------
\* Calls and the gate.

Top(t) == Last(stacks[t])
Calls(i) == UNION {{<<t, k>> : k \in {k \in DOMAIN stacks[t] : stacks[t][k].s = i}} : t \in Threads}
CallAt(c) == stacks[c[1]][c[2]]

Push(t, c) == stacks' = [stacks EXCEPT ![t] = Append(@, c)]
Goto(t, c) == stacks' = [stacks EXCEPT ![t] = Append(Front(@), c)]
Pop(t) == stacks' = [stacks EXCEPT ![t] = Front(@)]

\* The places of a call that hold an admission of the barrier.
Entered == {"in", "starting", "published", "invoke", "notifier"}
Admitted(i) == {c \in Calls(i) : CallAt(c).at \in Entered}
InFlight(i) == Cardinality(Admitted(i)) + srv[i].leases

\* The drop of one admission: the last one signals a termination that waits.
(* A broken variant: the event is only set when nobody terminates.         *)
SignalsNobody(i) == InFlight(i) = 1 /\ srv[i].phase = "open"
LastOut(i) == InFlight(i) = 1 /\ srv[i].phase = "terminating"
Exited(i) == [srv[i] EXCEPT !.quiescent = @ \/ LastOut(i)]

Released(r) == [r EXCEPT !.refs = @ - 1]

\* A host wait or a call out to Excel dispatches other COM calls.
Pumps == {"invoke", "quiescence", "termination", "exclusive"}
MayCall(t) ==
  \/ stacks[t] = << >>
  \/ Len(stacks[t]) \in 1..(MaxDepth - 1) /\ Top(t).at \in Pumps

\* ensure_server attaches a backend with ACTIVE_SERVER locked.
ActiveFree == \A t \in Threads : stacks[t] # << >> => Top(t).at # "notifier"

-----------------------------------------------------------------------------
\* COM methods of a server that Excel holds.

Enter(t, kind, at) ==
  \E i \in Servers :
    /\ MayCall(t)
    /\ srv[i].client /\ srv[i].phase = "open"
    /\ kind = "start" => srv[i].start = "not_started"
    /\ Push(t, [kind |-> kind, at |-> at, s |-> i, flag |-> FALSE])
    /\ srv' = [srv EXCEPT ![i].start = IF kind = "start" THEN "starting" ELSE @]
    /\ UNCHANGED active

\* ConnectData, RefreshData, Heartbeat, DisconnectData.
ComCall(t) == Enter(t, "com", "in")
ServerStart(t) == Enter(t, "start", "starting")

At(t, at) == stacks[t] # << >> /\ Top(t).at = at

ComReturn(t) ==
  /\ At(t, "in") /\ Pop(t)
  /\ srv' = [srv EXCEPT ![Top(t).s] = Exited(Top(t).s)]
  /\ UNCHANGED active

\* disconnect_data: the sink's barrier is left to the cleanup worker, with an
\* admission and a reference of its own.
DeferDisconnect(t) ==
  LET i == Top(t).s IN
  /\ At(t, "in") /\ Top(t).kind = "com" /\ ~Top(t).flag
  /\ "subs" \in srv[i].attached /\ srv[i].phase = "open" /\ srv[i].leases = 0
  /\ Goto(t, [Top(t) EXCEPT !.flag = TRUE])
  /\ srv' = [srv EXCEPT ![i].leases = 1, ![i].refs = @ + 1]
  /\ UNCHANGED active
LeaseReturn(i) ==
  /\ srv[i].leases = 1
  /\ srv' = [srv EXCEPT ![i] = [Released(Exited(i)) EXCEPT !.leases = 0]]
  /\ UNCHANGED <<active, stacks>>

\* server_start: before the callback is published a failure can be retried,
\* afterwards it is terminal for this server.
PublishCallback(t) ==
  LET i == Top(t).s IN
  /\ At(t, "starting")
  /\ \/ Goto(t, [Top(t) EXCEPT !.at = "published"]) /\ srv' = [srv EXCEPT ![i].callback = TRUE]
     \/ /\ "start" \in Faults
        /\ Pop(t) /\ srv' = [srv EXCEPT ![i] = [Exited(i) EXCEPT !.start = "not_started"]]
  /\ UNCHANGED active
CommitStart(t) ==
  LET i == Top(t).s
      synchronized == [Exited(i) EXCEPT !.start = "started", !.notifier = @ \/ "subs" \in srv[i].attached]
  IN
  /\ At(t, "published") /\ Pop(t)
  /\ \/ srv' = [srv EXCEPT ![i] = synchronized]
     \/ /\ "start" \in Faults /\ "subs" \in srv[i].attached
        /\ srv' = [srv EXCEPT ![i] = [Exited(i) EXCEPT !.start = "start_failed"]]
  /\ UNCHANGED active

\* RtdNotifier::notify of a publisher.  It is pinned by its subscription,
\* whose termination waits for it, and uses the callback once admitted.
NotifyPin(t, i) ==
  /\ stacks[t] = << >> /\ srv[i].notifier
  /\ Push(t, [kind |-> "notify", at |-> "pinned", s |-> i, flag |-> FALSE])
  /\ UNCHANGED <<srv, active>>
(* A broken variant: a notification does not look at the phase.            *)
NotifiesAlways(i) == TRUE
AdmitsNotification(i) == srv[i].phase = "open"
NotifyEnter(t) ==
  /\ At(t, "pinned")
  /\ IF AdmitsNotification(Top(t).s) THEN Goto(t, [Top(t) EXCEPT !.at = "in"]) ELSE Pop(t)
  /\ UNCHANGED <<srv, active>>

\* Excel's own references: DllGetClassObject finds the active server while a
\* formula is observed; Release may come during any call but a method's.
ClassObject(t) ==
  /\ At(t, "invoke") /\ ActiveFree
  /\ active # 0 /\ srv[active].phase = "open" /\ ~srv[active].client
  /\ srv' = [srv EXCEPT ![active].client = TRUE, ![active].refs = @ + 1]
  /\ UNCHANGED <<active, stacks>>
ClientRelease(i) ==
  /\ srv[i].client /\ \A c \in Calls(i) : CallAt(c).kind \notin {"com", "start"}
  /\ srv' = [srv EXCEPT ![i] = [Released(@) EXCEPT !.client = FALSE]]
  /\ UNCHANGED <<active, stacks>>

-----------------------------------------------------------------------------
\* request_termination: never waits.  With operations in flight a worker is
\* reserved, spawned and committed under the state lock; a failed spawn
\* reopens the gate.

Closing(r, t, deferred) ==
  [r EXCEPT !.phase = "terminating", !.owner = t, !.deferred = deferred,
            !.coordinator = Nobody, !.quiescent = FALSE, !.finished = FALSE]
MayStart(i) == srv[i].worker = "idle" /\ ~srv[i].sealed

Deferred(i, r, t) ==
  {[Closing(r, t, TRUE) EXCEPT !.worker = "running", !.at = "check", !.refs = @ + 1] :
     y \in {y \in {i} : MayStart(y)}}
  \cup {[r EXCEPT !.quiescent = FALSE, !.finished = TRUE] : x \in Faults \cap {"spawn"}}

ServerTerminate(t) ==
  \E i \in Servers :
    /\ MayCall(t)
    /\ srv[i].client /\ srv[i].phase = "open"
    /\ IF InFlight(i) = 0
       THEN /\ Push(t, [kind |-> "terminate", at |-> "join", s |-> i, flag |-> FALSE])
            /\ srv' = [srv EXCEPT ![i] = [Closing(@, t, FALSE) EXCEPT !.refs = @ + 1]]
       ELSE /\ \E r \in Deferred(i, srv[i], t) : srv' = [srv EXCEPT ![i] = r]
            /\ UNCHANGED stacks
    /\ UNCHANGED active

-----------------------------------------------------------------------------
\* A worksheet call that observes a formula: ensure_server, then
\* ServerObservation around the call into Excel.

Observe(t) ==
  /\ stacks[t] = << >>
  /\ \E b \in Backends : Push(t, [kind |-> b, at |-> "ensure", s |-> 0, flag |-> FALSE])
  /\ UNCHANGED <<srv, active>>

Observers == Backends
Stale(i) == srv[i].phase # "open" \/ srv[i].start = "start_failed"

Ensure(t) ==
  LET c == Top(t)
      free == {i \in Servers : srv[i].phase = "unborn"}
  IN
  /\ At(t, "ensure") /\ ActiveFree
  /\ \/ /\ active = 0 /\ free # {}
        /\ active' = CHOOSE i \in free : \A j \in free : i <= j
        /\ srv' = [srv EXCEPT ![active'] = NewServer({c.kind})]
        /\ Goto(t, [c EXCEPT !.s = active', !.at = "begin"])
     \/ /\ active = 0 /\ free = {}                       \* no generation left
        /\ Pop(t) /\ UNCHANGED <<srv, active>>
     \/ /\ active # 0 /\ Stale(active)
        /\ srv' = [srv EXCEPT ![active].refs = @ + 1]
        /\ Goto(t, [c EXCEPT !.s = active, !.at = "drain"])
        /\ UNCHANGED active
     \/ /\ active # 0 /\ ~Stale(active)
        /\ srv' = [srv EXCEPT ![active].refs = @ + 1, ![active].attached = @ \cup {c.kind}]
        /\ Goto(t, [c EXCEPT !.s = active,
                             !.at = IF c.kind = "subs" /\ "subs" \notin srv[active].attached
                                    THEN "notifier" ELSE "begin"])
        /\ UNCHANGED active

\* A runtime attached to a running server gets the callback that is there;
\* a callback published later finds the runtime.
AttachNotifier(t) ==
  LET i == Top(t).s IN
  /\ At(t, "notifier")
  /\ srv' = [srv EXCEPT ![i] = [Exited(i) EXCEPT !.notifier = @ \/ srv[i].callback]]
  /\ Goto(t, [Top(t) EXCEPT !.at = "begin"])
  /\ UNCHANGED active

Begin(t) ==
  LET i == Top(t).s IN
  /\ At(t, "begin") /\ ActiveFree
  /\ IF active = i /\ srv[i].phase = "open"
     THEN /\ srv' = [srv EXCEPT ![i].observations = @ + 1]
          /\ Goto(t, [Top(t) EXCEPT !.at = "invoke"])
     ELSE srv' = [srv EXCEPT ![i] = Released(@)] /\ Pop(t)
  /\ UNCHANGED active

\* The call into Excel comes back, with the value or not.
Leave(t) ==
  LET i == Top(t).s IN
  /\ At(t, "invoke")
  /\ \E ok \in BOOLEAN : Goto(t, [Top(t) EXCEPT !.at = "leave", !.flag = ok])
  /\ srv' = [srv EXCEPT ![i] = Exited(i)]
  /\ UNCHANGED active

\* The last observation of a server that never started retires it.
(* A broken variant: a failed observation retires the server it shares.    *)
RetiresShared(r, i) == ~r.committed /\ r.start # "started" /\ active = i
Retires(r, i) == r.observations = 0 /\ ~r.committed /\ r.start # "started" /\ active = i
Retire(t) ==
  LET i == Top(t).s
      r == [srv[i] EXCEPT !.observations = @ - 1, !.committed = @ \/ Top(t).flag]
      asks == Retires(r, i) /\ srv[i].phase = "open"
  IN
  /\ At(t, "leave") /\ ActiveFree
  /\ \/ /\ ~asks
        /\ srv' = [srv EXCEPT ![i] = Released(r)] /\ Pop(t)
     \/ /\ asks /\ InFlight(i) = 0
        /\ srv' = [srv EXCEPT ![i] = Closing(r, t, FALSE)]
        /\ Goto(t, [Top(t) EXCEPT !.kind = "retire", !.at = "join"])
     \/ /\ asks /\ InFlight(i) # 0
        /\ \E d \in Deferred(i, r, t) : srv' = [srv EXCEPT ![i] = Released(d)]
        /\ Pop(t)
  /\ UNCHANGED active

-----------------------------------------------------------------------------
\* Shutdown of the add-in: first the subscriptions (flag: handle topics are
\* retained), then the handles.  It is called with no COM call on its thread.

Shutdown(t, retain) ==
  /\ stacks[t] = << >> /\ ActiveFree
  /\ active # 0
  /\ srv[active].attached = {} \/ (IF retain THEN "subs" ELSE "handles") \in srv[active].attached
  /\ srv' = [srv EXCEPT ![active].refs = @ + 1]
  /\ Push(t, [kind |-> "shutdown", at |-> "drain", s |-> active, flag |-> retain])
  /\ UNCHANGED active

\* close_and_wait.
Mine(i, t) == srv[i].phase = "terminating" /\ srv[i].owner = t /\ ~srv[i].deferred
Drain(t) ==
  LET c == Top(t)
      i == Top(t).s
  IN
  /\ At(t, "drain")
  /\ \/ /\ srv[i].phase = "terminated"
        /\ Goto(t, [c EXCEPT !.at = "join"]) /\ UNCHANGED srv
     \/ /\ srv[i].phase = "terminating" /\ ~Mine(i, t)
        /\ Goto(t, [c EXCEPT !.at = "termination"]) /\ UNCHANGED srv
     \/ /\ srv[i].phase = "open"
        /\ srv' = [srv EXCEPT ![i] = Closing(@, t, FALSE)]
        /\ Goto(t, [c EXCEPT !.at = IF InFlight(i) = 0 THEN "join" ELSE "quiescence"])
  /\ UNCHANGED active

AwaitQuiescence(t) ==
  LET i == Top(t).s IN
  /\ At(t, "quiescence") /\ srv[i].quiescent
  /\ Mine(i, t) /\ InFlight(i) = 0
  /\ Goto(t, [Top(t) EXCEPT !.at = "join"])
  /\ UNCHANGED <<srv, active>>
AwaitTermination(t) ==
  /\ At(t, "termination") /\ srv[Top(t).s].finished
  /\ Goto(t, [Top(t) EXCEPT !.at = IF srv[Top(t).s].phase = "terminated" THEN "join" ELSE "drain"])
  /\ UNCHANGED <<srv, active>>

\* A failed host wait: the owner reopens the gate and wakes the other closers.
(* A broken variant: the rollback wakes nobody.                            *)
ReopensSilently(r) == [r EXCEPT !.phase = "open", !.owner = Nobody]
Reopened(r) == [r EXCEPT !.phase = "open", !.owner = Nobody, !.finished = TRUE]
WaitFails(t) ==
  LET i == Top(t).s IN
  /\ "wait" \in Faults /\ stacks[t] # << >>
  /\ Top(t).kind \in Observers /\ Top(t).at \in {"quiescence", "termination"}
  /\ Pop(t)
  /\ srv' = [srv EXCEPT ![i] = Released(IF Top(t).at = "quiescence" /\ Mine(i, t) THEN Reopened(@) ELSE @)]
  /\ UNCHANGED active

-----------------------------------------------------------------------------
\* The tail of every closer: seal and join the worker, take the resources
\* exclusively, dispose of them, remove the server, publish the end.

Join(t) ==
  LET i == Top(t).s IN
  /\ At(t, "join")
  /\ \/ /\ srv[i].worker \in {"idle", "joined"}
        /\ srv' = [srv EXCEPT ![i].sealed = TRUE, ![i].worker = "joined"]
        /\ Goto(t, [Top(t) EXCEPT !.at = "tear"])
     \/ /\ srv[i].worker = "running"
        /\ srv' = [srv EXCEPT ![i].sealed = TRUE, ![i].worker = "joining"]
        /\ Goto(t, [Top(t) EXCEPT !.at = "joining"])
  /\ UNCHANGED active                         \* "joining": waits for the joiner
Joined(t) ==
  LET i == Top(t).s IN
  /\ At(t, "joining") /\ srv[i].at = "gone"
  /\ srv' = [srv EXCEPT ![i].worker = "joined"]
  /\ Goto(t, [Top(t) EXCEPT !.at = "tear", !.flag = IF Top(t).kind \in Observers THEN srv[i].panicked ELSE @])
  /\ UNCHANGED active

(* A broken variant: disposal relies on the terminal phase alone.          *)
TakesAnyway(r) == TRUE
MayTear(r) == r.tearing = Nobody
Tear(t) ==
  LET i == Top(t).s IN
  /\ At(t, "tear") \/ (At(t, "exclusive") /\ srv[i].resources)
  /\ IF MayTear(srv[i])
     THEN /\ srv' = [srv EXCEPT ![i].tearing = t, ![i].resources = FALSE]
          /\ Goto(t, [Top(t) EXCEPT !.at = "dispose"])
     ELSE Goto(t, [Top(t) EXCEPT !.at = "exclusive"]) /\ UNCHANGED srv
  /\ UNCHANGED active

Untorn(r) == [r EXCEPT !.tearing = Nobody, !.resources = TRUE]
Retains(c) == c.kind = "shutdown" /\ c.flag
Keeps(c) == Retains(c) /\ "handles" \in srv[c.s].attached
Disposed(r, retain) ==
  [r EXCEPT !.attached = IF retain THEN @ \ {"subs"} ELSE {}, !.callback = FALSE]
\* Terminating the subscriptions withdraws their notifier, then waits for the
\* notifications they pinned.
Unpinned(i) == \A c \in Calls(i) : CallAt(c).at # "pinned"

Dispose(t) ==
  LET c == Top(t)
      i == Top(t).s
  IN
  /\ At(t, "dispose")
  /\ IF Keeps(c) \/ active = i
     THEN /\ srv' = [srv EXCEPT ![i].notifier = FALSE]
          /\ Goto(t, [c EXCEPT !.at = "stop"])
     ELSE srv' = [srv EXCEPT ![i] = Untorn(@)] /\ Goto(t, [c EXCEPT !.at = "finish"])
  /\ UNCHANGED active
StopBackends(t) ==
  /\ At(t, "stop") /\ Unpinned(Top(t).s)
  /\ srv' = [srv EXCEPT ![Top(t).s] = Disposed(@, Retains(Top(t)))]
  /\ Goto(t, [Top(t) EXCEPT !.at = "remove"])
  /\ UNCHANGED active
RemoveActive(t) ==
  LET c == Top(t)
      removes == ~Keeps(c) /\ active = c.s
  IN
  /\ At(t, "remove") /\ ActiveFree
  /\ active' = IF removes THEN 0 ELSE active
  /\ srv' = [srv EXCEPT ![c.s] = Untorn(IF removes THEN Released(@) ELSE @)]
  /\ Goto(t, [c EXCEPT !.at = "finish"])

\* The drop of ServerTermination publishes Terminated, then the reference goes.
Terminated(r) == [r EXCEPT !.phase = "terminated", !.owner = Nobody, !.coordinator = Nobody,
                           !.finished = TRUE]
Finish(t) ==
  LET c == Top(t)
      i == Top(t).s
  IN
  /\ At(t, "finish")
  /\ srv' = [srv EXCEPT ![i] = Released(IF Mine(i, t) THEN Terminated(@) ELSE @)]
  /\ IF c.kind \in Observers /\ ~c.flag THEN Goto(t, [c EXCEPT !.s = 0, !.at = "ensure"]) ELSE Pop(t)
  /\ UNCHANGED active

\* deferred_termination_worker: it disposes but leaves ACTIVE_SERVER to the
\* thread that joins it; a panic of the cleanup still publishes the end.
(* A broken variant: the worker does not wait for admitted operations.     *)
DrainsNothing(i) == TRUE
WorkerMayOwn(i) == InFlight(i) = 0
WorkerStep(i) ==
  LET r == srv[i]
      To(x, at) == srv' = [srv EXCEPT ![i] = [x EXCEPT !.at = at]]
  IN
  /\ \/ /\ r.at = "check" /\ WorkerMayOwn(i)
        /\ To([r EXCEPT !.coordinator = "worker"], "tear")
     \/ r.at = "check" /\ ~WorkerMayOwn(i) /\ To(r, "wait")
     \/ r.at = "wait" /\ r.quiescent /\ To(r, "check")
     \/ /\ r.at = "tear" /\ MayTear(r)
        /\ To([r EXCEPT !.tearing = "worker", !.resources = FALSE], "dispose")
     \/ /\ "panic" \in Faults /\ r.at = "tear"
        /\ To([Terminated(r) EXCEPT !.panicked = TRUE], "leaving")
     \/ r.at = "dispose" /\ To([r EXCEPT !.notifier = FALSE], "stop")
     \/ r.at = "stop" /\ Unpinned(i) /\ To(Untorn(Disposed(r, FALSE)), "signal")
     \/ r.at = "signal" /\ To(Terminated(r), "leaving")
     \/ r.at = "leaving" /\ To(Released(r), "gone")
  /\ UNCHANGED <<active, stacks>>

-----------------------------------------------------------------------------
CloserStep(t) ==
  \/ Drain(t) \/ AwaitQuiescence(t) \/ AwaitTermination(t) \/ Join(t) \/ Joined(t)
  \/ Tear(t) \/ Dispose(t) \/ StopBackends(t) \/ RemoveActive(t) \/ Finish(t)
CallStep(t) ==
  \/ ComReturn(t) \/ PublishCallback(t) \/ CommitStart(t) \/ NotifyEnter(t)
  \/ Ensure(t) \/ AttachNotifier(t) \/ Begin(t) \/ Leave(t) \/ Retire(t)
HostCall(t) ==
  \/ Observe(t) \/ ClassObject(t)
  \/ "com" \in Calling /\ ComCall(t)
  \/ "start" \in Calling /\ ServerStart(t)
  \/ "terminate" \in Calling /\ ServerTerminate(t)
  \/ "shutdown" \in Calling /\ \E retain \in BOOLEAN : Shutdown(t, retain)
  \/ "notify" \in Calling /\ \E i \in Servers : NotifyPin(t, i)

Next ==
  \/ \E t \in Threads : HostCall(t) \/ CallStep(t) \/ CloserStep(t) \/ DeferDisconnect(t) \/ WaitFails(t)
  \/ \E i \in Servers : LeaseReturn(i) \/ ClientRelease(i) \/ WorkerStep(i)
Spec == Init /\ [][Next]_vars

Fairness ==
  /\ \A t \in Threads : SF_vars(CloserStep(t) \/ CallStep(t))
  /\ \A i \in Servers : WF_vars(LeaseReturn(i)) /\ SF_vars(WorkerStep(i))
LiveSpec == Spec /\ Fairness

-----------------------------------------------------------------------------
TypeOK ==
  /\ active \in 0..MaxServers
  /\ \A i \in Servers :
       /\ srv[i].refs \in 0..(2 * Cardinality(Threads) + 5)
       /\ srv[i].phase \in {"unborn", "open", "terminating", "terminated"}
       /\ srv[i].observations \in 0..Cardinality(Threads)
       /\ srv[i].worker \in {"idle", "running", "joining", "joined"}
  /\ \A t \in Threads : Len(stacks[t]) <= MaxDepth

(* server_add_ref and server_release: the count of a server is the number  *)
(* of its owners (ACTIVE_SERVER, Excel, leases, the worker, the threads    *)
(* that ensure, reap, retire or shut it down), so a server with an owner   *)
(* is never freed; one without is terminated, its worker is joined and     *)
(* nothing is attached to it, so its drop does not abort.                  *)
Owners(i) ==
  Cardinality({c \in Calls(i) : CallAt(c).kind \in Observers \cup {"retire", "terminate", "shutdown"}})
  + Cardinality({x \in {active} : x = i}) + srv[i].leases
  + Cardinality({x \in {TRUE} : srv[i].client})
  + Cardinality({x \in {TRUE} : srv[i].at \notin {"none", "gone"}})
ReferencesExact ==
  \A i \in Servers :
    /\ srv[i].phase # "unborn" => srv[i].refs = Owners(i)
    /\ srv[i].phase # "unborn" /\ srv[i].refs = 0 =>
         /\ srv[i].phase = "terminated" /\ srv[i].worker \in {"idle", "joined"}
         /\ srv[i].attached = {} /\ ~srv[i].callback /\ srv[i].tearing = Nobody

(* Nothing is disposed of under an admitted call: while one is inside, the *)
(* resources belong to nobody and a call to Excel finds its callback; two  *)
(* disposals of one server never overlap, also when the phase was already  *)
(* published by a worker; a server out of ACTIVE_SERVER admits nothing.    *)
DisposalIsExclusive ==
  \A i \in Servers :
    /\ InFlight(i) # 0 => srv[i].tearing = Nobody /\ srv[i].phase # "terminated"
    /\ \A c \in Calls(i) : CallAt(c).kind = "notify" /\ CallAt(c).at = "in" => srv[i].callback
    /\ Cardinality({c \in Calls(i) : CallAt(c).at \in {"dispose", "stop", "remove"}}
                   \cup {x \in {<<"worker", 1>>} : srv[i].at \in {"dispose", "stop"}}) <= 1
    /\ srv[i].phase = "open" => active = i

(* synchronize_callback_notification and ensure_server: whichever comes    *)
(* last of a callback and a subscription runtime connects the two, so a    *)
(* started server never has a runtime that cannot notify Excel.            *)
NotifierIsAttached ==
  \A i \in Servers :
    srv[i].start = "started" /\ "subs" \in srv[i].attached /\ srv[i].phase = "open"
      /\ (\A c \in Calls(i) : CallAt(c).at # "notifier")
      => srv[i].notifier

Closes(t) == /\ stacks[t] # << >> /\ stacks[t][1].kind # "notify"
             /\ stacks[t][1].at \in
                  {"drain", "quiescence", "termination", "join", "joining", "tear", "exclusive"}
Closed(t) == stacks[t] = << >> \/ stacks[t][1].at = "ensure"

(* A termination that began ends or is rolled back: whoever closes, reaps  *)
(* or shuts down a server comes back and a deferred worker finishes, once  *)
(* the calls inside return.                                                *)
ClosersReturn ==
  /\ \A t \in Threads : Closes(t) ~> Closed(t)
  /\ \A i \in Servers : (srv[i].at = "check") ~> (srv[i].at = "gone")
=============================================================================
