-------------------------- MODULE FormulaHandles --------------------------
(***************************************************************************)
(* Formula handles: a formula that returns an object gets the token of a   *)
(* topic.  One thread at a time creates the object of a key, publishes the *)
(* topic provisionally, lets Excel observe it, and commits; other threads  *)
(* wait for it or find the topic.  Excel connects to a topic by its        *)
(* lifetime key and its disconnection, the end of its server or the close  *)
(* of the service withdraws the topic and then its binding.                *)
(*                                                                         *)
(* The binding store is the contract of HandleBindings: a token is         *)
(* returned once, stays bound until it is removed, and a store that is no  *)
(* longer open keeps its bindings for its seal.  A retired topic is freed  *)
(* after the leases taken before it was withdrawn (RotatingReadDomain).    *)
(***************************************************************************)
EXTENDS Naturals, FiniteSets, SequencesExt

CONSTANTS Keys, Preparers, Clients, Closers,
          Gens,           \* FormulaLifetimeGeneration: the RTD servers
          Ids,            \* topic ids of Excel
          Ops,            \* subset of {"connect", "disconnect", "terminate", "terminate all"}
          MaxToken, MaxInit     \* bounds of tokens and initializations

VARIABLES topics,         \* by_key (and by_lifetime_key): the topic of a key
          state,          \* PublishedTopic::state of every topic, by its token
          published,      \* the lock-free map of live topics
          observers,      \* by_observer_id
          initializing,   \* key -> initialization
          inits,          \* every Initialization: is owner_done set
          closed,         \* TopicTableState::closed
          store,          \* HandleStore: phase and bound tokens
          door,           \* HandlePrepareState
          preps, clients, closers

tables == <<topics, state, published, observers, initializing, inits, closed>>
vars == <<tables, store, door, preps, clients, closers>>

Observers == Gens \X Ids
NoKey == "no key"
NoTopic == [tok |-> 0, life |-> "none", observer |-> <<>>, committed |-> FALSE]
Topic(tok) == [NoTopic EXCEPT !.tok = tok]
IdlePrep == [todo |-> <<>>, key |-> NoKey, tok |-> 0, init |-> 0, seen |-> {}, result |-> "none"]
IdleClient == [at |-> "idle", key |-> NoKey, owner |-> <<>>, toks |-> {}]

Init ==
  /\ topics = [k \in Keys |-> NoTopic] /\ state = <<>> /\ published = [k \in Keys |-> 0]
  /\ observers = [o \in Observers |-> NoKey]
  /\ initializing = [k \in Keys |-> 0] /\ inits = <<>> /\ closed = FALSE
  /\ store = [phase |-> "open", bound |-> {}] /\ door = "open"
  /\ preps = [p \in Preparers |-> IdlePrep]
  /\ clients = [c \in Clients |-> IdleClient]
  /\ closers = [x \in Closers |-> [at |-> "idle", waits |-> {}]]

At(p, step) == preps[p].todo # <<>> /\ Head(preps[p].todo) = step
Then(p, more) == [preps[p] EXCEPT !.todo = more \o Tail(@)]
Goes(p, r) == preps' = [preps EXCEPT ![p] = r]
Ends(p, result) == [preps[p] EXCEPT !.todo = <<>>, !.result = result]
Fails(p, undo) == [preps[p] EXCEPT !.todo = undo, !.result = "error"]
Gone == {tok \in DOMAIN state : state[tok] \in {"stale", "closing"}}
others == <<clients, closers>>

\* What a failing preparation gives back, in the order of the drops.
Reservation == <<"finish", "complete">>
Provisional == <<"withdraw", "unbind">>

---------------------------------------------------------------------------
\* prepare_observed_object

Begin(p) ==
  /\ preps[p].todo = <<>> /\ door = "open"
  /\ Len(inits) + Cardinality({q \in Preparers : preps[q].todo # <<>>}) < MaxInit
  /\ \E k \in Keys : Goes(p, [IdlePrep EXCEPT !.todo = <<"warm">>, !.key = k, !.seen = Gone])
  /\ UNCHANGED <<tables, store, door, others>>

\* prepare_warm: with a lease, a live topic of the lock-free map is observed ...
Warm(p) ==
  /\ At(p, "warm")
  /\ LET tok == published[preps[p].key]
     IN Goes(p, IF tok # 0 /\ state[tok] = "live" THEN [Then(p, <<"observe", "rewarm">>) EXCEPT !.tok = tok]
                ELSE Then(p, <<"decide">>))
  /\ UNCHANGED <<tables, store, door, others>>
\* ... and returned if it is live after the observation.
(* A broken variant: the state is not looked at again. *)
TrustsFirstLook(tok) == TRUE
StillLive(tok) == state[tok] = "live"
Rewarm(p) ==
  /\ At(p, "rewarm")
  /\ Goes(p, Ends(p, IF StillLive(preps[p].tok) THEN "ok" ELSE "error"))
  /\ UNCHANGED <<tables, store, door, others>>

\* prepare_decision: wait, reuse or initialize.
(* A broken variant: a topic is found before its initialization is asked for. *)
TopicFirst(k) == initializing[k] # 0 /\ topics[k] = NoTopic
Underway(k) == initializing[k] # 0
Decide(p) ==
  /\ At(p, "decide")
  /\ LET k == preps[p].key
     IN \/ closed /\ Goes(p, Ends(p, "error")) /\ UNCHANGED <<initializing, inits>>
        \/ /\ ~closed /\ Underway(k)
           /\ Goes(p, [Then(p, <<"wait">>) EXCEPT !.init = initializing[k]]) /\ UNCHANGED <<initializing, inits>>
        \/ /\ ~closed /\ ~Underway(k) /\ topics[k] # NoTopic
           /\ Goes(p, [Then(p, <<"observe", "existing">>) EXCEPT !.tok = topics[k].tok])
           /\ UNCHANGED <<initializing, inits>>
        \/ /\ ~closed /\ ~Underway(k) /\ topics[k] = NoTopic
           /\ inits' = Append(inits, FALSE)
           /\ initializing' = [initializing EXCEPT ![k] = Len(inits) + 1]
           /\ Goes(p, [Then(p, <<"create", "insert", "put", "check", "observe", "check", "commit", "complete">>)
                         EXCEPT !.init = Len(inits) + 1])
  /\ UNCHANGED <<topics, state, published, observers, closed, store, door, others>>

\* wait_until_done_or_closed
Wait(p) ==
  /\ At(p, "wait") /\ (inits[preps[p].init] \/ closed)
  /\ Goes(p, [Then(p, <<"decide">>) EXCEPT !.init = 0])
  /\ UNCHANGED <<tables, store, door, others>>

\* Code of the add-in and of Excel, which may fail.
Outer(p) ==
  /\ \/ At(p, "observe") /\ preps[p].init = 0 /\ Goes(p, Ends(p, "error"))
     \/ At(p, "observe") /\ preps[p].init # 0 /\ Goes(p, Fails(p, Provisional \o Reservation))
     \/ At(p, "observe") /\ Goes(p, Then(p, <<>>))
     \/ At(p, "create") /\ Goes(p, Then(p, <<>>))
     \/ At(p, "create") /\ Goes(p, Fails(p, Reservation))
  /\ UNCHANGED <<tables, store, door, others>>

\* TopicTable::is_current
Current(p) == ~closed /\ topics[preps[p].key].tok = preps[p].tok
Existing(p) ==
  /\ At(p, "existing") /\ Goes(p, Ends(p, IF Current(p) THEN "ok" ELSE "error"))
  /\ UNCHANGED <<tables, store, door, others>>
Check(p) ==
  /\ At(p, "check") /\ Goes(p, IF Current(p) THEN Then(p, <<>>) ELSE Fails(p, Provisional \o Reservation))
  /\ UNCHANGED <<tables, store, door, others>>

\* insert_object: the binding; a full or closing store refuses it.
Insert(p) ==
  /\ At(p, "insert")
  /\ \/ /\ store.phase = "open" /\ Len(state) < MaxToken
        /\ store' = [store EXCEPT !.bound = @ \cup {Len(state) + 1}]
        /\ state' = Append(state, "provisional")
        /\ Goes(p, [Then(p, <<>>) EXCEPT !.tok = Len(state) + 1])
     \/ Goes(p, Fails(p, Reservation)) /\ UNCHANGED <<store, state>>
  /\ UNCHANGED <<topics, published, observers, initializing, inits, closed, door, others>>

\* insert_provisional
Put(p) ==
  /\ At(p, "put")
  /\ LET k == preps[p].key
     IN IF closed \/ topics[k] # NoTopic
        THEN Goes(p, Fails(p, Provisional \o Reservation)) /\ UNCHANGED topics
        ELSE topics' = [topics EXCEPT ![k] = Topic(preps[p].tok)] /\ Goes(p, Then(p, <<>>))
  /\ UNCHANGED <<state, published, observers, initializing, inits, closed, store, door, others>>

\* ownership::commit_publication; here the reservation is dropped before the topic.
(* A broken variant: the initialization is not compared with the one of the table. *)
CommitsAny(p) == Current(p)
MayCommit(p) == Current(p) /\ initializing[preps[p].key] = preps[p].init
Commit(p) ==
  /\ At(p, "commit")
  /\ LET k == preps[p].key
         tok == preps[p].tok
     IN IF MayCommit(p)
        THEN /\ state' = [state EXCEPT ![tok] = "live"]
             /\ published' = [published EXCEPT ![k] = tok]
             /\ initializing' = [initializing EXCEPT ![k] = 0]
             /\ Goes(p, [Then(p, <<>>) EXCEPT !.result = "ok"])
        ELSE Goes(p, Fails(p, Reservation \o Provisional)) /\ UNCHANGED <<state, published, initializing>>
  /\ UNCHANGED <<topics, observers, inits, closed, store, door, others>>

\* finish_initialization removes this initialization, never another's; complete wakes.
Finish(p) ==
  /\ At(p, "finish")
  /\ initializing' = [k \in Keys |-> IF k = preps[p].key /\ initializing[k] = preps[p].init THEN 0
                                     ELSE initializing[k]]
  /\ Goes(p, Then(p, <<>>))
  /\ UNCHANGED <<topics, state, published, observers, inits, closed, store, door, others>>
(* A broken variant: an initialization that failed wakes nobody. *)
OnlySuccess(p) == preps[p].result = "ok"
Signals(p) == TRUE
Complete(p) ==
  /\ At(p, "complete")
  /\ inits' = [inits EXCEPT ![preps[p].init] = Signals(p)]
  /\ Goes(p, Then(p, <<>>))
  /\ UNCHANGED <<topics, state, published, observers, initializing, closed, store, door, others>>

---------------------------------------------------------------------------
\* Withdrawal of topics, and then of their bindings.

\* remove_topic_locked for every key of the set.
(* A broken variant: the observer of the topic stays in its index. *)
ForgetsObserver(ks) == observers
Unobserved(ks) == [o \in Observers |-> IF \E k \in ks : topics[k].observer = o THEN NoKey ELSE observers[o]]
Withdrawn(ks, how) ==
  /\ topics' = [k \in Keys |-> IF k \in ks THEN NoTopic ELSE topics[k]]
  /\ state' = [tok \in DOMAIN state |-> IF \E k \in ks : topics[k].tok = tok THEN how ELSE state[tok]]
  /\ published' = [k \in Keys |-> IF k \in ks THEN 0 ELSE published[k]]
  /\ observers' = Unobserved(ks)

\* remove_with_kind: a store that is closing keeps the binding for its seal.
Unbound(toks) == [store EXCEPT !.bound = IF store.phase = "open" THEN @ \ toks ELSE @]

Withdraw(p) ==
  /\ At(p, "withdraw")
  /\ Withdrawn({k \in {preps[p].key} : topics[k].tok = preps[p].tok}, "stale")
  /\ Goes(p, Then(p, <<>>))
  /\ UNCHANGED <<initializing, inits, closed, store, door, others>>
Unbind(p) ==
  /\ At(p, "unbind") /\ store' = Unbound({preps[p].tok})
  /\ Goes(p, Then(p, <<>>))
  /\ UNCHANGED <<tables, door, others>>

---------------------------------------------------------------------------
\* Excel: claims, connections and their ends.
Present == {k \in Keys : topics[k] # NoTopic}

Claims(k, g) == topics[k].life \in {"none", g}
Claim(c) ==
  /\ clients[c].at = "idle" /\ "connect" \in Ops /\ ~closed
  /\ \E k \in Present, g \in Gens : Claims(k, g) /\ topics' = [topics EXCEPT ![k].life = g]
  /\ UNCHANGED <<state, published, observers, initializing, inits, closed, store, door, preps, others>>

\* connect_transaction: a new observer is reserved until the client has the token.
Connect(c) ==
  /\ clients[c].at = "idle" /\ "connect" \in Ops /\ ~closed
  /\ \E k \in Present, o \in Observers :
       /\ observers[o] \in {NoKey, k} /\ Claims(k, o[1]) /\ topics[k].observer = <<>>
       /\ topics' = [topics EXCEPT ![k].life = o[1], ![k].observer = o, ![k].committed = FALSE]
       /\ observers' = [observers EXCEPT ![o] = k]
       /\ clients' = [clients EXCEPT ![c] = [IdleClient EXCEPT !.at = "reserved", !.key = k, !.owner = o]]
  /\ UNCHANGED <<state, published, initializing, inits, closed, store, door, preps, closers>>
(* A broken variant: a topic that was published again under the key is committed. *)
TrustsReservation(c) == topics[clients[c].key] # NoTopic
Reserved(c) == observers[clients[c].owner] = clients[c].key /\ topics[clients[c].key].observer = clients[c].owner
CommitConnection(c) ==
  /\ clients[c].at = "reserved"
  /\ IF ~closed /\ Reserved(c)
     THEN topics' = [topics EXCEPT ![clients[c].key].committed = TRUE] /\ clients' = [clients EXCEPT ![c] = IdleClient]
     ELSE clients' = [clients EXCEPT ![c].at = "roll back"] /\ UNCHANGED topics
  /\ UNCHANGED <<state, published, observers, initializing, inits, closed, store, door, preps, closers>>
RollbackConnection(c) ==
  /\ clients[c].at \in {"reserved", "roll back"}
  /\ LET k == clients[c].key
     IN IF Reserved(c) /\ ~topics[k].committed
        THEN /\ topics' = [topics EXCEPT ![k].observer = <<>>]
             /\ observers' = [observers EXCEPT ![clients[c].owner] = NoKey]
        ELSE UNCHANGED <<topics, observers>>
  /\ clients' = [clients EXCEPT ![c] = IdleClient]
  /\ UNCHANGED <<state, published, initializing, inits, closed, store, door, preps, closers>>

\* disconnect, terminate_topics, terminate_all_topics.
Removes(c, ks) ==
  /\ ks # {} /\ clients[c].at = "idle"
  /\ Withdrawn(ks, "stale")
  /\ clients' = [clients EXCEPT ![c].at = "removing", ![c].toks = {topics[k].tok : k \in ks}]
  /\ UNCHANGED <<initializing, inits, closed, store, door, preps, closers>>
Disconnect(c) ==
  "disconnect" \in Ops /\ \E o \in Observers : Removes(c, {k \in Keys : observers[o] = k})
Terminate(c) ==
  "terminate" \in Ops /\ \E g \in Gens : Removes(c, {k \in Present : topics[k].life = g})
TerminateAll(c) == "terminate all" \in Ops /\ Removes(c, Present)
RemoveValue(c) ==
  /\ clients[c].at = "removing"
  /\ \E tok \in clients[c].toks :
       /\ store' = Unbound({tok})
       /\ clients' = [clients EXCEPT ![c] = IF @.toks = {tok} THEN IdleClient ELSE [@ EXCEPT !.toks = @ \ {tok}]]
  /\ UNCHANGED <<tables, door, preps, closers>>

---------------------------------------------------------------------------
\* FormulaHandleService::seal
MovesTo(x, at) == closers' = [closers EXCEPT ![x].at = at]

Seal(x) ==
  /\ closers[x].at = "idle" /\ door' = "closed" /\ MovesTo(x, "begin")
  /\ UNCHANGED <<tables, store, preps, clients>>
BeginClose(x) ==
  /\ closers[x].at = "begin" /\ MovesTo(x, "close")
  /\ store' = [store EXCEPT !.phase = IF @ = "open" THEN "closing" ELSE @]
  /\ UNCHANGED <<tables, door, preps, clients>>
CloseTopics(x) ==
  /\ closers[x].at = "close"
  /\ Withdrawn(Present, "closing")
  /\ closed' = TRUE /\ initializing' = [k \in Keys |-> 0]
  /\ closers' = [closers EXCEPT ![x] = [at |-> "wait", waits |-> {initializing[k] : k \in Keys} \ {0}]]
  /\ UNCHANGED <<inits, store, door, preps, clients>>
\* wait_until_done of each, wait_for_idle, then the seal of the store.
(* A broken variant: the store is sealed while preparations are inside. *)
SealsEarly(x) == TRUE
NobodyPrepares(x) == (\A i \in closers[x].waits : inits[i]) /\ \A p \in Preparers : preps[p].todo = <<>>
SealStore(x) ==
  /\ closers[x].at = "wait" /\ NobodyPrepares(x)
  /\ store' = [phase |-> "closed", bound |-> {}] /\ MovesTo(x, "done")
  /\ UNCHANGED <<tables, door, preps, clients>>

PrepStep(p) ==
  \/ Warm(p) \/ Rewarm(p) \/ Decide(p) \/ Wait(p) \/ Outer(p) \/ Existing(p) \/ Check(p) \/ Insert(p) \/ Put(p)
  \/ Commit(p) \/ Finish(p) \/ Complete(p) \/ Withdraw(p) \/ Unbind(p)
ClientEnds(c) == CommitConnection(c) \/ RollbackConnection(c) \/ RemoveValue(c)
CloserStep(x) == BeginClose(x) \/ CloseTopics(x) \/ SealStore(x)
Next ==
  \/ \E p \in Preparers : Begin(p) \/ PrepStep(p)
  \/ \E c \in Clients : Claim(c) \/ Connect(c) \/ ClientEnds(c) \/ Disconnect(c) \/ Terminate(c) \/ TerminateAll(c)
  \/ \E x \in Closers : Seal(x) \/ CloserStep(x)
Spec == Init /\ [][Next]_vars

\* Running threads go on; the table's lock is fair; add-in code and Excel return.
Fairness ==
  /\ \A p \in Preparers : WF_vars(PrepStep(p))
  /\ \A c \in Clients : WF_vars(ClientEnds(c))
  /\ \A x \in Closers : WF_vars(CloserStep(x))
LiveSpec == Spec /\ Fairness

---------------------------------------------------------------------------
TypeOK ==
  /\ \A k \in Keys : topics[k].tok \in 0..Len(state) /\ published[k] \in 0..Len(state)
                     /\ initializing[k] \in 0..Len(inits)
  /\ \A tok \in DOMAIN state : state[tok] \in {"provisional", "live", "stale", "closing"}
  /\ store.bound \subseteq DOMAIN state /\ store.phase \in {"open", "closing", "closed"}
  /\ \A p \in Preparers : preps[p].result \in {"none", "ok", "error"}

\* A topic that a formula can find has its binding: every topic of the table is bound,
\* the lock-free map shows live topics of the table only, and a topic that nobody is
\* initializing is live.
TopicsAreBound ==
  \A k \in Keys :
    /\ topics[k] # NoTopic => topics[k].tok \in store.bound
    /\ published[k] # 0 => published[k] = topics[k].tok /\ state[published[k]] = "live"
    /\ topics[k] # NoTopic /\ initializing[k] = 0 => state[topics[k].tok] = "live"

\* No binding is leaked: while the store is open a bound token has a topic, or a thread
\* on its way to publish or to remove it.
Owners(tok) ==
  {k \in Keys : topics[k].tok = tok}
  \cup {c \in Clients : tok \in clients[c].toks}
  \cup {p \in Preparers : preps[p].todo # <<>> /\ preps[p].tok = tok /\ preps[p].init # 0}
BindingsAreOwned ==
  /\ store.phase = "open" => \A tok \in store.bound : Owners(tok) # {}
  /\ store.phase = "closed" => \A k \in Keys : topics[k] = NoTopic

\* The observer index and the topics agree, however connections, rollbacks and
\* terminations interleave.
ObserversAgree ==
  \A o \in Observers, k \in Keys : observers[o] = k <=> topics[k].observer = o

\* A preparation that succeeds returns a topic that was current at some time during the
\* call, never one withdrawn before the call began, and never one it saw fail.
ReturnsCurrent ==
  \A p \in Preparers : preps[p].result = "ok" => preps[p].tok \notin preps[p].seen

\* Single flight: at most one thread creates the object of a key.
SingleFlight ==
  \A k \in Keys : ~closed =>
    Cardinality({p \in Preparers : preps[p].key = k /\ \E s \in {"create", "insert", "put", "commit"} :
                   Contains(preps[p].todo, s)}) <= 1

\* Every preparation returns, and so does the seal of the service.
PreparationsEnd == \A p \in Preparers : preps[p].todo # <<>> ~> preps[p].todo = <<>>
SealReturns == \A x \in Closers : closers[x].at # "idle" ~> closers[x].at = "done"
===========================================================================
