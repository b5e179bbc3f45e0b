----------------------------- MODULE RtdChannel -----------------------------
(***************************************************************************)
(* Bounded channels between RTD producers and the shared publisher thread  *)
(* (xlfn/src/subscription: channel.rs, budget.rs).                         *)
(*                                                                         *)
(* A producer and its sender clones admit values into a channel under its  *)
(* state lock, charging a source budget and the runtime budget.  A channel *)
(* with work reserves one turn, is queued for the publisher, publishes a   *)
(* bounded batch while its publication lock is held, and reserves another  *)
(* turn when work is left.  A subscription ends by closing the channel,    *)
(* revoking the sink behind a running batch and joining the producer.      *)
(***************************************************************************)
EXTENDS Integers, FiniteSets, Sequences, SequencesExt

CONSTANTS Channels,
          LatestOnly,     \* channels with the latest-value policy
          PublishesError, \* channels whose policy publishes a terminal error
          Senders,        \* threads that hold a clone of a sender
          SourceOf,       \* the source a channel belongs to
          Sizes,          \* byte charges of a value
          Capacity,       \* queue length of a FIFO channel
          BatchLimit,     \* values published in one turn
          Limits,         \* limits of the runtime budget and of every source
          MaxWorkers,     \* producer threads of the runtime
          MaxSent,        \* values a channel accepts (bound of the model)
          None

VARIABLES chan,      \* chan[c]: the channel's state, sink and scheduler
          used,      \* used[b]: what a budget has granted
          permits,   \* channels holding worker and subscription permits
          sender,    \* sender[s]: a thread in a send
          producer,  \* producer[c]: the producer thread
          owner,     \* owner[c]: the subscription that ends the channel
          ready,     \* the publisher's queue
          pool,      \* the publisher: dormant, running, stopping or stopped
          turn,      \* the publisher's current turn
          sent,      \* sent[c]: values accepted so far
          published  \* published[c]: what reached the sink, in order

vars == <<chan, used, permits, sender, producer, owner, ready, pool, turn, sent, published>>

NewChannel == [values |-> <<>>, terminal |-> FALSE, accepting |-> TRUE, stopping |-> FALSE,
               scheduled |-> FALSE, sink |-> FALSE, scheduler |-> FALSE, locked |-> FALSE]
Idle == [pc |-> "idle", ch |-> None]
NoTurn == [pc |-> "idle", ch |-> None, batch |-> <<>>, held |-> <<>>]

\* The terminal error travels as a value without a number and without a charge.
ErrorValue == [n |-> 0, size |-> 0]

Init ==
    /\ chan = [c \in Channels |-> NewChannel]
    /\ used = [b \in DOMAIN Limits |-> [values |-> 0, bytes |-> 0]]
    /\ permits = {}
    /\ sender = [s \in Senders |-> Idle]
    /\ producer = [c \in Channels |-> "none"]
    /\ owner = [c \in Channels |-> "none"]
    /\ ready = <<>>
    /\ pool = "dormant"
    /\ turn = NoTurn
    /\ sent = [c \in Channels |-> 0]
    /\ published = [c \in Channels |-> <<>>]

Bytes(vs) == FoldSeq(LAMBDA v, total : v.size + total, 0, vs)

-----------------------------------------------------------------------------
(* Budgets.                                                                 *)

BudgetsOf(c) == {SourceOf[c], "runtime"}

\* acquire_buffered: only what grows is compared with its limit.
Fits(c, values, bytes) ==
    \A b \in BudgetsOf(c) :
        /\ values > 0 => used[b].values + values <= Limits[b].values
        /\ bytes > 0 => used[b].bytes + bytes <= Limits[b].bytes

Charge(c, values, bytes) ==
    used' = [b \in DOMAIN used |->
                IF b \in BudgetsOf(c)
                THEN [values |-> used[b].values + values, bytes |-> used[b].bytes + bytes]
                ELSE used[b]]

-----------------------------------------------------------------------------
(* Scheduling.                                                              *)

HasWork(ch) == ch.values # <<>> \/ ch.terminal

(* A broken variant: a terminal error alone does not ask for a turn. *)
WorkIsValues(ch) == ch.scheduler /\ ~ch.stopping /\ ~ch.scheduled /\ ch.values # <<>>
(* Another: a channel that already has a turn is queued again. *)
QueuedAgain(ch) == ch.scheduler /\ ~ch.stopping /\ HasWork(ch)
MayReserve(ch) == ch.scheduler /\ ~ch.stopping /\ ~ch.scheduled /\ HasWork(ch)

Reserved(ch) == [ch EXCEPT !.scheduled = @ \/ MayReserve(ch)]

\* PublisherQueue::push drops the channel once the queue is stopping.
Push(c) == ready' = IF pool = "running" THEN Append(ready, c) ELSE ready

-----------------------------------------------------------------------------
(* Senders.                                                                 *)

(* A broken variant: the latest policy queues behind the waiting value. *)
QueuesLatest(c, vs) == chan[c].values \o vs
\* A latest buffer keeps only the newest value of what it is given.
Admitted(c, vs) ==
    IF c \in LatestOnly THEN <<Last(vs)>> ELSE chan[c].values \o vs

(* A broken variant: replacing the latest value does not adjust its charge. *)
ChargesFirstOnly(c, new) ==
    IF c \in LatestOnly /\ chan[c].values # <<>> THEN 0 ELSE Bytes(new) - Bytes(chan[c].values)
ExtraBytes(c, new) == Bytes(new) - Bytes(chan[c].values)

\* The critical section shared by try_send_pending and try_send_pending_batch:
\* all values are admitted or none.  A refusal (closed, full, over a budget)
\* returns the values and changes nothing.
Admit(s, c, vs) ==
    LET new == Admitted(c, vs)
        extra == Len(new) - Len(chan[c].values)
    IN /\ sender[s].pc = "idle"
       /\ producer[c] # "none"
       /\ chan[c].accepting
       /\ sent[c] + Len(vs) <= MaxSent
       /\ c \notin LatestOnly => Len(new) <= Capacity
       /\ Fits(c, extra, ExtraBytes(c, new))
       /\ Charge(c, extra, ExtraBytes(c, new))
       /\ sent' = [sent EXCEPT ![c] = @ + Len(vs)]
       /\ UNCHANGED <<permits, producer, owner, ready, pool, turn, published>>

Value(c, i, size) == [n |-> sent[c] + i, size |-> size]
WithValues(c, vs) == [chan[c] EXCEPT !.values = Admitted(c, vs)]

\* try_send_pending: a send into an empty queue schedules in a second
\* critical section.
Send(s, c) ==
    \E size \in Sizes :
        LET vs == <<Value(c, 1, size)>>
        IN /\ Admit(s, c, vs)
           /\ chan' = [chan EXCEPT ![c] = WithValues(c, vs)]
           /\ sender' = IF chan[c].values = <<>>
                        THEN [sender EXCEPT ![s] = [pc |-> "schedule", ch |-> c]]
                        ELSE sender

\* try_send_pending_batch: the turn is reserved in the same critical section.
SendBatch(s, c) ==
    \E one, two \in Sizes :
        LET vs == <<Value(c, 1, one), Value(c, 2, two)>>
            reserve == chan[c].values = <<>> /\ MayReserve(WithValues(c, vs))
        IN /\ Admit(s, c, vs)
           /\ chan' = [chan EXCEPT ![c] = [WithValues(c, vs) EXCEPT !.scheduled = @ \/ reserve]]
           /\ sender' = IF reserve
                        THEN [sender EXCEPT ![s] = [pc |-> "enqueue", ch |-> c]]
                        ELSE sender

\* Channel::schedule, and enqueue_reserved outside the lock.
SenderSchedule(s) ==
    LET c == sender[s].ch
    IN /\ sender[s].pc = "schedule"
       /\ chan' = [chan EXCEPT ![c] = Reserved(@)]
       /\ sender' = [sender EXCEPT ![s] = IF MayReserve(chan[c]) THEN [@ EXCEPT !.pc = "enqueue"] ELSE Idle]
       /\ UNCHANGED <<used, permits, producer, owner, ready, pool, turn, sent, published>>

SenderEnqueue(s) ==
    /\ sender[s].pc = "enqueue"
    /\ Push(sender[s].ch)
    /\ sender' = [sender EXCEPT ![s] = Idle]
    /\ UNCHANGED <<chan, used, permits, producer, owner, pool, turn, sent, published>>

-----------------------------------------------------------------------------
(* The producer thread.                                                     *)

\* producer_completed.  The user's closure returns or fails; a failure of a
\* channel that is not stopping leaves the terminal error.
ProducerReturn(c) ==
    /\ producer[c] = "running"
    /\ \E failed \in BOOLEAN :
          chan' = [chan EXCEPT ![c].accepting = FALSE,
                               ![c].terminal = @ \/ (failed /\ ~chan[c].stopping /\ c \in PublishesError)]
    /\ producer' = [producer EXCEPT ![c] = "schedule"]
    /\ UNCHANGED <<used, permits, sender, owner, ready, pool, turn, sent, published>>

ProducerSchedule(c) ==
    /\ producer[c] = "schedule"
    /\ chan' = [chan EXCEPT ![c] = Reserved(@)]
    /\ producer' = [producer EXCEPT ![c] = IF MayReserve(chan[c]) THEN "enqueue" ELSE "gone"]
    /\ UNCHANGED <<used, permits, sender, owner, ready, pool, turn, sent, published>>

ProducerEnqueue(c) ==
    /\ producer[c] = "enqueue"
    /\ Push(c)
    /\ producer' = [producer EXCEPT ![c] = "gone"]
    /\ UNCHANGED <<chan, used, permits, sender, owner, pool, turn, sent, published>>

-----------------------------------------------------------------------------
(* The publisher thread.                                                    *)

\* PublisherQueue::run: wait for a channel, unless the queue is stopping.
Take ==
    /\ turn.pc = "idle"
    /\ pool = "running"
    /\ ready # <<>>
    /\ turn' = [NoTurn EXCEPT !.pc = "lock", !.ch = Head(ready)]
    /\ ready' = Tail(ready)
    /\ UNCHANGED <<chan, used, permits, sender, producer, owner, pool, sent, published>>

(* A broken variant: the terminal error overtakes the queued values. *)
ErrorFirst(ch) ==
    LET n == IF Len(ch.values) < BatchLimit THEN Len(ch.values) ELSE BatchLimit
    IN [batch |-> (IF ch.terminal THEN <<ErrorValue>> ELSE <<>>) \o SubSeq(ch.values, 1, n),
        left |-> SubSeq(ch.values, n + 1, Len(ch.values)),
        terminal |-> FALSE]
NextBatch(ch) ==
    LET n == IF Len(ch.values) < BatchLimit THEN Len(ch.values) ELSE BatchLimit
        error == ch.terminal /\ n < BatchLimit
    IN [batch |-> SubSeq(ch.values, 1, n) \o (IF error THEN <<ErrorValue>> ELSE <<>>),
        left |-> SubSeq(ch.values, n + 1, Len(ch.values)),
        terminal |-> ch.terminal /\ ~error]

\* publish_batch, up to the call of the sink: the batch leaves the queue, its
\* charge stays with the turn.
Collect ==
    LET c == turn.ch
        next == NextBatch(chan[c])
    IN /\ turn.pc = "lock"
       /\ ~chan[c].locked
       /\ IF ~chan[c].sink
          THEN turn' = [turn EXCEPT !.pc = "finish"] /\ UNCHANGED chan
          ELSE IF chan[c].stopping
          THEN turn' = [turn EXCEPT !.pc = "publish"] /\ chan' = [chan EXCEPT ![c].locked = TRUE]
          ELSE /\ turn' = [turn EXCEPT !.pc = "publish", !.batch = next.batch,
                                       !.held = SelectSeq(next.batch, LAMBDA v : v # ErrorValue)]
               /\ chan' = [chan EXCEPT ![c].locked = TRUE, ![c].values = next.left,
                                       ![c].terminal = next.terminal]
       /\ UNCHANGED <<used, permits, sender, producer, owner, ready, pool, sent, published>>

\* PublishCore::publish_batch through the sink: before each value it looks
\* whether the channel is stopping, then commits the value.
CheckStop ==
    /\ turn.pc = "publish"
    /\ turn.batch # <<>>
    /\ ~chan[turn.ch].stopping
    /\ turn' = [turn EXCEPT !.pc = "commit"]
    /\ UNCHANGED <<chan, used, permits, sender, producer, owner, ready, pool, sent, published>>

Commit ==
    /\ turn.pc = "commit"
    /\ published' = [published EXCEPT ![turn.ch] = Append(@, Head(turn.batch))]
    /\ turn' = [turn EXCEPT !.pc = "publish", !.batch = Tail(@)]
    /\ UNCHANGED <<chan, used, permits, sender, producer, owner, ready, pool, sent>>

\* The batch is consumed or discarded; then its charge is returned.
PublishDone ==
    LET c == turn.ch
    IN /\ turn.pc = "publish"
       /\ turn.batch = <<>> \/ chan[c].stopping
       /\ chan' = [chan EXCEPT ![c].locked = FALSE]
       /\ Charge(c, -Len(turn.held), -Bytes(turn.held))
       /\ turn' = [NoTurn EXCEPT !.pc = "finish", !.ch = c]
       /\ UNCHANGED <<permits, sender, producer, owner, ready, pool, sent, published>>

QueuedCharge(c) == [values |-> Len(chan[c].values), bytes |-> Bytes(chan[c].values)]

(* A broken variant: a close only refuses new values. *)
OnlyRefuses(c) == [chan[c] EXCEPT !.accepting = FALSE, !.terminal = FALSE, !.values = <<>>]
\* Channel::close, as a change of the channel's state.
Closed(c) == [chan[c] EXCEPT !.accepting = FALSE, !.stopping = TRUE, !.terminal = FALSE, !.values = <<>>]

\* The sink refuses or panics: the sink is given up and the channel closed.
PublishFails ==
    LET c == turn.ch
        queued == QueuedCharge(c)
    IN /\ turn.pc = "commit"
       /\ chan' = [chan EXCEPT ![c] = [Closed(c) EXCEPT !.sink = FALSE, !.locked = FALSE]]
       /\ Charge(c, -(Len(turn.held) + queued.values), -(Bytes(turn.held) + queued.bytes))
       /\ turn' = [NoTurn EXCEPT !.pc = "finish", !.ch = c]
       /\ UNCHANGED <<permits, sender, producer, owner, ready, pool, sent, published>>

(* A broken variant: the turn ends without looking for work that arrived. *)
EndsTurn(ch) == [ch EXCEPT !.scheduled = FALSE]
AfterTurn(ch) == Reserved([ch EXCEPT !.scheduled = FALSE])

\* The end of publish_batch: the turn is given back and perhaps reserved again.
EndTurn ==
    LET c == turn.ch
    IN /\ turn.pc = "finish"
       /\ chan' = [chan EXCEPT ![c] = AfterTurn(@)]
       /\ turn' = IF chan'[c].scheduled THEN [turn EXCEPT !.pc = "requeue"] ELSE NoTurn
       /\ UNCHANGED <<used, permits, sender, producer, owner, ready, pool, sent, published>>

Requeue ==
    /\ turn.pc = "requeue"
    /\ Push(turn.ch)
    /\ turn' = NoTurn
    /\ UNCHANGED <<chan, used, permits, sender, producer, owner, pool, sent, published>>

-----------------------------------------------------------------------------
(* Subscriptions.                                                           *)

\* ChannelBudget::try_worker and try_subscription.
TryWorker(c) == Cardinality(permits) < MaxWorkers /\ permits' = permits \union {c}

\* PublisherPool::queue: the first use starts the thread, a stopped pool refuses.
PoolQueue == pool \in {"dormant", "running"} /\ pool' = "running"

\* AttachedChannel::attach and start_publisher; the new channel has no work.
Attached(ch) == [ch EXCEPT !.sink = TRUE, !.scheduler = TRUE]

\* RtdChannelSource::subscribe: permits, the publisher's queue, the sink, the
\* user's factory, the producer thread.  A failed factory or spawn drops the
\* subscription that was just made.
Subscribe(c) ==
    /\ owner[c] = "none"
    /\ TryWorker(c)
    /\ PoolQueue
    /\ chan' = [chan EXCEPT ![c] = Attached(@)]
    /\ \/ producer' = [producer EXCEPT ![c] = "running"] /\ owner' = [owner EXCEPT ![c] = "live"]
       \/ owner' = [owner EXCEPT ![c] = "finish"] /\ UNCHANGED producer
    /\ UNCHANGED <<used, sender, ready, turn, sent, published>>

Close(c) ==
    /\ chan' = [chan EXCEPT ![c] = Closed(c)]
    /\ Charge(c, -QueuedCharge(c).values, -QueuedCharge(c).bytes)

RequestCancel(c) ==
    /\ owner[c] = "live"
    /\ Close(c)
    /\ owner' = [owner EXCEPT ![c] = "finish"]
    /\ UNCHANGED <<permits, sender, producer, ready, pool, turn, sent, published>>

\* RtdChannelSubscription::finish, by disconnect_and_wait or by drop.
Finish(c) ==
    /\ owner[c] \in {"live", "finish"}
    /\ Close(c)
    /\ owner' = [owner EXCEPT ![c] = "revoke"]
    /\ UNCHANGED <<permits, sender, producer, ready, pool, turn, sent, published>>

(* A broken variant: the sink is taken without waiting for the batch. *)
DoesNotWait(c) == TRUE
BatchIsOver(c) == ~chan[c].locked

Revoke(c) ==
    /\ owner[c] = "revoke"
    /\ BatchIsOver(c)
    /\ chan' = [chan EXCEPT ![c].sink = FALSE]
    /\ owner' = [owner EXCEPT ![c] = "join"]
    /\ UNCHANGED <<used, permits, sender, producer, ready, pool, turn, sent, published>>

(* A broken variant: the permits are returned before the producer is joined. *)
NoJoin(c) == TRUE
Joined(c) == producer[c] \in {"none", "gone"}

Join(c) ==
    /\ owner[c] = "join"
    /\ Joined(c)
    /\ permits' = permits \ {c}
    /\ owner' = [owner EXCEPT ![c] = "gone"]
    /\ UNCHANGED <<chan, used, sender, producer, ready, pool, turn, sent, published>>

\* PublisherPool::stop, by the runtime once every subscription has ended.
\* Escaped senders may still hold channels.
StopPool ==
    /\ \A c \in Channels : owner[c] \in {"none", "gone"}
    /\ pool \in {"dormant", "running"}
    /\ pool' = IF pool = "running" THEN "stopping" ELSE "stopped"
    /\ ready' = <<>>
    /\ UNCHANGED <<chan, used, permits, sender, producer, owner, turn, sent, published>>

PublisherExit ==
    /\ pool = "stopping"
    /\ turn.pc = "idle"
    /\ pool' = "stopped"
    /\ UNCHANGED <<chan, used, permits, sender, producer, owner, ready, turn, sent, published>>

Finished ==
    /\ pool = "stopped"
    /\ UNCHANGED vars

Next ==
    \/ \E s \in Senders : SenderSchedule(s) \/ SenderEnqueue(s)
    \/ \E s \in Senders, c \in Channels : Send(s, c) \/ SendBatch(s, c)
    \/ \E c \in Channels :
          \/ ProducerReturn(c) \/ ProducerSchedule(c) \/ ProducerEnqueue(c)
          \/ Subscribe(c) \/ RequestCancel(c) \/ Finish(c) \/ Revoke(c) \/ Join(c)
    \/ Take \/ Collect \/ CheckStop \/ Commit \/ PublishDone \/ PublishFails \/ EndTurn \/ Requeue
    \/ StopPool \/ PublisherExit
    \/ Finished

Spec == Init /\ [][Next]_vars

\* Threads run; the producer returns once its channel is closed; the sink's
\* failures, cancellations and sends are nobody's duty.
Fairness ==
    /\ \A s \in Senders : WF_vars(SenderSchedule(s)) /\ WF_vars(SenderEnqueue(s))
    /\ \A c \in Channels :
          /\ WF_vars(chan[c].stopping /\ ProducerReturn(c))
          /\ WF_vars(ProducerSchedule(c)) /\ WF_vars(ProducerEnqueue(c))
          /\ WF_vars(owner[c] = "finish" /\ Finish(c))
          /\ SF_vars(Revoke(c)) /\ WF_vars(Join(c))
    /\ WF_vars(Take) /\ WF_vars(Collect) /\ WF_vars(CheckStop) /\ WF_vars(Commit) /\ WF_vars(PublishDone)
    /\ WF_vars(EndTurn) /\ WF_vars(Requeue) /\ WF_vars(PublisherExit)

LiveSpec == Spec /\ Fairness

-----------------------------------------------------------------------------
(* Properties.                                                              *)

\* The shape of the state: a latest channel holds at most one value.
TypeOK ==
    /\ \A c \in Channels :
          /\ chan[c].scheduled \in BOOLEAN /\ chan[c].stopping \in BOOLEAN
          /\ Len(chan[c].values) <= IF c \in LatestOnly THEN 1 ELSE Capacity
          /\ producer[c] \in {"none", "running", "schedule", "enqueue", "gone"}
          /\ owner[c] \in {"none", "live", "finish", "revoke", "join", "gone"}
    /\ \A b \in DOMAIN used : used[b] \in [values : Nat, bytes : Nat]
    /\ \A s \in Senders : sender[s].pc \in {"idle", "schedule", "enqueue"}
    /\ turn.pc \in {"idle", "lock", "publish", "commit", "finish", "requeue"}
    /\ pool \in {"dormant", "running", "stopping", "stopped"}

\* Threads that are about to reserve a turn for a channel.
AboutToSchedule(c) ==
    \/ producer[c] = "schedule"
    \/ \E s \in Senders : sender[s] = [pc |-> "schedule", ch |-> c]
    \/ turn.ch = c /\ turn.pc \in {"lock", "publish", "commit", "finish"}

\* No lost wakeup: an attached channel with work has a turn, or some thread
\* still has to look whether it needs one (reserve_schedule).
WorkHasATurn ==
    \A c \in Channels :
        chan[c].scheduler /\ ~chan[c].stopping /\ HasWork(chan[c])
            => chan[c].scheduled \/ AboutToSchedule(c)

\* The holders of a reserved turn: queue entries, the publisher, a thread
\* about to enqueue.
Turns(c) ==
    Cardinality({i \in 1..Len(ready) : ready[i] = c})
    + (IF turn.ch = c THEN 1 ELSE 0)
    + (IF producer[c] = "enqueue" THEN 1 ELSE 0)
    + Cardinality({s \in Senders : sender[s] = [pc |-> "enqueue", ch |-> c]})

\* While the publisher runs, a scheduled channel has exactly one turn and an
\* unscheduled one none (reserve_schedule, publish_batch's last transition).
OneTurnPerChannel ==
    pool = "running" => \A c \in Channels : Turns(c) = IF chan[c].scheduled THEN 1 ELSE 0

\* What each budget has granted is what its channels hold: queued values and
\* the batch being published, never above the limits (BufferLedger).
BudgetsBalance ==
    \A b \in DOMAIN used :
        LET mine == {c \in Channels : b \in BudgetsOf(c)}
            Held(c) == chan[c].values \o (IF turn.ch = c THEN turn.held ELSE <<>>)
            All == FoldSeq(LAMBDA c, all : Held(c) \o all, <<>>, SetToSeq(mine))
        IN /\ used[b] = [values |-> Len(All), bytes |-> Bytes(All)]
           /\ used[b].values <= Limits[b].values /\ used[b].bytes <= Limits[b].bytes

\* Values reach the sink in the order they were accepted, never twice; a FIFO
\* channel skips none; the terminal error comes last (publish_batch).
PublishedInOrder ==
    \A c \in Channels :
        LET out == published[c]
        IN \A i, j \in 1..Len(out) :
              i < j => /\ out[i] # ErrorValue
                       /\ out[j] # ErrorValue =>
                              IF c \in LatestOnly THEN out[i].n < out[j].n ELSE out[j].n - out[i].n = j - i

\* Nothing is published for a channel whose sink is revoked: neither by the
\* batch that was under way nor by a queued turn (finish's barrier).
RevokedIsSilent ==
    [][\A c \in Channels : owner[c] \in {"join", "gone"} => published'[c] = published[c]]_vars

\* A producer thread is covered by its worker permits until it is joined.
ProducersArePermitted ==
    \A c \in Channels : producer[c] \in {"running", "schedule", "enqueue"} => c \in permits

\* Every accepted value is eventually published, replaced by a newer one, or
\* dropped by the end of the subscription.
AcceptedIsPublished ==
    \A c \in Channels : \A n \in 1..MaxSent :
        sent[c] = n ~> \/ chan[c].stopping
                       \/ \E i \in 1..Len(published[c]) : published[c][i].n >= n

\* A failure that is to be published is published, unless the channel stops.
FailureIsPublished ==
    \A c \in Channels :
        chan[c].terminal ~> chan[c].stopping \/ \E i \in 1..Len(published[c]) : published[c][i] = ErrorValue

\* A subscription that is ended gets through its barriers.
FinishReturns == \A c \in Channels : owner[c] = "finish" ~> owner[c] = "gone"
=============================================================================
