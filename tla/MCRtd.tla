------------------------------- MODULE MCRtd -------------------------------
(***************************************************************************)
(* The data plane of RTD subscriptions on small instances: channels        *)
(* between a source and its sink (RtdChannel), publication, refresh and    *)
(* notification (RtdRefresh), a source that serves all of its topics from  *)
(* one worker (MultiplexedSource), and what sources, topics and            *)
(* subscriptions are told apart by (RtdIdentity), and the COM server that  *)
(* Excel talks to (ExcelRtdServer).  Each behaviour runs the instance that *)
(* component names; the other modules do not move.  The last three keep    *)
(* their state in the registers of RtdRefresh.                             *)
(***************************************************************************)
EXTENDS RtdChannel, TLC

CONSTANTS Parts,                             \* the instances a run looks at
          f, l, t1, t2, p1, p2, s1, s2, val1, val2,
          MaxErrors, MaxSeq
\* Two topics may be exchanged with their shards and publishers, and so may two senders,
\* callers, stoppers or threads; the other instances name their topic f and its shard l.
Exchange ==
  {p \in Permutations({t1, t2, p1, p2, s1, s2}) :
     <<p[t1], p[t2], p[p1], p[p2], p[s1], p[s2]>>
       \in {<<t1, t2, p1, p2, s1, s2>>, <<t2, t1, p2, p1, s2, s1>>}}

VARIABLES component, active, pending, tally, epoch, notified, refresh, batch, plan, at,
          locked, server, told, errors, pulses, accepted, shown

refreshVars == <<active, pending, tally, epoch, notified, refresh, batch, plan, at,
                 locked, server, told, errors, pulses, accepted, shown>>
rtdVars == <<component, vars, refreshVars>>

OneSource == [c \in Channels |-> "source"]
Tight == ("source" :> [values |-> 3, bytes |-> 4]) @@ ("runtime" :> [values |-> 3, bytes |-> 3])

\* One FIFO channel with two senders.
Senders2 == INSTANCE RtdChannel WITH
  Channels <- {f}, LatestOnly <- {}, Senders <- {s1, s2}, SourceOf <- [c \in {f} |-> "source"],
  Sizes <- {1}, MaxSent <- 3

\* One latest-only channel whose values are replaced, in values of two sizes.
Latest == INSTANCE RtdChannel WITH
  Channels <- {l}, LatestOnly <- {l}, SourceOf <- [c \in {l} |-> "source"], MaxSent <- 3

\* Two topics in shards of their own, a source each, and a heartbeat.
Two == INSTANCE RtdRefresh WITH
  Topics <- {t1, t2}, Shards <- {s1, s2}, ShardOf <- t1 :> s1 @@ t2 :> s2, Connected <- {t1, t2},
  Publishers <- {p1, p2}, TopicOf <- p1 :> t1 @@ p2 :> t2, Values <- {val1}, Ops <- {"pulse"},
  Sends <- {"one"}, BatchSize <- 2, QueueLimit <- 4, MaxGen <- 1, MaxEpoch <- 1 - MaxErrors,
  MaxPulses <- 1 - MaxErrors
\* Two sinks of one topic, single values and batches, a queue quota of one.
One == INSTANCE RtdRefresh WITH
  Topics <- {f}, Shards <- {l}, ShardOf <- f :> l, Connected <- {f},
  Publishers <- {p1, p2}, TopicOf <- p1 :> f @@ p2 :> f, Values <- {val1, val2}, Ops <- {},
  Sends <- {"one", "batch"}, BatchSize <- 2, QueueLimit <- 1, MaxSeq <- 2, MaxGen <- 1, MaxEpoch <- 0,
  MaxErrors <- 1, MaxPulses <- 0
\* Failing notify calls, heartbeats and a replaced notifier.
Ring == INSTANCE RtdRefresh WITH
  Topics <- {f}, Shards <- {l}, ShardOf <- f :> l, Connected <- {f},
  Publishers <- {p1, p2}, TopicOf <- p1 :> f @@ p2 :> f, Values <- {val1}, Ops <- {"pulse", "attach"},
  Sends <- {"one"}, BatchSize <- 2, QueueLimit <- 4, MaxSeq <- 1, MaxGen <- 1, MaxEpoch <- 1,
  MaxErrors <- 1, MaxPulses <- 1
\* A topic that is connected, published to, rolled back and connected again.
Link == INSTANCE RtdRefresh WITH
  Topics <- {t1}, Shards <- {s1}, ShardOf <- t1 :> s1, Connected <- {},
  Publishers <- {p1}, TopicOf <- p1 :> t1, Values <- {val1}, Ops <- {"connect", "disconnect"},
  Sends <- {"one"}, BatchSize <- 2, QueueLimit <- 4, MaxSeq <- 1, MaxGen <- 2, MaxEpoch <- 1,
  MaxErrors <- 1, MaxPulses <- 0
\* Termination of the server under publishers and refreshes.
Stop == INSTANCE RtdRefresh WITH
  Topics <- {t1, t2}, Shards <- {s1, s2}, ShardOf <- t1 :> s1 @@ t2 :> s2, Connected <- {t1, t2},
  Publishers <- {p1, p2}, TopicOf <- p1 :> t1 @@ p2 :> t2, Values <- {val1}, Ops <- {"stop"},
  Sends <- {"batch"}, BatchSize <- 2, QueueLimit <- 4, MaxSeq <- 1, MaxGen <- 1, MaxEpoch <- 0,
  MaxErrors <- 0, MaxPulses <- 0

\* Two subscribers of one source, and two threads that stop it or shut it down.
Sources == INSTANCE MultiplexedSource WITH
  Callers <- {p1, p2}, Stoppers <- {s1, s2}, SourceLimit <- 2, MaxId <- 3, Nobody <- None,
  shared <- active, worker <- pending, job <- tally, thread <- epoch, slots <- notified,
  workers <- refresh, channels <- batch, callers <- plan, stoppers <- at, known <- locked
\* Two openings with the same generation number; topics whose hashes collide, of which one
\* has more UTF-8 bytes than UTF-16 units.
Part(text, bytes, units) == [text |-> text, bytes |-> bytes, units |-> units]
Names == INSTANCE RtdIdentity WITH
  Texts <- {Part("empty", 0, 0), Part(val1, 1, 1), Part(val2, 1, 1), Part("wide", 5, 2), Part("long", 5, 5)},
  MaxParts <- 1, MaxBytes <- 6, StringLimit <- 4, Generations <- {1}, MaxRuntimes <- 2, MaxSources <- 2,
  MaxSourceIds <- 1, MaxIds <- 2, Base <- 3, Width <- 2, runtimes <- active, handles <- pending
\* One server object: calls, callbacks, leases and closers of both back ends.
Served == INSTANCE ExcelRtdServer WITH
  srv <- active, active <- pending, stacks <- tally, Threads <- {p1, p2}, MaxServers <- 1,
  MaxDepth <- 2, Backends <- {"subs", "handles"},
  Calling <- {"com", "terminate", "shutdown", "notify"},
  Faults <- {"wait", "panic"}
\* One server object and every failure.
Failing == INSTANCE ExcelRtdServer WITH
  srv <- active, active <- pending, stacks <- tally, Threads <- {p1, p2}, MaxServers <- 1,
  MaxDepth <- 2, Backends <- {"subs"}, Calling <- {"com", "terminate", "shutdown", "start", "notify"},
  Faults <- {"wait", "spawn", "start", "panic"}
\* A server that is replaced while the earlier one still ends.
Replaced == INSTANCE ExcelRtdServer WITH
  srv <- active, active <- pending, stacks <- tally, Threads <- {p1, p2}, MaxServers <- 2,
  MaxDepth <- 1, Backends <- {"subs"}, Calling <- {"terminate", "shutdown"}, Faults <- {"wait"}

restOfSources == <<server, told, errors, pulses, accepted, shown>>
restOfServers == <<epoch, notified, refresh, batch, plan, at, locked>>
restOfNames == <<tally, epoch, notified, refresh, batch, plan, at, locked>>
BlankRest == server = 0 /\ told = 0 /\ errors = 0 /\ pulses = 0 /\ accepted = 0 /\ shown = 0
BlankServers == /\ epoch = 0 /\ notified = 0 /\ refresh = 0
                /\ batch = 0 /\ plan = 0 /\ at = 0 /\ locked = 0

RtdInit ==
  /\ component \in Parts
  /\ CASE component = "senders" -> Senders2!Init
       [] component = "latest" -> Latest!Init
       [] OTHER -> Init
  /\ CASE component = "one" -> One!Init
       [] component = "ring" -> Ring!Init
       [] component = "link" -> Link!Init
       [] component = "stop" -> Stop!Init
       [] component = "sources" -> Sources!Init /\ BlankRest
       [] component = "names" -> Names!Init /\ tally = 0 /\ BlankServers /\ BlankRest
       [] component = "served" -> Served!Init /\ BlankServers /\ BlankRest
       [] component = "failing" -> Failing!Init /\ BlankServers /\ BlankRest
       [] component = "replaced" -> Replaced!Init /\ BlankServers /\ BlankRest
       [] OTHER -> Two!Init

ChannelStep == /\ \/ component = "channel" /\ Next
                  \/ component = "senders" /\ Senders2!Next
                  \/ component = "latest" /\ Latest!Next
               /\ UNCHANGED <<component, refreshVars>>
RefreshStep == /\ \/ component = "two" /\ Two!Next
                  \/ component = "one" /\ One!Next
                  \/ component = "ring" /\ Ring!Next
                  \/ component = "link" /\ Link!Next
                  \/ component = "stop" /\ Stop!Next
               /\ UNCHANGED <<component, vars>>

SourceStep == /\ \/ component = "sources" /\ Sources!Next
                 \/ component = "names" /\ Names!Next /\ UNCHANGED restOfNames
                 \/ component = "served" /\ Served!Next /\ UNCHANGED restOfServers
                 \/ component = "failing" /\ Failing!Next /\ UNCHANGED restOfServers
                 \/ component = "replaced" /\ Replaced!Next /\ UNCHANGED restOfServers
              /\ UNCHANGED <<component, vars, restOfSources>>
\* Subscribers, registrations and calls need not go on, and are bounded here.
Rest == component \in {"sources", "names", "served", "failing", "replaced"} /\ UNCHANGED rtdVars

RtdNext == ChannelStep \/ RefreshStep \/ SourceStep \/ Rest
RtdSpec == RtdInit /\ [][RtdNext]_rtdVars

(* Each part under its own fairness; component never changes.              *)
RtdLiveSpec ==
  /\ RtdSpec
  /\ \/ []<>(component = "channel") /\ Fairness
     \/ []<>(component = "two") /\ Two!Fairness

-----------------------------------------------------------------------------
(* RtdChannel: each budget has granted exactly what its channels hold, in  *)
(* values and bytes, and never more than its limits.  MultiplexedSource:   *)
(* the slots in use are those of subscribers and of removals the producer  *)
(* has not read, and the room for every removal is reserved.               *)
BudgetsExact ==
  /\ component = "channel" => BudgetsBalance
  /\ component = "latest" => Latest!BudgetsBalance
  /\ component = "sources" => Sources!SlotsExact /\ Sources!RemovalsFit

(* The variables have their types, and the counters their ranges.          *)
Types ==
  /\ component = "channel" => TypeOK
  /\ component = "one" => One!TypeOK
  /\ component = "link" => Link!TypeOK
  /\ component = "sources" => Sources!TypeOK
  /\ component = "names" => Names!TypeOK
  /\ component = "served" => Served!TypeOK

(* RtdChannel: an attached channel with work has exactly one turn, or some *)
(* thread is about to reserve it; values reach the sink in the order they  *)
(* were accepted, a FIFO channel skips none, the terminal error is last.   *)
(* MultiplexedSource: the producer hears of a subscription before its      *)
(* removal, and of each once.                                              *)
ChannelKeepsOrder ==
  /\ component = "senders" =>
       Senders2!WorkHasATurn /\ Senders2!OneTurnPerChannel /\ Senders2!PublishedInOrder
  /\ component = "latest" => Latest!WorkHasATurn /\ Latest!PublishedInOrder
  /\ component = "channel" => PublishedInOrder /\ ProducersArePermitted
  /\ component = "sources" => Sources!EventsInOrder

(* RtdRefresh: while the server is open the lock-free counters and the     *)
(* ready mask agree with the shard tables; a terminated server keeps no    *)
(* connection and no queued update.  MultiplexedSource: a shutdown that    *)
(* has returned leaves no worker and none can start, and no subscriber of  *)
(* a closed source waits.  RtdIdentity: the index of subscriptions finds   *)
(* each entry, and counts the sources in use.                              *)
CountersAgree ==
  /\ component = "two" => Two!CountersAgree
  /\ component = "link" => Link!CountersAgree
  /\ component = "stop" => Stop!TerminatedIsEmpty
  /\ component = "sources" => Sources!ShutdownIsABarrier /\ Sources!EveryoneIsTold
  /\ component = "names" => Names!IndexIsExact

(* RtdRefresh: the last value a committed connection accepted is what      *)
(* Excel holds, or it is queued and its payload is in its slot or in the   *)
(* running batch, whatever refreshes, failures and rotations intervene.    *)
NothingLost ==
  /\ component = "two" => Two!NothingLost
  /\ component = "one" => One!NothingLost /\ One!DedupIsExact
  /\ component = "link" => Link!NothingLost

(* RtdRefresh: a notify call in flight belongs to one thread, and a        *)
(* signaled notice was really taken by Excel and not answered since.       *)
OneCallPerTicket ==
  component = "ring" => Ring!OneCallPerTicket /\ Ring!SignaledIsTold

(* RtdIdentity: a source handle resolves in the opening that issued it and *)
(* in no other, a key comes back from Excel as it was sent, and a topic is *)
(* accepted exactly when it fits Excel.                                    *)
NamesAreExact ==
  component = "names" => Names!HandlesResolve /\ Names!KeysComeBack /\ Names!TopicsAreExact

(* ExcelRtdServer: references are counted exactly, the resources of a server are torn down *)
(* once and after everybody else has left, and a notification finds its callback. *)
ServersAreCounted ==
  /\ component = "served" =>
       Served!ReferencesExact /\ Served!DisposalIsExclusive /\ Served!NotifierIsAttached
  /\ component = "failing" =>
       Failing!ReferencesExact /\ Failing!DisposalIsExclusive /\ Failing!NotifierIsAttached
  /\ component = "replaced" => Replaced!ReferencesExact /\ Replaced!DisposalIsExclusive

(* Every accepted value reaches Excel or is superseded, and so does every  *)
(* value a channel accepts and every terminal error; a subscription that   *)
(* is ended gets through its barriers.                                     *)
AcceptedIsDelivered ==
  Two!AcceptedIsDelivered /\ AcceptedIsPublished /\ FailureIsPublished /\ FinishReturns
=============================================================================
