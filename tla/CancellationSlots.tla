-------------------------- MODULE CancellationSlots --------------------------
(***************************************************************************)
(* Cancellation scopes over reusable slots (xlfn/src/cancellation.rs).     *)
(*                                                                         *)
(* A scope is one CancellationSource.  It borrows a slot from a shard of   *)
(* the registry for one generation and gives it back when it is dropped;   *)
(* the slot itself lives as long as the process, so tokens, cancellation   *)
(* futures and task registrations that outlive the scope keep reading it,  *)
(* possibly after it was handed to a later scope.  Readers use no lock:    *)
(* each load of is_cancelled is a step of its own.  Everything else runs   *)
(* under the slot's waiter lock; the stores that a lock-free reader can    *)
(* see half-done are separate steps that hold that lock.                   *)
(***************************************************************************)
EXTENDS Naturals, Sequences, FiniteSets, TLC

CONSTANTS Scopes,    \* the sources that are created, each once
          Kinds,     \* the observers of a scope: "task" is the framework
                     \* task's registration, "future" a Cancelled future
          Wakers,    \* the identities of wakers a poll may carry
          MaxGen,    \* u64::MAX of the code: the last usable generation
          MaxPolls,  \* polls of one waiter
          None

Waiters == Kinds \X Scopes

VARIABLES slots,   \* the shard's slots, never freed
          free,    \* indices of the slots that may be reused
          shard,   \* holder of the shard lock
          own,     \* own[s]: the source of scope s
          wait,    \* wait[x]: the observer x, between and during its polls
          won,     \* scopes whose completion took the right to deliver
          woken    \* observers whose registered waker was woken

vars == <<slots, free, shard, own, wait, won, woken>>

NewSlot == [gen |-> 1, cancelled |-> FALSE, delivery |-> "running",
            task |-> None, entries |-> <<>>, nextId |-> 1, lock |-> None]

Init == /\ slots = <<>>
        /\ free = <<>>
        /\ shard = None
        /\ own = [s \in Scopes |-> [pc |-> "unborn", slot |-> 0, gen |-> 0, wake |-> {}]]
        /\ wait = [x \in Waiters |-> [pc |-> "idle", phase |-> "enter", waker |-> None,
                                      reg |-> None, id |-> 0, polls |-> 0, late |-> FALSE]]
        /\ won = {}
        /\ woken = {}

Slot(s) == slots[own[s].slot]
Unlocked(s) == Slot(s).lock = None
Own(s, change) == own' = [own EXCEPT ![s] = change @@ @]
Wait(x, change) == wait' = [wait EXCEPT ![x] = change @@ @]
SetSlot(s, change) == slots' = [slots EXCEPT ![own[s].slot] = change @@ @]

\* The token, future or registration of x still names the slot's generation.
Current(s) == Slot(s).gen = own[s].gen

\* The scope was cancelled, or its source is gone.
Ended(s) == \/ own[s].pc \in {"released", "gone"}
            \/ own[s].pc \in {"live", "releasing"} /\ Slot(s).cancelled

-----------------------------------------------------------------------------
(* CancellationRegistry::allocate_in_shard: pop a free slot and start its   *)
(* next generation, or push a fresh one.                                    *)

AllocateFresh(s) ==
    /\ own[s].pc = "unborn"
    /\ shard = None
    /\ free = <<>>
    /\ slots' = Append(slots, NewSlot)
    /\ Own(s, [pc |-> "live", slot |-> Len(slots) + 1, gen |-> 1])
    /\ UNCHANGED <<free, shard, wait, won, woken>>

(* A broken variant: the slot is handed out and stays on the free list. *)
LeavesOnList(list) == list
TakenFrom(list) == SubSeq(list, 1, Len(list) - 1)

\* The generation is published before the fields of the old scope are reset.
AllocateReuse(s) ==
    /\ own[s].pc = "unborn"
    /\ shard = None
    /\ free # <<>>
    /\ LET i == free[Len(free)] IN
       /\ slots[i].lock = None
       /\ free' = TakenFrom(free)
       /\ slots' = [slots EXCEPT ![i] = [gen |-> @.gen + 1, nextId |-> 1, lock |-> s] @@ @]
       /\ Own(s, [pc |-> "resetting", slot |-> i, gen |-> slots[i].gen + 1])
    /\ shard' = s
    /\ UNCHANGED <<wait, won, woken>>

ResetFlag(s) ==
    /\ own[s].pc = "resetting"
    /\ SetSlot(s, [cancelled |-> FALSE])
    /\ Own(s, [pc |-> "restarting"])
    /\ UNCHANGED <<free, shard, wait, won, woken>>

ResetDelivery(s) ==
    /\ own[s].pc = "restarting"
    /\ SetSlot(s, [delivery |-> "running", lock |-> None])
    /\ shard' = None
    /\ Own(s, [pc |-> "live"])
    /\ UNCHANGED <<free, wait, won, woken>>

-----------------------------------------------------------------------------
(* CancellationSource::cancel and drop.  cancel_locked closes the delivery  *)
(* race, publishes the flag and detaches the wakers, which run unlocked.    *)

(* A broken variant: cancellation overrides a delivery that already won. *)
OverridesDelivery(state) == "cancelled"
CancelsDelivery(state) == IF state = "running" THEN "cancelled" ELSE state

CancelBegin(s) ==
    /\ own[s].pc = "live"
    /\ ~Slot(s).cancelled
    /\ Unlocked(s)
    /\ SetSlot(s, [delivery |-> CancelsDelivery(Slot(s).delivery), lock |-> s])
    /\ Own(s, [pc |-> "cancelling"])
    /\ UNCHANGED <<free, shard, wait, won, woken>>

\* The wakers a cancellation takes out of the slot: all of them.
Detached(s) == {<<"future", e[1], e[2]>> : e \in {Slot(s).entries[i] : i \in DOMAIN Slot(s).entries}}
               \cup (IF Slot(s).task = None THEN {} ELSE {<<"task">> \o Slot(s).task})
NoWaiters == [entries |-> <<>>, task |-> None]

(* A broken variant: the flag is published, the registered task is not taken. *)
ForgetsTask(s) == {w \in Detached(s) : w[1] = "future"}
Notified(s) == Detached(s)

CancelFinish(s) ==
    /\ own[s].pc = "cancelling"
    /\ SetSlot(s, [cancelled |-> TRUE, lock |-> None] @@ NoWaiters)
    /\ Own(s, [pc |-> "live", wake |-> Notified(s)])
    /\ UNCHANGED <<free, shard, wait, won, woken>>

ReleaseBegin(s) ==
    /\ own[s].pc = "live"
    /\ own[s].wake = {}
    /\ shard = None
    /\ Unlocked(s)
    /\ SetSlot(s, [delivery |-> CancelsDelivery(Slot(s).delivery), lock |-> s])
    /\ shard' = s
    /\ Own(s, [pc |-> "releasing"])
    /\ UNCHANGED <<free, wait, won, woken>>

(* A broken variant: a slot whose generations are used up is offered again. *)
ReusableAlways(gen) == TRUE
Reusable(gen) == gen # MaxGen

ReleaseFinish(s) ==
    /\ own[s].pc = "releasing"
    /\ SetSlot(s, [cancelled |-> TRUE, lock |-> None] @@ NoWaiters)
    /\ free' = IF Reusable(own[s].gen) THEN Append(free, own[s].slot) ELSE free
    /\ shard' = None
    /\ Own(s, [pc |-> "released", wake |-> Notified(s)])
    /\ UNCHANGED <<wait, won, woken>>

\* DetachedWaiters::wake, no lock held: public futures first, then the task.
WakeOne(s) ==
    \E w \in own[s].wake :
        /\ w[1] = "task" => \A v \in own[s].wake : v[1] # "future"
        /\ woken' = woken \cup {w}
        /\ Own(s, [wake |-> own[s].wake \ {w}])
        /\ UNCHANGED <<slots, free, shard, wait, won>>

Gone(s) ==
    /\ own[s].pc = "released"
    /\ own[s].wake = {}
    /\ Own(s, [pc |-> "gone"])
    /\ UNCHANGED <<slots, free, shard, wait, won, woken>>

-----------------------------------------------------------------------------
(* is_cancelled, load by load.  The generation is read before and after:    *)
(* fields that were reset for a later scope imply a later generation.       *)

Poll(x, w) ==
    LET s == x[2] IN
    /\ wait[x].pc \in {"idle", "parked"}
    /\ wait[x].polls < MaxPolls
    /\ own[s].pc \notin {"unborn", "resetting", "restarting"}
    /\ Wait(x, [pc |-> "gen1", phase |-> "enter", waker |-> w,
                polls |-> wait[x].polls + 1, late |-> Ended(s)])
    /\ woken' = {v \in woken : ~(v[1] = x[1] /\ v[2] = s)}
    /\ UNCHANGED <<slots, free, shard, own, won>>

\* What a poll does once is_cancelled answered.
Answered(x, cancelled) ==
    IF cancelled THEN [pc |-> "leaving", reg |-> None]
    ELSE IF wait[x].phase = "confirm" \/ wait[x].reg = wait[x].waker THEN [pc |-> "parked"]
    ELSE [pc |-> IF x[1] = "task" THEN "peek" ELSE "register"]

Load(x, at, cancelled, next) ==
    /\ wait[x].pc = at
    /\ Wait(x, IF cancelled THEN Answered(x, TRUE)
               ELSE IF next = "answer" THEN Answered(x, FALSE) ELSE [pc |-> next])
    /\ UNCHANGED <<slots, free, shard, own, won, woken>>

(* A broken variant: the second look at the generation is left out. *)
TrustsFields(s) == FALSE
Rechecks(s) == ~Current(s)

LoadGeneration(x) == Load(x, "gen1", ~Current(x[2]), "flag")
LoadFlag(x) == Load(x, "flag", Slot(x[2]).cancelled,
                    IF x[1] = "task" THEN "gen2" ELSE "state")
LoadDelivery(x) == Load(x, "state", Slot(x[2]).delivery = "cancelled", "gen2")
ReloadGeneration(x) == Load(x, "gen2", Rechecks(x[2]), "answer")

-----------------------------------------------------------------------------
(* Registering a waker under the slot's lock.                               *)

\* A registered waker is recorded with the scope whose observer it wakes.
\* TaskCancellationRegistration: the first lock only looks; cloning the waker
\* may reenter cancellation, so the second lock decides again.
Lapsed(s) == ~Current(s) \/ Slot(s).cancelled

(* A broken variant: the second lock repeats neither check. *)
AssumesUnchanged(s) == FALSE
Revalidates(s) == Lapsed(s)

PeekTask(x) ==
    LET s == x[2] IN
    /\ wait[x].pc = "peek"
    /\ Unlocked(s)
    /\ Wait(x, IF Lapsed(s) THEN [pc |-> "leaving", reg |-> None]
               ELSE IF Slot(s).task = <<s, wait[x].waker>>
                    THEN [pc |-> "parked", reg |-> wait[x].waker]
                    ELSE [pc |-> "register"])
    /\ UNCHANGED <<slots, free, shard, own, won, woken>>

RegisterTask(x) ==
    LET s == x[2] IN
    /\ x[1] = "task" /\ wait[x].pc = "register"
    /\ Unlocked(s)
    /\ IF Revalidates(s)
       THEN Wait(x, [pc |-> "gen1", phase |-> "confirm", reg |-> None]) /\ UNCHANGED slots
       ELSE /\ SetSlot(s, [task |-> <<s, wait[x].waker>>])
            /\ Wait(x, [pc |-> "gen1", phase |-> "confirm", reg |-> wait[x].waker])
    /\ UNCHANGED <<free, shard, own, won, woken>>

\* Cancelled::poll: one lock, under which the scope can neither end nor be
\* replaced; the waiter's id is issued by the slot.  Entry i is <<s, waker, i>>.
Without(entries, id) == SelectSeq(entries, LAMBDA e : e[3] # id)

(* A broken variant: the lock is trusted to protect the scope it was taken for. *)
NeverReplaced(s) == FALSE
Replaced(s) == ~Current(s)

RegisterFuture(x) ==
    LET s == x[2]
        id == IF wait[x].id = 0 THEN Slot(s).nextId ELSE wait[x].id
    IN
    /\ x[1] = "future" /\ wait[x].pc = "register"
    /\ Unlocked(s)
    /\ IF Replaced(s)
       THEN Wait(x, [pc |-> "leaving", reg |-> None, id |-> 0]) /\ UNCHANGED slots
       ELSE IF Slot(s).cancelled \/ Slot(s).delivery = "cancelled"
       THEN /\ Wait(x, [pc |-> "leaving", reg |-> None, id |-> 0])
            /\ SetSlot(s, [entries |-> Without(Slot(s).entries, wait[x].id)])
       ELSE /\ Wait(x, [pc |-> "parked", reg |-> wait[x].waker, id |-> id])
            /\ SetSlot(s, [entries |-> Append(Without(Slot(s).entries, id), <<s, wait[x].waker, id>>),
                           nextId |-> IF wait[x].id = 0 THEN id + 1 ELSE Slot(s).nextId])
    /\ UNCHANGED <<free, shard, own, won, woken>>

(* A broken variant: cleanup reaches into whatever scope holds the slot now. *)
AnyGeneration(s) == TRUE
SameGeneration(s) == Current(s)

\* Ready, or dropped between polls: the observer's entry leaves the slot, if
\* the slot still serves its scope.
Leave(x) ==
    LET s == x[2]
        mine == IF x[1] = "task" THEN [task |-> None]
                ELSE [entries |-> Without(Slot(s).entries, wait[x].id)]
    IN
    /\ wait[x].pc \in {"idle", "parked", "leaving"}
    /\ own[s].pc # "unborn"
    /\ Unlocked(s)
    /\ IF SameGeneration(s) THEN SetSlot(s, mine) ELSE UNCHANGED slots
    /\ Wait(x, [pc |-> "dropped", reg |-> None, id |-> 0])
    /\ UNCHANGED <<free, shard, own, won, woken>>

-----------------------------------------------------------------------------
(* The delivery race: try_start_delivery and finish_delivery.               *)

(* A broken variant: a token competes for whatever scope holds its slot. *)
MayDeliverAny(s) == Slot(s).delivery = "running"
MayDeliver(s) == Current(s) /\ Slot(s).delivery = "running"

TryStartDelivery(s) ==
    /\ own[s].pc \notin {"unborn", "resetting", "restarting"}
    /\ s \notin won
    /\ Unlocked(s)
    /\ MayDeliver(s)
    /\ SetSlot(s, [delivery |-> "delivering"])
    /\ won' = won \cup {s}
    /\ UNCHANGED <<free, shard, own, wait, woken>>

FinishDelivery(s) ==
    /\ s \in won
    /\ Unlocked(s)
    /\ Current(s) /\ Slot(s).delivery = "delivering"
    /\ SetSlot(s, [delivery |-> "done"])
    /\ UNCHANGED <<free, shard, own, wait, won, woken>>

Finished ==
    /\ \A s \in Scopes : own[s].pc = "gone"
    /\ \A x \in Waiters : wait[x].pc = "dropped"
    /\ UNCHANGED vars

Source(s) == \/ AllocateFresh(s) \/ AllocateReuse(s) \/ ResetFlag(s) \/ ResetDelivery(s)
             \/ CancelBegin(s) \/ CancelFinish(s)
             \/ ReleaseBegin(s) \/ ReleaseFinish(s)
             \/ WakeOne(s) \/ Gone(s)
             \/ TryStartDelivery(s) \/ FinishDelivery(s)

\* The steps of a poll that was started.
PollStep(x) == \/ LoadGeneration(x) \/ LoadFlag(x) \/ LoadDelivery(x) \/ ReloadGeneration(x)
               \/ PeekTask(x) \/ RegisterTask(x) \/ RegisterFuture(x)

Next == \/ \E s \in Scopes : Source(s)
        \/ \E x \in Waiters : PollStep(x) \/ Leave(x) \/ \E w \in Wakers : Poll(x, w)
        \/ Finished

Spec == Init /\ [][Next]_vars

(* Fairness: a critical section and a started poll run to their end, the    *)
(* wakers of an ended scope are called, and a woken observer is polled.     *)
PollWoken(x) == /\ \E w \in Wakers : <<x[1], x[2], w>> \in woken
                /\ \E w \in Wakers : Poll(x, w)
Fairness ==
   /\ \A s \in Scopes : WF_vars(ResetFlag(s) \/ ResetDelivery(s) \/ CancelFinish(s)
                                \/ ReleaseFinish(s) \/ WakeOne(s))
   /\ \A x \in Waiters : /\ SF_vars(PollStep(x) \/ (wait[x].pc = "leaving" /\ Leave(x)))
                         /\ WF_vars(PollWoken(x))

LiveSpec == Spec /\ Fairness

-----------------------------------------------------------------------------
\* Shapes of the registry, its sources and its observers.
TypeOK ==
    /\ \A i \in DOMAIN slots : slots[i].gen \in 1..MaxGen
    /\ \A i \in DOMAIN free : free[i] \in DOMAIN slots
    /\ shard \in Scopes \cup {None}
    /\ \A s \in Scopes : own[s].slot \in 0..Len(slots)
    /\ \A x \in Waiters : wait[x].pc \in {"idle", "gen1", "flag", "state", "gen2", "peek",
                                          "register", "parked", "leaving", "dropped"}
    /\ won \subseteq Scopes

\* A poll that began after its scope ended never answers Pending: whatever
\* later scope has taken the slot over in the meantime, the token is
\* "permanently cancelled".
EndedStaysEnded ==
    \A x \in Waiters : wait[x].pc = "parked" => ~wait[x].late

\* No lost wake-up: an observer that answered Pending either still has the
\* waker of its last poll registered for its own scope, or that waker is about
\* to be called, or it was called.
ParkedIsReachable ==
    \A x \in Waiters : wait[x].pc = "parked" =>
        LET s == x[2]
            me == <<x[1], s, wait[x].waker>>
        IN \/ Current(s) /\ me \in Detached(s)
           \/ me \in own[s].wake
           \/ me \in woken

\* A slot's wakers belong to the scope that holds the slot: nothing an
\* observer of an earlier scope left behind is woken by a later one.
WaitersBelong ==
    \A s \in Scopes : own[s].pc = "live" =>
        \A i \in DOMAIN Slot(s).entries : Slot(s).entries[i][1] = s

\* Delivery and cancellation are decided once per scope: the right to deliver
\* is won only before the scope ends, and a scope in delivery is not cancelled.
DeliveryBeforeEnd ==
    [][\A s \in Scopes : s \in won' \ won => ~Ended(s)]_vars
DecidedOnce ==
    \A s \in won : Current(s) => Slot(s).delivery \in {"delivering", "done"}

\* Distinct live scopes hold distinct slots, and no live scope's slot is free.
SlotsAreExclusive ==
    \A s \in Scopes : own[s].pc \in {"live", "cancelling", "resetting", "restarting"} =>
        /\ \A t \in Scopes \ {s} : own[t].pc \in {"live", "cancelling"} => own[t].slot # own[s].slot
        /\ \A i \in DOMAIN free : free[i] # own[s].slot

\* Every observer that waits on a scope that ended is finished, provided its
\* task keeps polling it when woken.
EndedIsObserved ==
    \A x \in Waiters :
        (Ended(x[2]) /\ wait[x].pc = "parked" /\ wait[x].polls < MaxPolls)
            ~> (wait[x].pc = "dropped")
=============================================================================
