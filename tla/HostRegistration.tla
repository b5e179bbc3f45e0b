------------------------- MODULE HostRegistration -------------------------
(* What the add-in leaves in Excel and when its module may be unmapped:     *)
(* registration/, runtime_components/host_ledger.rs, residency.rs, and the  *)
(* host side of opening, rolling back and removing (boundary/host.rs,       *)
(* runtime/open.rs, transactions.rs, rollback.rs, shutdown/pipeline.rs).    *)
(* Excel calls on one thread; a call of the add-in back into Excel may be   *)
(* refused, may apply and answer badly, or may stop the whole entry.        *)
EXTENDS Naturals, FiniteSets, SequencesExt

CONSTANTS
    FunctionNames,  \* sequence of the Excel names the add-in registers
    Events,         \* sequence of the calculation events it registers
    Physical,       \* UnloadPolicy::PHYSICAL
    Faults,         \* which of "app", "stage", "panic", "free" may fail
    MaxId,          \* registration identifiers Excel hands out
    MaxMeddle       \* changes of names by others

VARIABLES
    excel,   \* names: what each name evaluates to; live: identifiers Excel may call; events
    ledger,  \* HostLedger: regs, debt, known, cleaning, retrying
    module,  \* ModuleResidency: lease and event slots; com: references held outside
    phase,   \* lifecycle phase
    intent,  \* HostLifecycleIntent
    app,     \* where the add-in's shared state is; producers: its runtime is running
    call,    \* the entry Excel is in, with its callback session
    used     \* [id: identifiers given out, meddle: changes by others]

vars == <<excel, ledger, module, phase, intent, app, call, used>>

Names == ToSet(FunctionNames)
EventSet == ToSet(Events)
Ids == 1..MaxId
Other == MaxId + 1          \* a name that evaluates to somebody else's binding
Entry(n, i) == [name |-> n, id |-> i]
NoJournal == [regs |-> <<>>, debt |-> {}, unknown |-> FALSE, over |-> {}]
Idle == [kind |-> "none", pc |-> "idle", permits |-> TRUE, newly |-> FALSE, marked |-> FALSE,
         todo |-> <<>>, got |-> <<>>, pend |-> <<>>, fail |-> <<>>, debt |-> {},
         then |-> "none", journal |-> NoJournal]

Init ==
    /\ excel = [names |-> [n \in Names |-> 0], live |-> {}, events |-> {}]
    /\ ledger = [regs |-> <<>>, debt |-> {}, known |-> TRUE, cleaning |-> FALSE, retrying |-> FALSE]
    /\ module = [lease |-> FALSE, slots |-> [e \in EventSet |-> "absent"], com |-> FALSE]
    /\ phase = "closed" /\ intent = "none"
    /\ app = [state |-> "none", producers |-> FALSE]
    /\ call = Idle
    /\ used = [id |-> 0, meddle |-> 0]

---------------------------------------------------------------------------
(* Calls into Excel. An entry's session stops at a terminal status. *)

\* mutation_from_invocation: what came back, what Excel did, whether the session goes on.
Replies ==
    {[kind |-> "applied", effect |-> TRUE, permits |-> TRUE]}
      \cup {[kind |-> "unreleased", effect |-> TRUE, permits |-> p] : p \in BOOLEAN}
      \cup {[kind |-> "rejected", effect |-> FALSE, permits |-> p] : p \in BOOLEAN}
      \cup {[kind |-> "malformed", effect |-> e, permits |-> p] : e, p \in BOOLEAN}
      \cup {[kind |-> "terminal", effect |-> e, permits |-> FALSE] : e \in BOOLEAN}

Applied(r) == r.kind \in {"applied", "unreleased"}

\* A query answers, fails, or fails with a terminal status.
Answers == {[ok |-> TRUE, permits |-> TRUE]} \cup {[ok |-> FALSE, permits |-> p] : p \in BOOLEAN}


\* The binding is still one of the registrations awaiting cleanup.
BindingMatches(n, ids) == excel.names[n] \in ids

\* delete_name_if_binding_matches: the possible outcomes of the query and the deletion.
Deletions(n, ids) ==
    {[applied |-> FALSE, effect |-> FALSE, permits |-> p] : p \in BOOLEAN}
      \cup (IF excel.names[n] = 0
            THEN {[applied |-> TRUE, effect |-> FALSE, permits |-> TRUE]} ELSE {})
      \cup (IF BindingMatches(n, ids)
            THEN {[applied |-> Applied(r), effect |-> r.effect, permits |-> r.permits] : r \in Replies}
            ELSE {})

Unnamed(n, d) == IF d.effect THEN [excel EXCEPT !.names[n] = 0] ELSE excel

---------------------------------------------------------------------------
(* Entries of Excel *)

\* quarantine_runtime and every handle_unload_hazard: terminal, nothing is released.
Quarantine ==
    /\ phase' = "quarantined"
    /\ call' = Idle

(* A broken variant: only references of COM clients keep the module. *)
IgnoresEvents == ~module.com

\* release_checked: refused while an event or a COM reference still needs the code.
MayUnmap == (\A e \in EventSet : module.slots[e] = "absent") /\ ~module.com

\* ResidencyRelease::release; a failed FreeLibrary quarantines.
Release(cleared) ==
    \/ /\ module' = [module EXCEPT !.lease = @ /\ ~MayUnmap]
       /\ intent' = cleared /\ call' = Idle
       /\ UNCHANGED phase
    \/ /\ "free" \in Faults /\ MayUnmap /\ module.lease
       /\ Quarantine
       /\ UNCHANGED <<module, intent>>

\* open_generated_addin, OpenResidency::acquire, host_auto_open_inner up to the phase test.
AutoOpen ==
    /\ call.kind = "none" /\ used.id + Len(FunctionNames) <= MaxId
    /\ module' = [module EXCEPT !.lease = TRUE]
    /\ call' = CASE phase = "quarantined" -> Idle
                 [] phase = "open" -> [Idle EXCEPT !.kind = "reload", !.pc = "drain"]
                 [] OTHER -> [Idle EXCEPT !.kind = "open", !.pc = "begin",
                                          !.newly = ~module.lease, !.marked = (intent = "complete")]
    /\ phase' = IF phase = "open" THEN "closing" ELSE phase
    /\ UNCHANGED <<excel, ledger, intent, app, used>>

\* deactivate_addin on an open add-in, from xlAutoClose or xlAutoRemove.
Deactivate(kind) ==
    /\ call.kind = "none" /\ phase = "open"
    /\ phase' = "closing" /\ intent' = "requested"
    /\ call' = [Idle EXCEPT !.kind = kind, !.pc = "drain"]
    /\ UNCHANGED <<excel, ledger, module, app, used>>

\* host_auto_close once the add-in is closed: release the module, or keep it resident.
AfterClose ==
    IF Physical THEN Release("none")
    ELSE intent' = "none" /\ call' = Idle /\ UNCHANGED <<module, phase>>

\* xlAutoClose and xlAutoRemove of an add-in that is closed already.
CloseClosed ==
    /\ call.kind = "none" /\ phase = "closed"
    /\ \/ AfterClose
       \/ intent' = "complete" /\ UNCHANGED <<module, phase, call>>
    /\ UNCHANGED <<excel, ledger, app, used>>

\* preparation_failed: a descriptor is invalid, nothing else has happened.
PreparationFails ==
    /\ call.kind = "none" /\ phase = "closed" /\ ~module.lease /\ Physical
    /\ module' = [module EXCEPT !.lease = ~MayUnmap]
    /\ UNCHANGED <<excel, ledger, phase, intent, app, call, used>>

\* defer_opening_deactivation: a close nested in a callback of the opening.
NestedClose ==
    /\ phase = "opening" /\ call.pc \in {"owe", "connect", "init", "event", "register", "undo"}
    /\ intent # "requested"
    /\ intent' = "requested"
    /\ UNCHANGED <<excel, ledger, module, phase, app, call, used>>

\* Somebody else defines or deletes a name, a COM client takes or drops a reference.
Outside ==
    /\ call.kind = "none"
    /\ \/ /\ used.meddle < MaxMeddle
          /\ \E n \in Names : \E b \in {0, Other} : excel' = [excel EXCEPT !.names[n] = b]
          /\ used' = [used EXCEPT !.meddle = @ + 1]
          /\ UNCHANGED module
       \/ /\ phase = "open" \/ module.com
          /\ module' = [module EXCEPT !.com = ~@]
          /\ UNCHANGED <<excel, used>>
    /\ UNCHANGED <<ledger, phase, intent, app, call>>

---------------------------------------------------------------------------
(* Opening *)

\* into_rollback().run: the journal goes to the ledger before anything is undone.
Rollback(c) == [c EXCEPT !.pc = "merge", !.then = "none", !.todo = <<>>, !.got = <<>>,
                         !.fail = <<>>, !.debt = {}]

Checked(c) == IF intent = "requested" THEN Rollback(c) ELSE c
At(pc) == call.pc = pc
NamesIn(debt) == SelectSeq(FunctionNames, LAMBDA n : \E d \in debt : d.name = n)
IdsOf(n, debt) == {d.id : d \in {x \in debt : x.name = n}}

\* begin_open_if_epoch and the start of retry_metadata_debt.
BeginOpen ==
    /\ At("begin")
    /\ phase' = "opening" /\ intent' = "none"
    /\ IF ledger.debt = {}
       THEN call' = [call EXCEPT !.pc = "connect"] /\ UNCHANGED ledger
       ELSE /\ ledger' = [ledger EXCEPT !.retrying = TRUE, !.debt = {}]
            /\ call' = [call EXCEPT !.pc = "owe", !.todo = NamesIn(ledger.debt), !.debt = ledger.debt]
    /\ UNCHANGED <<excel, module, app, used>>

\* retry_metadata_debt_with_host, one name at a time; what is left goes back.
Owe ==
    /\ At("owe")
    /\ IF call.todo # <<>> /\ call.permits
       THEN LET n == Head(call.todo) IN
            \E d \in Deletions(n, IdsOf(n, call.debt)) :
               /\ excel' = Unnamed(n, d)
               /\ call' = [call EXCEPT !.todo = Tail(@), !.permits = d.permits,
                             !.debt = IF d.applied THEN {x \in @ : x.name # n} ELSE @]
               /\ UNCHANGED ledger
       ELSE /\ ledger' = [ledger EXCEPT !.retrying = FALSE, !.debt = @ \cup call.debt]
            /\ call' = IF ~call.permits \/ intent = "requested" THEN Rollback(call)
                       ELSE [call EXCEPT !.pc = "connect", !.debt = {}, !.todo = <<>>]
            /\ UNCHANGED excel
    /\ UNCHANGED <<module, phase, intent, app, used>>

\* open_addin_inner up to HostRegistrar::connect: preparations and the module's name.
ConnectHost ==
    /\ At("connect")
    /\ \E a \in Answers :
          call' = IF a.ok THEN Checked([call EXCEPT !.pc = "init"])
                  ELSE Rollback([call EXCEPT !.permits = a.permits])
    /\ UNCHANGED <<excel, ledger, module, phase, intent, app, used>>

\* initialize_addin: A::open leaves nothing to quiesce when it fails, so that quarantines.
InitializeAddin ==
    /\ At("init")
    /\ \/ /\ app' = [state |-> "staged", producers |-> TRUE]
          /\ call' = Checked([call EXCEPT !.pc = "event", !.todo = Events])
          /\ UNCHANGED phase
       \/ /\ "stage" \in Faults
          /\ app' = [state |-> "staged", producers |-> FALSE]
          /\ call' = Rollback(call)
          /\ UNCHANGED phase
       \/ "app" \in Faults /\ Quarantine /\ UNCHANGED app
    /\ UNCHANGED <<excel, ledger, module, intent, used>>

(* A broken variant: an event whose registration is uncertain counts as absent. *)
ForgetsUncertain(r) == IF Applied(r) THEN "registered" ELSE "absent"

\* ensure_event: what the slot becomes.
SlotAfter(r) ==
    CASE Applied(r) -> "registered"
      [] r.kind = "rejected" -> "absent"
      [] OTHER -> "indeterminate"

\* ensure_calculation_events. The slot is "registering" while Excel is called.
EnsureEvent ==
    /\ At("event") /\ call.todo # <<>>
    /\ LET e == Head(call.todo) IN
       CASE module.slots[e] = "registered" ->
              /\ call' = [call EXCEPT !.todo = Tail(@)]
              /\ UNCHANGED <<excel, module, phase>>
         [] module.slots[e] \in {"registering", "indeterminate"} ->
              /\ call' = Rollback(call)
              /\ UNCHANGED <<excel, module, phase>>
         [] OTHER ->
              \/ \E r \in Replies :
                    /\ excel' = [excel EXCEPT !.events = IF r.effect THEN @ \cup {e} ELSE @]
                    /\ module' = [module EXCEPT !.slots[e] = SlotAfter(r)]
                    /\ call' = IF r.kind = "applied" THEN [call EXCEPT !.todo = Tail(@)]
                               ELSE Rollback([call EXCEPT !.permits = r.permits])
                    /\ UNCHANGED phase
              \/ /\ "panic" \in Faults
                 /\ module' = [module EXCEPT !.slots[e] = "registering"]
                 /\ Quarantine /\ UNCHANGED excel
    /\ UNCHANGED <<ledger, intent, app, used>>

EventsDone ==
    /\ At("event") /\ call.todo = <<>>
    /\ call' = Checked([call EXCEPT !.pc = "register", !.todo = FunctionNames])
    /\ UNCHANGED <<excel, ledger, module, phase, intent, app, used>>

\* register_all_transaction on an error: undo what was registered before this one.
Undo(c, entries) == [c EXCEPT !.pc = "undo", !.then = "journal", !.pend = c.got \o entries,
                              !.got = <<>>, !.todo = <<>>]
Unsure(c) == [c EXCEPT !.journal.unknown = TRUE]


\* register_one after the call, with the recovery of an undecodable answer.
AfterRegister(c, n, i, r, a) ==
    CASE r.kind = "applied" -> [c EXCEPT !.todo = Tail(@), !.got = Append(@, Entry(n, i))]
      [] r.kind = "unreleased" -> Undo(c, <<Entry(n, i)>>)
      [] r.kind = "rejected" -> Undo(c, <<>>)
      [] r.kind = "terminal" -> Undo(Unsure(c), <<>>)
      [] r.kind = "malformed" /\ ~(c.permits /\ a.ok) ->
            Undo(Unsure([c EXCEPT !.permits = @ /\ a.permits]), <<>>)
      [] r.kind = "malformed" /\ r.effect -> Undo(c, <<Entry(n, i)>>)
      [] OTHER -> Undo(c, <<>>)

\* register_one: a name that evaluates to anything is a conflict.
RegisterOne ==
    /\ At("register") /\ call.todo # <<>>
    /\ LET n == Head(call.todo)
           i == used.id + 1 IN
       \/ \E a \in Answers :
             /\ ~a.ok \/ excel.names[n] # 0
             /\ call' = Undo([call EXCEPT !.permits = a.permits], <<>>)
             /\ UNCHANGED <<excel, used>>
       \/ /\ excel.names[n] = 0
          /\ \E r \in Replies : \E a \in Answers :
                /\ r.kind # "malformed" => a.ok
                /\ IF r.effect
                   THEN /\ excel' = [excel EXCEPT !.names[n] = i, !.live = @ \cup {i}]
                        /\ used' = [used EXCEPT !.id = i]
                   ELSE UNCHANGED <<excel, used>>
                /\ call' = AfterRegister([call EXCEPT !.permits = r.permits], n, i, r, a)
    /\ UNCHANGED <<ledger, module, phase, intent, app>>

\* SuccessfulRegistrations::into_journal and HostMutationJournal::merge.
Recorded(c) == [c EXCEPT !.journal.regs = @ \o c.got, !.got = <<>>,
                         !.journal.over = @ \cup {c.got[k].name : k \in DOMAIN c.got}]

\* HostLedger::merge: a new registration of a name settles what was owed for the old one.
Merge(j) == [ledger EXCEPT !.regs = @ \o j.regs,
                           !.debt = {d \in @ : d.name \notin j.over} \cup j.debt,
                           !.known = @ /\ ~j.unknown]

(* A broken variant: a close requested meanwhile rolls back without the new registrations. *)
DropsReceipt(c) == [c EXCEPT !.got = <<>>]

\* A success still belongs to the transaction when a nested close asked for a rollback.
Receipt(c) == Recorded(c)

\* The end of open_addin_inner, install_lifecycle, stage_host_mutations and commit.
CommitOpen ==
    /\ At("register") /\ call.todo = <<>>
    /\ \/ /\ intent = "requested"
          /\ call' = Rollback(Receipt(call))
          /\ UNCHANGED <<ledger, phase, app>>
       \/ /\ intent # "requested"
          /\ ledger' = Merge(Recorded(call).journal)
          /\ phase' = "open" /\ app' = [app EXCEPT !.state = "running"]
          /\ call' = Idle
       \/ /\ intent # "requested" /\ "stage" \in Faults
          /\ ledger' = Merge(Recorded(call).journal)
          /\ Quarantine /\ UNCHANGED app
    /\ UNCHANGED <<excel, module, intent, used>>

---------------------------------------------------------------------------
(* Undoing registrations: unregister_pending, last one first. *)

\* An entry whose withdrawal is not certain stays registered; a name that stays is owed.
UndoOne ==
    /\ At("undo") /\ call.pend # <<>> /\ call.permits
    /\ LET e == call.pend[Len(call.pend)]
           rest == [call EXCEPT !.pend = SubSeq(@, 1, Len(@) - 1)]
       IN \E r \in Replies :
             LET withdrawn == IF r.effect THEN [excel EXCEPT !.live = @ \ {e.id}] ELSE excel IN
             \/ /\ ~Applied(r)
                /\ excel' = withdrawn
                /\ call' = [rest EXCEPT !.fail = Append(@, e), !.permits = r.permits]
             \/ /\ Applied(r) /\ ~r.permits
                /\ excel' = withdrawn
                /\ call' = [rest EXCEPT !.debt = @ \cup {e}, !.permits = FALSE]
             \/ /\ Applied(r) /\ r.permits
                /\ \E d \in Deletions(e.name, {e.id}) :
                      /\ excel' = [withdrawn EXCEPT !.names = Unnamed(e.name, d).names]
                      /\ call' = [rest EXCEPT !.debt = IF d.applied THEN @ ELSE @ \cup {e},
                                              !.permits = d.permits]
    /\ UNCHANGED <<ledger, module, phase, intent, app, used>>

(* A broken variant: entries the session could not withdraw are taken for done. *)
ForgetsSuppressed(c) == c.fail

\* Entries the stopped session could not touch are kept as they are.
Failures(c) == c.fail \o c.pend

\* retain_pending and retain_metadata, or the end of RegistrationCleanupClaim::execute.
UndoDone ==
    /\ At("undo") /\ (call.pend = <<>> \/ ~call.permits)
    /\ LET done == [call EXCEPT !.pend = <<>>, !.fail = <<>>, !.debt = {}] IN
       IF call.then = "journal"
       THEN /\ call' = Rollback([done EXCEPT !.journal.regs = @ \o Failures(call),
                                             !.journal.debt = @ \cup call.debt])
            /\ UNCHANGED ledger
       ELSE /\ ledger' = [ledger EXCEPT !.regs = @ \o Failures(call), !.debt = @ \cup call.debt,
                                        !.cleaning = FALSE]
            /\ call' = [done EXCEPT !.pc = "detach"]
    /\ UNCHANGED <<excel, module, phase, intent, app, used>>

---------------------------------------------------------------------------
(* Teardown, of a failed opening or of an open add-in *)

\* OpenRollbackOwner::run: merge_host, mark_open_failed, then the same stages as a removal.
MergeJournal ==
    /\ At("merge")
    /\ ledger' = Merge(call.journal)
    /\ phase' = "rollback"
    /\ call' = [call EXCEPT !.pc = "drain", !.journal = NoJournal]
    /\ UNCHANGED <<excel, module, intent, app, used>>

Fails == "stage" \in Faults /\ Quarantine

\* drain and stop_producers.
StopProducers ==
    /\ At("drain")
    /\ \/ /\ app' = [app EXCEPT !.producers = FALSE]
          /\ call' = [call EXCEPT !.pc = "claim"]
          /\ UNCHANGED phase
       \/ Fails /\ UNCHANGED app
    /\ UNCHANGED <<excel, ledger, module, intent, used>>

\* HostLedger::claim_cleanup moves the registrations out and marks the ledger.
ClaimCleanup ==
    /\ At("claim")
    /\ ledger' = [ledger EXCEPT !.regs = <<>>, !.cleaning = TRUE]
    /\ call' = [call EXCEPT !.pc = "undo", !.then = "ledger", !.pend = ledger.regs]
    /\ UNCHANGED <<excel, module, phase, intent, app, used>>

\* A panic while executing: the mark stays, so nobody can certify an empty ledger.
CleanupPanics ==
    /\ At("undo") /\ call.then = "ledger" /\ "panic" \in Faults
    /\ Quarantine
    /\ UNCHANGED <<excel, ledger, module, intent, app, used>>

\* generation_callbacks_detached.
Detached == ledger.regs = <<>> /\ ~ledger.cleaning /\ ~ledger.retrying

(* A broken variant: certainty about registrations is not asked for. *)
EmptyIsEnough == Detached

\* HostLedger::is_quiescent.
IsQuiescent == Detached /\ ledger.known

\* After the callbacks: a removal refuses uncertainty now, a rollback when it certifies.
DetachHost ==
    /\ At("detach")
    /\ IF Detached /\ (phase = "closing" => ledger.known)
       THEN call' = [call EXCEPT !.pc = "quiesce"] /\ UNCHANGED phase
       ELSE Quarantine
    /\ UNCHANGED <<excel, ledger, module, intent, app, used>>

\* QuiescedAddin::quiesce and seal_services; a failure keeps the state in the vault.
QuiesceAddin ==
    /\ At("quiesce")
    /\ \/ call' = [call EXCEPT !.pc = "cleanup"] /\ UNCHANGED <<phase, app>>
       \/ /\ Fails
          /\ app' = [app EXCEPT !.state = IF @ = "none" THEN @ ELSE "vault"]
    /\ UNCHANGED <<excel, ledger, module, intent, used>>

\* QuiescedAddin::cleanup, finish_services and reclaim: each may fail, before or after the drop.
CleanupAddin ==
    /\ At("cleanup")
    /\ \/ /\ app' = [app EXCEPT !.state = IF @ = "none" THEN @ ELSE "dropped"]
          /\ \/ call' = [call EXCEPT !.pc = "certify"] /\ UNCHANGED phase
             \/ Fails
       \/ /\ Fails
          /\ app' = [app EXCEPT !.state = IF @ = "none" THEN @ ELSE "vault"]
    /\ UNCHANGED <<excel, ledger, module, intent, used>>

(* A broken variant: a failed opening unmaps what an earlier open made resident. *)
AlwaysNew(c) == TRUE

\* release_failed: only the reference this entry took, and only under the unload contract.
GivesBack(c) == c.newly /\ Physical

\* certify and finish, then what the entry does with a closed add-in.
Certify ==
    /\ At("certify")
    /\ app' = [app EXCEPT !.state = "none"]
    /\ \/ /\ ~IsQuiescent
          /\ Quarantine
          /\ UNCHANGED <<module, intent>>
       \/ /\ IsQuiescent /\ phase = "rollback" /\ call.kind = "open"
          /\ LET kept == IF call.marked THEN "complete" ELSE intent IN
             IF GivesBack(call)
             THEN \/ /\ module' = [module EXCEPT !.lease = @ /\ ~MayUnmap]
                     /\ phase' = "closed" /\ intent' = kept /\ call' = Idle
                  \/ /\ "free" \in Faults /\ MayUnmap
                     /\ Quarantine /\ UNCHANGED <<module, intent>>
             ELSE /\ phase' = "closed" /\ intent' = kept /\ call' = Idle
                  /\ UNCHANGED module
       \/ /\ IsQuiescent /\ phase = "rollback" /\ call.kind = "reload"
          /\ Quarantine
          /\ UNCHANGED <<module, intent>>
       \/ /\ IsQuiescent /\ phase = "closing"
          /\ phase' = "closed"
          /\ call' = [call EXCEPT !.pc = "closed"]
          /\ UNCHANGED <<module, intent>>
    /\ UNCHANGED <<excel, ledger, used>>

\* The removal is complete: reopen, release the module, or wait for xlAutoClose.
AfterRemoval ==
    /\ At("closed")
    /\ \/ /\ call.kind = "reload" /\ call.permits
          /\ intent' = "none"
          /\ call' = [call EXCEPT !.pc = "begin"]
          /\ UNCHANGED <<module, phase>>
       \/ /\ call.kind = "remove" \/ (call.kind = "reload" /\ ~call.permits)
          /\ intent' = "complete"
          /\ call' = Idle
          /\ UNCHANGED <<module, phase>>
       \/ call.kind = "close" /\ AfterClose
    /\ UNCHANGED <<excel, ledger, app, used>>

---------------------------------------------------------------------------
Next ==
    \/ AutoOpen \/ CloseClosed \/ PreparationFails \/ NestedClose \/ Outside
    \/ \E kind \in {"close", "remove"} : Deactivate(kind)
    \/ BeginOpen \/ Owe \/ ConnectHost \/ InitializeAddin
    \/ EnsureEvent \/ EventsDone \/ RegisterOne \/ CommitOpen
    \/ UndoOne \/ UndoDone \/ MergeJournal
    \/ StopProducers \/ ClaimCleanup \/ CleanupPanics \/ DetachHost
    \/ QuiesceAddin \/ CleanupAddin \/ Certify \/ AfterRemoval

Spec == Init /\ [][Next]_vars

---------------------------------------------------------------------------
(* Properties *)

\* The entry, the ledger and Excel have the shapes the code gives them.
TypeOK ==
    /\ excel \in [names : [Names -> 0..Other], live : SUBSET Ids, events : SUBSET EventSet]
    /\ ledger \in [regs : Seq([name : Names, id : Ids]), debt : SUBSET [name : Names, id : Ids],
                   known : BOOLEAN, cleaning : BOOLEAN, retrying : BOOLEAN]
    /\ module \in [lease : BOOLEAN, com : BOOLEAN,
                   slots : [EventSet -> {"absent", "registering", "registered", "indeterminate"}]]
    /\ phase \in {"closed", "opening", "open", "rollback", "closing", "quarantined"}
    /\ intent \in {"none", "requested", "complete"}
    /\ app \in [state : {"none", "staged", "running", "dropped", "vault"}, producers : BOOLEAN]

\* Everything some owner still has to withdraw or delete.
OwedRegs == ToSet(ledger.regs \o call.got \o call.pend \o call.fail \o call.journal.regs)
OwedNames == OwedRegs \cup ledger.debt \cup call.debt \cup call.journal.debt


\* release_checked and release_failed: whatever Excel or a COM client may still call is in
\* a module that is mapped, and a quarantined runtime is never unmapped.
ReachableIsResident ==
    (excel.live # {} \/ excel.events # {} \/ module.com \/ phase = "quarantined") => module.lease

\* A closed add-in has nothing of its generation registered or running; an open one has
\* exactly its functions registered, and its events.
ClosedIsDetached ==
    /\ phase = "closed" =>
          excel.live = {} /\ IsQuiescent /\ app = [state |-> "none", producers |-> FALSE]
    /\ phase = "open" =>
          /\ excel.live = {e.id : e \in ToSet(ledger.regs)}
          /\ {e.name : e \in ToSet(ledger.regs)} = Names /\ Len(ledger.regs) = Cardinality(Names)
          /\ excel.events = EventSet

\* delete_name_if_binding_matches and HostCallbackSession: an entry never touches a name that
\* somebody else has bound, and changes nothing in Excel after a terminal status.
LeavesHostAlone ==
    call.kind # "none" =>
        /\ \A n \in Names : excel.names[n] = Other => excel'.names[n] = Other
        /\ ~call.permits => excel' = excel
===========================================================================
