------------------------ MODULE DistributionCommit ------------------------
(***************************************************************************)
(* Replacing a published package directory.  A commit saves the previous   *)
(* directory, renames the staged one into place, verifies it and removes   *)
(* the backup; a journal in a transaction directory says how far it came.  *)
(* The next commit first recovers whatever an interrupted one left.        *)
(*                                                                         *)
(* The process may be interrupted between any two file operations (it is   *)
(* killed, or an operation fails), and power may fail, which undoes any    *)
(* suffix of the operations since the last synchronisation.  The lock of   *)
(* the destination lets one commit run at a time.                          *)
(***************************************************************************)
EXTENDS Naturals, FiniteSets, Sequences

CONSTANTS MaxPackages,    \* packages ever staged, the first one included
          MaxFaults       \* interruptions and power failures

VARIABLES disk,           \* the file system as processes see it
          past,           \* states of it that a power failure may bring back
          proc,           \* the committing process: steps to take, its journal
          staged, faults

vars == <<disk, past, proc, staged, faults>>

Names == {"dest", "prev", "failed", "recov"}   \* recov: recovery-install
Payload == Names \ {"dest"}                      \* inside the transaction directory
NoRecord == [state |-> "none", seq |-> 0]
Torn == [state |-> "torn", seq |-> 0]

\* A package is named by its DirectoryIdentity; partial ones are half removed.
Empty(d) == [dest |-> d, prev |-> 0, failed |-> 0, recov |-> 0, tx |-> "absent",
             journal |-> NoRecord, next |-> NoRecord, partial |-> {}]
Idle == [todo |-> <<>>, journal |-> NoRecord, old |-> 0, new |-> 0, result |-> "none"]

Init == \E d \in 0..1 :
  /\ disk = Empty(d) /\ past = {Empty(d)} /\ proc = Idle /\ staged = d /\ faults = 0

Running == proc.todo # <<>>
At(op) == Running /\ Head(proc.todo)[1] = op
Arg == Head(proc.todo)
Goes(steps) == proc' = [proc EXCEPT !.todo = steps \o Tail(@)]
Ends(r) == proc' = [proc EXCEPT !.todo = <<>>, !.result = r]
Change(d) == disk' = d /\ past' = past \cup {d}
Still == UNCHANGED <<staged, faults>>

---------------------------------------------------------------------------
\* File operations; external, from how the code uses them.

Move ==
  /\ At("mv")
  /\ LET from == Arg[2] to == Arg[3]
     IN Change([disk EXCEPT ![to] = disk[from], ![from] = 0])
  /\ Goes(<<>>) /\ Still

\* remove_dir_all of a package: it is half removed before it is gone.
RemoveTree ==
  /\ At("rm")
  /\ LET d == disk[Arg[2]]
     IN IF d = 0 \/ d \in disk.partial
        THEN Change([disk EXCEPT ![Arg[2]] = 0]) /\ Goes(<<>>)
        ELSE Change([disk EXCEPT !.partial = @ \cup {d}]) /\ UNCHANGED proc
  /\ Still
\* remove_dir_all of the transaction directory: its entries in any order.
RemoveTransaction ==
  /\ At("rm tx")
  /\ \/ \E n \in Payload : disk[n] # 0 /\ Change([disk EXCEPT ![n] = 0]) /\ UNCHANGED proc
     \/ \E n \in {"journal", "next"} : disk[n] # NoRecord /\ Change([disk EXCEPT ![n] = NoRecord]) /\ UNCHANGED proc
     \/ /\ \A n \in Payload : disk[n] = 0
        /\ disk.journal = NoRecord /\ disk.next = NoRecord
        /\ Change([disk EXCEPT !.tx = "absent"]) /\ Goes(<<>>)
  /\ Still
Sync == At("sync") /\ past' = {disk} /\ Goes(<<>>) /\ UNCHANGED disk /\ Still

\* write_transaction_state: journal.next is created, written and flushed, then renamed
\* over the journal, and both directories are synchronised.
Writes(s) == <<<<"create">>, <<"fill", s>>, <<"replace">>, <<"sync">>>>
Record(s) == [proc.journal EXCEPT !.state = s, !.seq = @ + 1]
Write ==
  /\ At("write") /\ proc' = [proc EXCEPT !.todo = Writes(Arg[2]) \o Tail(@)]
  /\ UNCHANGED <<disk, past>> /\ Still
Create == At("create") /\ Change([disk EXCEPT !.next = Torn]) /\ Goes(<<>>) /\ Still
Fill ==
  /\ At("fill")
  /\ disk' = [disk EXCEPT !.next = Record(Arg[2])]
  /\ past' = {v \in past : v.next # Torn} \cup {disk'}
  /\ proc' = [proc EXCEPT !.journal = Record(Arg[2]), !.todo = Tail(@)]
  /\ Still
Replace == At("replace") /\ Change([disk EXCEPT !.journal = disk.next, !.next = NoRecord]) /\ Goes(<<>>) /\ Still

---------------------------------------------------------------------------
\* commit_prepared_directory_with.

Begin ==
  /\ ~Running /\ staged < MaxPackages /\ staged' = staged + 1
  /\ proc' = [Idle EXCEPT !.todo = <<<<"recover">>, <<"prepare">>>>, !.new = staged + 1]
  /\ UNCHANGED <<disk, past, faults>>

\* DistributionTransactionDirectory::create: private until its journal is written.
Prepare ==
  /\ At("prepare")
  /\ proc' = [proc EXCEPT !.old = disk.dest,
       !.journal = [state |-> "none", seq |-> 0, old |-> disk.dest, prev |-> 0, inst |-> 0],
       !.todo = <<<<"write", "prepared">>, <<"publish">>, <<"sync">>, <<"save">>>>]
  /\ Change([disk EXCEPT !.tx = "private"]) /\ Still
Publish == At("publish") /\ Change([disk EXCEPT !.tx = "public"]) /\ Goes(<<>>) /\ Still

Had(with, without) == IF proc.old # 0 THEN with ELSE without
Saves == <<<<"mv", "dest", "prev">>, <<"sync">>, <<"saved">>>>
Save == At("save") /\ Goes(Had(Saves, <<<<"saved">>>>)) /\ UNCHANGED <<disk, past>> /\ Still
Saved ==
  /\ At("saved")
  /\ proc' = [proc EXCEPT !.journal.prev = disk.prev,
       !.todo = <<<<"write", Had("previous saved", "no previous")>>, <<"pend">>>>]
  /\ UNCHANGED <<disk, past>> /\ Still
\* The staged directory was verified again; it is named before it is moved.
Pend ==
  /\ At("pend")
  /\ proc' = [proc EXCEPT !.journal.inst = proc.new,
       !.todo = <<<<"write", Had("install pending", "install pending none")>>, <<"install">>>>]
  /\ UNCHANGED <<disk, past>> /\ Still

Rollback == <<"write", Had("rollback pending", "rollback pending none")>>
Install ==
  /\ At("install") /\ Still
  /\ \/ Change([disk EXCEPT !.dest = proc.new])
        /\ Goes(<<<<"sync">>, <<"write", Had("installed", "installed none")>>, <<"verify">>>>)
     \/ UNCHANGED <<disk, past>>
        /\ Goes(Had(<<Rollback, <<"mv", "prev", "dest">>, <<"sync">>, <<"write", "rolled back">>,
                      <<"rm tx">>, <<"sync">>, <<"sync">>, <<"end", "error">>>>,
                    <<Rollback, <<"sync">>, <<"end", "error">>>>))
Commits == <<<<"write", "committed">>, <<"cleanup">>, <<"rm tx">>, <<"sync">>, <<"end", "ok">>>>
Verify ==
  /\ At("verify") /\ UNCHANGED <<disk, past>> /\ Still
  /\ \/ Goes(Commits)
     \/ Goes(Had(<<Rollback, <<"mv", "dest", "failed">>, <<"sync">>, <<"mv", "prev", "dest">>, <<"sync">>,
                   <<"write", "rolled back">>, <<"rm", "failed">>, <<"sync">>, <<"rm tx">>, <<"sync">>, <<"end", "error">>>>,
                 <<Rollback, <<"rm", "dest">>, <<"sync">>, <<"rm tx">>, <<"sync">>, <<"end", "error">>>>))
\* A backup that cannot be removed is kept; the commit has succeeded all the same.
Cleanup ==
  /\ At("cleanup") /\ Still
  /\ \/ Goes(Had(<<<<"rm", "prev">>, <<"sync">>>>, <<>>)) /\ UNCHANGED <<disk, past>>
     \/ proc.old # 0 /\ Ends("ok") /\ Change([disk EXCEPT !.partial = @ \cup {proc.old}])
End == At("end") /\ Ends(Arg[2]) /\ UNCHANGED <<disk, past>> /\ Still

---------------------------------------------------------------------------
\* recover_distribution_transaction, the first thing a commit does.

Payloads == {n \in Payload : disk[n] # 0}
Quarantine == <<"quarantine">>
Gone == <<<<"rm tx">>, <<"sync">>>>

\* Which journal counts: a valid journal.next with a higher sequence is adopted, any
\* other is removed; without a journal only an empty transaction can be removed.
ReadJournals ==
  LET j == disk.journal n == disk.next
  IN CASE j = NoRecord /\ n.seq = 0 -> IF Payloads = {} THEN Gone ELSE <<Quarantine>>
       [] n.seq > j.seq -> <<<<"replace">>, <<"sync">>, <<"recover state", n>>>>
       [] n = NoRecord -> <<<<"recover state", j>>>>
       [] OTHER -> <<<<"drop next">>, <<"sync">>, <<"recover state", j>>>>
Recover ==
  /\ At("recover") /\ UNCHANGED <<disk, past>> /\ Still
  /\ IF disk.tx = "absent" THEN Goes(<<>>) ELSE Goes(ReadJournals)
DropNext == At("drop next") /\ Change([disk EXCEPT !.next = NoRecord]) /\ Goes(<<>>) /\ Still

\* restore_previous_distribution; a directory with another identity is refused.
Backup(j) == IF j.prev # 0 THEN j.prev ELSE j.old
RemoveRecovery == IF disk.recov # 0 THEN <<<<"rm", "recov">>, <<"sync">>>> ELSE <<>>
Restores == <<<<"mv", "prev", "dest">>, <<"sync">>>>
Restore(j) ==
  CASE disk.prev # Backup(j) \/ disk.recov \notin {0, j.inst} -> <<<<"end", "stuck">>>>
    [] disk.dest = 0 -> Restores \o RemoveRecovery
    [] disk.dest = j.inst -> RemoveRecovery \o <<<<"mv", "dest", "recov">>, <<"sync">>>>
                             \o Restores \o <<<<"rm", "recov">>, <<"sync">>>>
    [] OTHER -> <<<<"end", "stuck">>>>
Stuck == <<<<"end", "stuck">>>>
\* require_original_destination.
Original(j, then) == IF disk.dest = j.old THEN then ELSE Stuck

\* What recovery does in the state the journal records.
(* A broken variant: a committed transaction with a backup is rolled back. *)
RestoresCommitted(j) == IF disk.prev # 0 THEN Restore(j) ELSE <<>>
Finishes(j) ==
  CASE disk.dest = 0 -> <<Quarantine>>
    [] disk.dest # j.inst \/ disk.prev \notin {0, j.prev} -> Stuck
    [] OTHER -> (IF disk.prev # 0 THEN <<<<"rm", "prev">>, <<"sync">>>> ELSE <<>>) \o RemoveRecovery

Repair(j) ==
  CASE j.state = "prepared" ->
         IF disk.prev = 0 THEN (IF j.old = 0 THEN <<>> ELSE Original(j, <<>>))
         ELSE IF disk.prev = Backup(j) /\ disk.dest = 0 THEN Restores ELSE Stuck
    [] j.state = "no previous" -> IF disk.prev = 0 /\ disk.dest = 0 THEN <<>> ELSE Stuck
    [] j.state \in {"previous saved", "install pending", "installed"} ->
         IF disk.prev # 0 THEN Restore(j) ELSE Stuck
    [] j.state = "rollback pending" ->
         IF disk.prev # 0 THEN Restore(j) ELSE Original(j, RemoveRecovery)
    [] j.state = "rolled back" ->
         IF disk.prev # 0 THEN Restore(j) ELSE Original(j, RemoveRecovery)
    [] j.state \in {"install pending none", "installed none", "rollback pending none"} ->
         IF disk.prev # 0 \/ disk.dest \notin {0, j.inst} THEN Stuck
         ELSE (IF disk.dest # 0 THEN <<<<"rm", "dest">>, <<"sync">>>> ELSE <<>>) \o RemoveRecovery
    [] j.state = "committed" -> Finishes(j)

RecoverState ==
  /\ At("recover state") /\ UNCHANGED <<disk, past>> /\ Still
  /\ IF disk.tx = "private" /\ Payloads # {} THEN Goes(<<Quarantine>>)
     ELSE Goes(Repair(Arg[2]) \o Gone)
\* The transaction is renamed out of recovery's sight, and the commit fails.
QuarantineIt ==
  /\ At("quarantine") /\ Still
  /\ Change([Empty(disk.dest) EXCEPT !.partial = disk.partial])
  /\ Goes(<<<<"sync">>, <<"end", "quarantined">>>>)

---------------------------------------------------------------------------
\* Faults.

\* The process is killed, or a file operation fails and the error is returned.
Interrupted ==
  /\ Running /\ faults < MaxFaults /\ faults' = faults + 1
  /\ Ends("interrupted") /\ UNCHANGED <<disk, past, staged>>
\* Power fails: operations since the last synchronisation may be undone.
PowerLoss ==
  /\ faults < MaxFaults /\ faults' = faults + 1
  /\ disk' \in past /\ past' = {disk'}
  /\ proc' = [proc EXCEPT !.todo = <<>>, !.result = IF Running THEN "interrupted" ELSE @]
  /\ UNCHANGED staged

Commit == Begin \/ Prepare \/ Publish \/ Save \/ Saved \/ Pend \/ Install \/ Verify \/ Cleanup \/ End
Recovery == Recover \/ DropNext \/ RecoverState \/ QuarantineIt
Files == Move \/ RemoveTree \/ RemoveTransaction \/ Sync \/ Write \/ Create \/ Fill \/ Replace
Next == Commit \/ Recovery \/ Files \/ Interrupted \/ PowerLoss
Spec == Init /\ [][Next]_vars

---------------------------------------------------------------------------
Packages == 0..MaxPackages
Records == [state : STRING, seq : Nat] \cup [state : STRING, seq : Nat, old : Packages, prev : Packages, inst : Packages]
\* The types of the state.
TypeOK ==
  /\ disk \in [dest : Packages, prev : Packages, failed : Packages, recov : Packages,
               tx : {"absent", "private", "public"}, journal : Records, next : Records, partial : SUBSET Packages]
  /\ disk \in past /\ staged \in Packages /\ faults \in 0..MaxFaults
  /\ proc.result \in {"none", "ok", "error", "interrupted", "stuck", "quarantined"}

\* Until the journal says Committed, the package that was published before the
\* transaction is intact, in place or as the backup; from then on the installed one is
\* intact and in place.  A power failure may bring back any state in past.
Authority(v) ==
  IF v.tx = "absent" \/ v.journal = NoRecord THEN v.dest
  ELSE IF v.journal.state = "committed" THEN v.journal.inst ELSE v.journal.old
PackageSurvives ==
  \A v \in past : LET p == Authority(v) IN
    p # 0 => /\ p \notin v.partial
             /\ v.dest = p \/ (v.prev = p /\ v.journal.state # "committed")

\* A commit that was reported as successful stays published through power failures,
\* one that was reported as failed after its rollback leaves the previous package.
ReportsAreDurable ==
  ~Running =>
    /\ proc.result = "ok" => \A v \in past : v.dest = proc.new
    /\ proc.result = "error" => \A v \in past : v.dest = proc.old \/ v.tx # "absent"

\* Recovery of an interrupted transaction always finds what it needs.
RecoveryCanBeRetried == proc.result # "stuck"
=============================================================================
