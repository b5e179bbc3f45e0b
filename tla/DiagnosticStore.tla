-------------------------- MODULE DiagnosticStore --------------------------
(* Where diagnostics are kept: the bounded history of one add-in with its   *)
(* independent readers (diagnostics/history.rs), and the rotating log file  *)
(* that several processes append to (diagnostics/file.rs).                  *)
EXTENDS Naturals, FiniteSets, SequencesExt

CONSTANTS
    Readers,      \* DiagnosticHistoryReader
    Writers,      \* FileDiagnosticSink of several instances or processes
    MaxRecords,   \* DiagnosticHistoryLimits::max_records
    MaxHistory,   \* DiagnosticHistoryLimits::max_bytes
    SlotBytes,    \* size_of::<StoredRecord>()
    Texts,        \* dynamic bytes of a message
    MaxEvents,    \* failures recorded
    MaxLog,       \* LOG_MAX_BYTES
    Generations,  \* LOG_GENERATIONS
    Lines,        \* lengths of a line with its newline
    MaxLines,     \* lines appended
    LogFails      \* whether file operations fail and processes end at any point

VARIABLES
    history,   \* [records, next, bytes, dropped]: HistoryState
    readers,   \* [cursor, got, missed]: the cursor and what its pages added up to
    log,       \* [files, lock, written]: the file (0), its archives (1 is the newest), the lock file
    writers    \* what each process is doing

vars == <<history, readers, log, writers>>

Absent == << <<0, 0>> >>      \* no such file; a file is a sequence of <<line number, length>>
Resting == [pc |-> "idle", size |-> 0, from |-> 0]
Total(s) == FoldLeft(LAMBDA a, r : a + r[2], 0, s)

Init ==
    /\ history = [records |-> <<>>, next |-> 1, bytes |-> 0, dropped |-> 0]
    /\ readers = [r \in Readers |-> [cursor |-> 0, got |-> {}, missed |-> 0]]
    /\ log = [files |-> [g \in 0..Generations |-> Absent], lock |-> "free", written |-> 0]
    /\ writers = [w \in Writers |-> Resting]

---------------------------------------------------------------------------
(* DiagnosticHistory::record *)

RingSlots == IF MaxRecords < MaxHistory \div SlotBytes THEN MaxRecords ELSE MaxHistory \div SlotBytes
Room == MaxHistory - RingSlots * SlotBytes

\* while the ring is full or the bytes do not fit: evict_oldest
Kept(h, z) ==
    LET fits(k) == /\ Len(h.records) - k < RingSlots
                   /\ h.bytes - Total(SubSeq(h.records, 1, k)) + z <= Room
    IN CHOOSE k \in 0..Len(h.records) : fits(k) /\ \A j \in 0..(k - 1) : ~fits(j)

(* A broken variant: evictions for room are not counted. *)
CountsRefusals(k) == 0

\* evict_oldest counts what it displaces.
Evictions(k) == k

\* The sequence number is taken even if preparing the record failed or it cannot fit.
Record(z, prepared) ==
    /\ history.next <= MaxEvents
    /\ history' =
         IF ~prepared \/ RingSlots = 0 \/ z > Room
         THEN [history EXCEPT !.next = @ + 1, !.dropped = @ + 1]
         ELSE LET k == Kept(history, z)
                  rest == SubSeq(history.records, k + 1, Len(history.records))
              IN [records |-> Append(rest, <<history.next, z>>), next |-> history.next + 1,
                  bytes |-> Total(rest) + z, dropped |-> history.dropped + Evictions(k)]
    /\ UNCHANGED <<readers, log, writers>>

---------------------------------------------------------------------------
(* DiagnosticHistory::errors_since through DiagnosticHistoryReader::next_page *)

(* A broken variant: a page that is cut short still moves to the newest event. *)
ToTheEnd(c, page, complete) == history.next - 1

\* The cursor stops at the last record copied unless the page reached the end.
NextCursor(c, page, complete) ==
    IF complete THEN history.next - 1
    ELSE IF page = <<>> THEN c ELSE Last(page)[1]

\* stop = how many records are copied before the limit or a failed allocation; a limit of
\* zero never completes.
NextPage(r) ==
    LET after == SelectSeq(history.records, LAMBDA s : s[1] > readers[r].cursor) IN
    /\ \E stop \in 0..Len(after) : \E complete \in {stop = Len(after)} \cup (IF stop = 0 THEN {FALSE} ELSE {}) :
          LET page == SubSeq(after, 1, stop)
              next == NextCursor(readers[r].cursor, page, complete)
          IN readers' = [readers EXCEPT ![r] =
                [cursor |-> next, got |-> @.got \cup {page[i][1] : i \in 1..stop},
                 missed |-> @.missed + (next - @.cursor) - stop]]
    /\ UNCHANGED <<history, log, writers>>

---------------------------------------------------------------------------
(* RotatingLog *)

Exists(g) == log.files[g] # Absent
Content(g) == IF Exists(g) THEN log.files[g] ELSE <<>>

\* open_with_policy (size = 0) and write_line both take the lock file or give up at once.
Acquire(w) ==
    /\ writers[w].pc = "idle" /\ log.lock = "free" /\ log.written < MaxLines
    /\ \E z \in {n \in Lines : n <= MaxLog} \cup {0} :
          writers' = [writers EXCEPT ![w] = [pc |-> "open", size |-> z, from |-> Generations]]
    /\ log' = [log EXCEPT !.lock = w]
    /\ UNCHANGED <<history, readers>>

(* A broken variant: the size remembered from the last write is used. *)
SizeAsCreated(w) == FALSE

\* The size is read under the lock, whoever appended or rotated before.
Rotates(w) ==
    LET size == Total(Content(0)) IN
    IF writers[w].size = 0 THEN size >= MaxLog
    ELSE size > 0 /\ size + writers[w].size > MaxLog

Open(w) ==
    /\ writers[w].pc = "open"
    /\ writers' = [writers EXCEPT ![w].pc = IF Rotates(w) THEN "rotate" ELSE "append"]
    /\ log' = [log EXCEPT !.files[0] = Content(0)]
    /\ UNCHANGED <<history, readers>>

\* rotate_log_files: remove the oldest, then rename from the oldest down to the file itself.
Shifted(g) ==
    IF g = Generations THEN [log.files EXCEPT ![g] = Absent]
    ELSE IF Exists(g) THEN [log.files EXCEPT ![g + 1] = log.files[g], ![g] = Absent]
    ELSE log.files

\* With no archives the file itself is the oldest.
Rotate(w) ==
    /\ writers[w].pc = "rotate"
    /\ LET g == writers[w].from IN
       /\ log' = [log EXCEPT !.files = Shifted(g)]
       /\ writers' = [writers EXCEPT ![w] =
             IF g = 0 THEN [@ EXCEPT !.pc = "append"] ELSE [@ EXCEPT !.from = g - 1]]
    /\ UNCHANGED <<history, readers>>

\* writeln, and the lock goes with the guard.
AppendLine(w) ==
    /\ writers[w].pc = "append"
    /\ LET z == writers[w].size
           line == IF z = 0 THEN <<>> ELSE << <<log.written + 1, z>> >>
       IN log' = [files |-> [log.files EXCEPT ![0] = Content(0) \o line], lock |-> "free",
                  written |-> log.written + Len(line)]
    /\ writers' = [writers EXCEPT ![w] = Resting]
    /\ UNCHANGED <<history, readers>>

\* A file operation fails (FAILED_WRITES) or the process ends: the lock is released.
GiveUp(w) ==
    /\ LogFails /\ writers[w].pc # "idle"
    /\ log' = [log EXCEPT !.lock = "free"]
    /\ writers' = [writers EXCEPT ![w] = Resting]
    /\ UNCHANGED <<history, readers>>

---------------------------------------------------------------------------
Next ==
    \/ \E z \in Texts, prepared \in BOOLEAN : Record(z, prepared)
    \/ \E r \in Readers : NextPage(r)
    \/ \E w \in Writers : Acquire(w) \/ Open(w) \/ Rotate(w) \/ AppendLine(w) \/ GiveUp(w)

Spec == Init /\ [][Next]_vars

---------------------------------------------------------------------------
(* The type invariant. *)
TypeOK ==
    /\ history.next \in 1..(MaxEvents + 1) /\ history.dropped \in 0..MaxEvents
    /\ \A r \in Readers : readers[r].cursor \in 0..MaxEvents /\ readers[r].missed \in 0..MaxEvents
    /\ log.lock \in Writers \cup {"free"} /\ log.written \in 0..MaxLines
    /\ \A w \in Writers : writers[w].pc \in {"idle", "open", "rotate", "append"}

Ascending(s) == \A i \in 1..(Len(s) - 1) : s[i][1] < s[i + 1][1]

(* Every recording attempt is either retained or counted as dropped, within both limits; *)
(* what a reader was given and what its pages counted as missed add up to its cursor, *)
(* whatever was evicted between two pages, and it never passes over a record that is *)
(* still there. *)
HistoryAccounted ==
    /\ history.dropped + Len(history.records) = history.next - 1
    /\ Len(history.records) <= RingSlots /\ history.bytes = Total(history.records) /\ history.bytes <= Room
    /\ Ascending(history.records)
    /\ \A r \in Readers :
          /\ Cardinality(readers[r].got) + readers[r].missed = readers[r].cursor
          /\ \A i \in 1..Len(history.records) :
                history.records[i][1] <= readers[r].cursor => history.records[i][1] \in readers[r].got

(* Reading the archives from the oldest to the file gives the latest lines, in order and *)
(* without a hole, and no file is longer than the limit: also when rotations of several *)
(* processes failed or were cut off half way. *)
LogIsASuffix ==
    LET All == FoldLeft(LAMBDA a, g : Content(g) \o a, <<>>, [i \in 1..(Generations + 1) |-> i - 1])
    IN /\ \A i \in 1..Len(All) : All[i][1] = log.written - Len(All) + i
       /\ \A g \in 0..Generations : Total(Content(g)) <= MaxLog

============================================================================
