------------------------------ MODULE MCAddin ------------------------------
(***************************************************************************)
(* The add-in on small instances: its life cycle (HostLifecycle,           *)
(* ExportIngress, GenerationPublication), its functions and events in      *)
(* Excel (HostRegistration, UdfDeclaration), a call of one (ExportedCall,  *)
(* ExcelValues), what it keeps for the formulas that use it: objects       *)
(* behind handles (HandleBindings, FormulaIdentity) and the formulas that  *)
(* own them (FormulaHandles), the calculation cache (CalculationCache),    *)
(* RTD connections (RtdConnections), diagnostics (DiagnosticRouter,        *)
(* DiagnosticStore), the memory that passes between the two                *)
(* (ReturnProtocol, NumericBudget, HostCallbacks) and the package it is    *)
(* installed from (ImageClosure, BuildPolicy, PackageBuild,                *)
(* DistributionCommit).  The COM server and multiplexed sources            *)
(* (ExcelRtdServer, MultiplexedSource) are here for their liveness; MCRtd  *)
(* has their safety runs.  Each behaviour runs the part that component     *)
(* names.  The parts share no state, so one after the other uses the same  *)
(* fifteen variables: an instance says which is which, and those a part    *)
(* does not need stay 0.                                                   *)
(***************************************************************************)
EXTENDS Integers, Sequences, TLC

CONSTANTS Parts,                          \* the parts a run looks at
          MaxHostCalls, MaxEpochs, MaxEntries, MaxGenerations, MaxReads,
          Small,                          \* whether the instances are those of the liveness run
          h1, h2, t1, t2, k1, k2, p1, p2, c1, c2, x1, x2, g1, g2, s1
\* Threads of a kind, and handle domains, may be exchanged, all kinds at once; an instance
\* that has one member of a kind of which others have two is left as it is.
Exchange ==
  {p \in Permutations({h1, h2, t1, t2, p1, p2, c1, c2}) :
     <<p[h1], p[h2], p[t1], p[t2], p[p1], p[p2], p[c1], p[c2]>>
       \in {<<h1, h2, t1, t2, p1, p2, c1, c2>>, <<h2, h1, t2, t1, p2, p1, c2, c1>>}}

VARIABLES component, v1, v2, v3, v4, v5, v6, v7, v8, v9, v10, v11, v12, v13, v14, v15
all == <<component, v1, v2, v3, v4, v5, v6, v7, v8, v9, v10, v11, v12, v13, v14, v15>>

Blank14 == v14 = 0 /\ v15 = 0
Blank13 == v13 = 0 /\ Blank14
Blank12 == v12 = 0 /\ Blank13
Blank11 == v11 = 0 /\ Blank12
Blank9 == v9 = 0 /\ v10 = 0 /\ Blank11
Blank7 == v7 = 0 /\ v8 = 0 /\ Blank9
Blank6 == v6 = 0 /\ Blank7
Blank4 == v4 = 0 /\ v5 = 0 /\ Blank6

same16 == component
same14 == <<component, v14, v15>>
same13 == <<v13, same14>>
same12 == <<v12, same13>>
same11 == <<v11, same12>>
same10 == <<v10, same11>>
same9 == <<v9, same10>>
same8 == <<v8, same9>>
same7 == <<v7, same8>>
same6 == <<v6, same7>>
same5 == <<v5, same6>>
same4 == <<v4, same5>>

-----------------------------------------------------------------------------
\* Host threads that open, close, fail and quarantine.
Host == INSTANCE HostLifecycle WITH
  st <- v1, removals <- v2, attempts <- v3, claims <- v4, ingress <- v5, returns <- v6, slot
  <- v7, vault <- v8, host <- v9, stopped <- v10, calls <- v11, Hosts <- {h1, h2}, MaxCalls <-
  MaxHostCalls
\* Callers against the opening, closing and reopening of the exports.
Exports == INSTANCE ExportIngress WITH
  phase <- v1, epoch <- v2, door <- v3, inside <- v4, udfs <- v5, lock <- v6, pc <- v7, entry
  <- v8, owner <- v9, published <- v10, calls <- v11, aborted <- v12, Callers <- {c1} \cup (IF
  Small THEN {} ELSE {c2}), MaxCalls <- MaxEntries
\* Calls and tasks against the publication and retirement of generations.
Root == INSTANCE GenerationPublication WITH
  canon <- v1, payload <- v2, gen <- v3, phase <- v4, door <- v5, permits <- v6, ptr <- v7,
  lock <- v8, todo <- v9, held <- v10, pc <- v11, boxed <- v12, dropped <- v13, reads <- v14,
  violated <- v15, Readers <- {c1} \cup (IF Small THEN {} ELSE {c2})
\* An add-in of one function and one event whose host and own code fail anywhere.
Registration == INSTANCE HostRegistration WITH
  excel <- v1, ledger <- v2, module <- v3, phase <- v4, intent <- v5, app <- v6, call <- v7,
  used <- v8, FunctionNames <- <<"f">>, Events <- <<"e">>, Physical <- TRUE, Faults <- {"app",
  "stage", "panic", "free"}, MaxId <- 3, MaxMeddle <- 1
\* Two threads bind, alias, pin and remove objects in one slot and close the registry.
Handles == INSTANCE HandleBindings WITH
  slots <- v1, free <- v2, arena <- v3, domain <- v4, debt <- v5, requests <- v6, phase <- v7,
  door <- v8, issued <- v9, threads <- v10, Threads <- {t1, t2}, Slots <- 1, Ops <- {"insert",
  "pin", "remove", "close"} \cup (IF Small THEN {} ELSE {"alias", "finish"}), HardDebt <- 2,
  MaxObject <- 2, LastGen <- IF Small THEN 1 ELSE 2, MaxRequests <- 2
\* Two formulas of one cell, the server and the close of the add-in.
Formula == INSTANCE FormulaHandles WITH
  topics <- v1, state <- v2, published <- v3, observers <- v4, initializing <- v5, inits <-
  v6, closed <- v7, store <- v8, door <- v9, preps <- v10, clients <- v11, closers <- v12,
  Keys <- {k1}, Preparers <- {p1, p2}, Clients <- {s1}, Closers <- {x1}, Gens <- {g1}, Ids <-
  {1}, Ops <- {"terminate all"} \cup (IF Small THEN {} ELSE {"connect", "disconnect",
  "terminate"}), MaxToken <- 2, MaxInit <- 2
\* Two servers that observe the same cell.
Observers == INSTANCE FormulaHandles WITH
  topics <- v1, state <- v2, published <- v3, observers <- v4, initializing <- v5, inits <-
  v6, closed <- v7, store <- v8, door <- v9, preps <- v10, clients <- v11, closers <- v12,
  Keys <- {k1}, Preparers <- {p1}, Clients <- {c1, c2}, Closers <- {}, Gens <- {g1, g2}, Ids
  <- {1}, Ops <- {"connect", "disconnect", "terminate"}, MaxToken <- 2, MaxInit <- 2
\* One key: lookups, computations, clears and the end of the cache.
Cache == INSTANCE CalculationCache WITH
  epoch <- v1, nodes <- v2, index <- v3, flights <- v4, locks <- v5, domain <- v6, pending <-
  v7, requests <- v8, threads <- v9, Threads <- {t1, t2}, Keys <- {k1}, Ops <- {"insert",
  "clear"} \cup (IF Small THEN {} ELSE {"get", "drop"}), Weights <- IF Small THEN {1} ELSE {0,
  1}, Budget <- 1, Backpressure <- 1, MaxNode <- 2, MaxEpoch <- 1, MaxRequests <- 2
\* Two keys whose computations need each other.
Nested == INSTANCE CalculationCache WITH
  epoch <- v1, nodes <- v2, index <- v3, flights <- v4, locks <- v5, domain <- v6, pending <-
  v7, requests <- v8, threads <- v9, Threads <- {t1, t2}, Keys <- {k1, k2}, Ops <- {"insert",
  "nested"}, Weights <- {1, 2}, Budget <- 1, Backpressure <- 3, MaxNode <- 2, MaxEpoch <- 0,
  MaxRequests <- 2
\* Two clients connect, disconnect and fail one topic.
Links == INSTANCE RtdConnections WITH
  entries <- v1, nextId <- v2, nextGen <- v3, servers <- v4, sinks <- v5, reserved <- v6, jobs
  <- v7, worker <- v8, gate <- v9, closing <- v10, sources <- v11, failed <- v12, preps <-
  v13, clients <- v14, enders <- v15, Keys <- {k1}, Preparers <- {x1}, Clients <- {c1, c2},
  Enders <- {}, Servers <- {s1}, Topics <- {g1}, Ops <- {"disconnect", "fail"}, SharedWork <-
  FALSE, MaxPending <- 1, Capacity <- 2, MaxId <- 2, MaxGen <- 3, MaxPrepared <- 2
\* Two worksheet calls prepare one subscription; connections are cleaned up later.
Prepared == INSTANCE RtdConnections WITH
  entries <- v1, nextId <- v2, nextGen <- v3, servers <- v4, sinks <- v5, reserved <- v6, jobs
  <- v7, worker <- v8, gate <- v9, closing <- v10, sources <- v11, failed <- v12, preps <-
  v13, clients <- v14, enders <- v15, Keys <- {k1}, Preparers <- {p1, p2}, Clients <- {x1},
  Enders <- {}, Servers <- {s1}, Topics <- {g1}, Ops <- {"defer"}, SharedWork <- FALSE,
  MaxPending <- 1, Capacity <- 2, MaxId <- 2, MaxGen <- 2, MaxPrepared <- 2
\* A connection against two threads that end its server and the runtime.
Ends == INSTANCE RtdConnections WITH
  entries <- v1, nextId <- v2, nextGen <- v3, servers <- v4, sinks <- v5, reserved <- v6, jobs
  <- v7, worker <- v8, gate <- v9, closing <- v10, sources <- v11, failed <- v12, preps <-
  v13, clients <- v14, enders <- v15, Keys <- {k1}, Preparers <- {p1}, Clients <- {c1}, Enders
  <- {x1, x2}, Servers <- {s1}, Topics <- {t1}, Ops <- {"terminate", "close"} \cup (IF Small THEN {} ELSE {"defer"}),
  SharedWork <- FALSE, MaxPending <- 1, Capacity <- 1, MaxId <- 1, MaxGen <- 2, MaxPrepared <-
  1
\* One server object and two threads; the safety runs of MCRtd have every call and failure.
Com == INSTANCE ExcelRtdServer WITH
  srv <- v1, active <- v2, stacks <- v3, Threads <- {c1, c2}, MaxServers <- 1, MaxDepth <- 2,
  Backends <- {"subs"}, Calling <- {"com", "terminate", "shutdown"}, Faults <- {"wait"}
\* Reports against installing, replacing, closing and reopening the sink.
Router == INSTANCE DiagnosticRouter WITH
  router <- v1, sinks <- v2, callers <- v3, tally <- v4, Threads <- {t1}, MaxSinks <- 2,
  Capacity <- 2, MaxBytes <- 3, Sizes <- {1, 2}, Ops <- {"report", "replace", "close"} \cup
  (IF Small THEN {} ELSE {"install", "reset"}), Faults <- IF Small THEN {} ELSE {"spawn",
  "admission", "build", "panic"}, MaxReports <- IF Small THEN 2 ELSE 3
\* A history of two slots and three bytes of text, with a reader.
Store == INSTANCE DiagnosticStore WITH
  history <- v1, readers <- v2, log <- v3, writers <- v4, Readers <- {t1}, Writers <- {},
  MaxRecords <- 2, MaxHistory <- 5, SlotBytes <- 1, Texts <- {0, 1, 2, 4}, MaxEvents <- 5,
  MaxLog <- 3, Generations <- 2, Lines <- {}, MaxLines <- 0, LogFails <- FALSE
\* Two processes on one log whose files fail and who may end at any point.
Log == INSTANCE DiagnosticStore WITH
  history <- v1, readers <- v2, log <- v3, writers <- v4, Readers <- {}, Writers <- {t1, t2},
  MaxRecords <- 2, MaxHistory <- 5, SlotBytes <- 1, Texts <- {}, MaxEvents <- 0, MaxLog <- 3,
  Generations <- 2, Lines <- {1, 2, 4}, MaxLines <- 7, LogFails <- TRUE
\* One thread whose calls nest while Excel still has their results.
Results == INSTANCE ReturnProtocol WITH
  stack <- v1, reading <- v2, slot <- v3, heap <- v4, root <- v5, epochs <- v6, owed <- v7,
  freeing <- v8, gate <- v9, managers <- v10, admission <- v11, module <- v12, calls <- v13,
  Threads <- {t1}, Managers <- {p1}, MaxCalls <- 3, MaxDepth <- 3, MaxReopens <- 1
\* Two threads that free results against two that close and reopen.
Returns == INSTANCE ReturnProtocol WITH
  stack <- v1, reading <- v2, slot <- v3, heap <- v4, root <- v5, epochs <- v6, owed <- v7,
  freeing <- v8, gate <- v9, managers <- v10, admission <- v11, module <- v12, calls <- v13,
  Threads <- {t1, t2}, Managers <- {p1, p2}, MaxCalls <- 1, MaxDepth <- 1, MaxReopens <- 2
\* Calls of every kind of function, with two layers and two arguments, that fail anywhere.
Calls == INSTANCE ExportedCall WITH
  at <- v1, fn <- v2, held <- v3, entered <- v4, exits <- v5, prepared <- v6, recorded <- v7,
  permits <- v8, service <- v9, result <- v10, reports <- v11, traces <- v12, answer <- v13,
  MaxLayers <- 2, MaxArguments <- 2, Domains <- {p1, p2}
\* Two threads, two numeric results and limits that not both of them fit.
Numbers == INSTANCE NumericBudget WITH
  blocks <- v1, ledger <- v2, threads <- v3, pending <- v4, reloads <- v5, Threads <- {t1, t2},
  Blocks <- {1, 2}, Sizes <- {1, 2}, ProcessLimit <- 3, ModuleLimit <- 2, ThreadLimit <- 2,
  MaxReloads <- 1
\* Nested calls into Excel and asynchronous answers over two epochs of the module.
Callbacks == INSTANCE HostCallbacks WITH
  module <- v1, phase <- v2, sealed <- v3, calls <- v4, workers <- v5, audit <- v6, Threads <-
  {t1}, HostThread <- h1, Workers <- {p1, p2}, MaxDepth <- 3, AuditCapacity <- 1, MaxFailures <- 2,
  MaxEpochs <- 2
\* A subscriber of a multiplexed source against two threads that shut it down; the runs of
\* MCRtd have two subscribers.
Sources == INSTANCE MultiplexedSource WITH
  shared <- v1, worker <- v2, job <- v3, thread <- v4, slots <- v5, workers <- v6, channels <- v7,
  callers <- v8, stoppers <- v9, known <- v10, Callers <- {c1}, Stoppers <- {x1, x2}, SourceLimit <- 2,
  MaxId <- 2, Nobody <- h1
\* The token of an object over two openings of a registry in two places.
Tokens == INSTANCE FormulaIdentity WITH
  registry <- v1, session <- v2, issued <- v3, cache <- v4, encoder <- v5, written <- v6, builder <- v7,
  Ops <- {"tokens"}, Addresses <- {1, 2}, MaxSession <- 2, Slots <- {1, 2}, MaxGeneration <- 1,
  Sets <- {0}, Ways <- 2, Bytes <- {}, MaxWrite <- 0, InlineBytes <- 2, HashBuffer <- 3,
  MaxArgument <- 0, Arguments <- 0
\* Two arguments whose bytes come in any portions.
Inputs == INSTANCE FormulaIdentity WITH
  registry <- v1, session <- v2, issued <- v3, cache <- v4, encoder <- v5, written <- v6, builder <- v7,
  Ops <- {"inputs"}, Addresses <- {}, MaxSession <- 0, Slots <- {}, MaxGeneration <- 0,
  Sets <- {}, Ways <- 0, Bytes <- {0, 1}, MaxWrite <- 2, InlineBytes <- 2, HashBuffer <- 3,
  MaxArgument <- 4, Arguments <- 2
\* Three packages whose commits are interrupted three times.
Package == INSTANCE DistributionCommit WITH
  disk <- v1, past <- v2, proc <- v3, staged <- v4, faults <- v5, MaxPackages <- 3, MaxFaults
  <- 3
\* A package of two images and a manifest; the directory is changed twice meanwhile.
Build == INSTANCE PackageBuild WITH
  platform <- v1, source <- v2, reader <- v3, package <- v4, dir <- v5, evidence <- v6, todo <- v7,
  result <- v8, changes <- v9, late <- v10, Bundle <- {"dll"}, Chunks <- {"p", "q"}, MaxWrites <- 2,
  MaxChanges <- 2, MaxBytes <- 6

\* The decisions that are functions of their input, over all small inputs.  One bound of each
\* is a parameter: TLC evaluates in advance what does not depend on anything.
Image(imports) == INSTANCE ImageClosure WITH
  Word <- 15, Page <- 4, Alignments <- {2, 3, 4}, FileAlignments <- {1, 2, 4}, ImageSizes <- {4, 8, 12},
  HeaderSizes <- {0, 3, 5}, Starts <- {0, 2, 4, 8}, Extents <- {0, 1, 5}, Slots <- {1, 2},
  Names <- {"open", "udf", "_DllMainCRTStartup"}, Required <- {"open"}, Images <- {"a", "b", "c"},
  Imports <- {<<"a", "x">>, <<"b", "y">>, <<"c", "x">>, <<"sys", "x">>, <<"gone", "x">>},
  MaxImports <- imports, Nodes <- {"a", "b"} \X {"x", "y"},
  Forwards <- {<<"a", "x">>, <<"a", "y">>, <<"b", "x">>, <<"sys", "x">>, <<"gone", "x">>}
\* A volume as it is, one that ignores case, links, and a directory that is mounted twice.
Volume(folds, dirs, links, mount, mounted) ==
  [folds |-> folds, dirs |-> dirs, links |-> links, mount |-> mount, mounted |-> mounted]
Policy(path) == INSTANCE BuildPolicy WITH
  Configs <- {"c1", "c2", "c3"}, Physical <- [c \in {"c1", "c2", "c3"} |-> IF c = "c2" THEN "f2" ELSE "f1"],
  Wrappers <- {"w1", "w2"}, MaxIncludes <- 2, MaxIncludeDepth <- 2, Components <- {"a", "A", "l", ".."},
  MaxPath <- path, MaxArguments <- 4, MaxMessages <- 4,
  Volumes <- UNION {{Volume(folds, {}, <<>>, <<>>, <<>>),
                     Volume(folds, {<<"a">>}, [p \in {<<"l">>} |-> <<"a">>], <<>>, <<>>)} : folds \in BOOLEAN}
               \cup {Volume(FALSE, {<<"a">>, <<"A">>}, <<>>, <<"A">>, <<"a">>)}

Values(text) == INSTANCE ExcelValues WITH
  Units <- {66, 98, 233, 8364, 55357, 56832}, MaxText <- text, TextLimits <- 0..3, InlineUnits <- 4, InlineText <- 2,
  Serials <- (-5..2) \cup (58..62) \cup (365..367) \cup {36524, 36525, 36584, 36585, 2957003, 2958464, 2958465}
               \cup {-693594, -693593, -695055, -695056},
  Years <- {1, 4, 100, 1900, 1904, 2000, 2100, 9999}, MaxRows <- 2, MaxColumns <- 2, MaxElements <- 3, MaxAreas <- 2,
  ArrayBytes <- 30, OperBytes <- 8, I32Max <- 2, Exact <- 4
Udf(arguments) == INSTANCE UdfDeclaration WITH
  MaxArguments <- arguments, MaxEntries <- 3, MaxAbis <- 3, MaxName <- 4, NameLimit <- 4, TextLimit <- 4,
  GridRows <- 10, GridColumns <- 7, MaxAttributes <- 2

-----------------------------------------------------------------------------
AddinInit ==
  /\ component \in Parts
  /\ \/ component = "host" /\ Host!Init /\ Blank12
     \/ component = "exports" /\ Exports!Init /\ Blank13
     \/ component = "root" /\ Root!Init
     \/ component = "registration" /\ Registration!Init /\ Blank9
     \/ component = "handles" /\ Handles!Init /\ Blank11
     \/ component = "formula" /\ Formula!Init /\ Blank13
     \/ component = "observers" /\ Observers!Init /\ Blank13
     \/ component = "cache" /\ Cache!Init /\ v10 = 0 /\ Blank11
     \/ component = "nested" /\ Nested!Init /\ v10 = 0 /\ Blank11
     \/ component = "links" /\ Links!Init
     \/ component = "prepared" /\ Prepared!Init
     \/ component = "ends" /\ Ends!Init
     \/ component = "com" /\ Com!Init /\ Blank4
     \/ component = "router" /\ Router!Init /\ v5 = 0 /\ Blank6
     \/ component = "store" /\ Store!Init /\ v5 = 0 /\ Blank6
     \/ component = "log" /\ Log!Init /\ v5 = 0 /\ Blank6
     \/ component = "results" /\ Results!Init /\ Blank14
     \/ component = "returns" /\ Returns!Init /\ Blank14
     \/ component = "call" /\ Calls!Init /\ Blank14
     \/ component = "numbers" /\ Numbers!Init /\ Blank6
     \/ component = "callbacks" /\ Callbacks!Init /\ Blank7
     \/ component = "sources" /\ Sources!Init /\ Blank11
     \/ component = "tokens" /\ Tokens!Init /\ v8 = 0 /\ v9 = 0 /\ v10 = 0 /\ Blank11
     \/ component = "inputs" /\ Inputs!Init /\ v8 = 0 /\ v9 = 0 /\ v10 = 0 /\ Blank11
     \/ component = "package" /\ Package!Init /\ Blank6
     \/ component = "build" /\ Build!Init /\ Blank11
     \/ component = "rules" /\ v1 = 0 /\ v2 = 0 /\ v3 = 0 /\ Blank4

HostStep == component = "host" /\ Host!Next /\ UNCHANGED same12
ExportsStep == component = "exports" /\ Exports!Next /\ UNCHANGED same13
RootStep == component = "root" /\ Root!Next /\ UNCHANGED same16
RegistrationStep == component = "registration" /\ Registration!Next /\ UNCHANGED same9
HandlesStep == component = "handles" /\ Handles!Next /\ UNCHANGED same11
FormulaStep == component = "formula" /\ Formula!Next /\ UNCHANGED same13
ObserversStep == component = "observers" /\ Observers!Next /\ UNCHANGED same13
CacheStep == component = "cache" /\ Cache!Next /\ UNCHANGED same10
NestedStep == component = "nested" /\ Nested!Next /\ UNCHANGED same10
LinksStep == component = "links" /\ Links!Next /\ UNCHANGED same16
PreparedStep == component = "prepared" /\ Prepared!Next /\ UNCHANGED same16
EndsStep == component = "ends" /\ Ends!Next /\ UNCHANGED same16
ComStep == component = "com" /\ Com!Next /\ UNCHANGED same4
RouterStep == component = "router" /\ Router!Next /\ UNCHANGED same5
StoreStep == component = "store" /\ Store!Next /\ UNCHANGED same5
LogStep == component = "log" /\ Log!Next /\ UNCHANGED same5
ResultsStep == component = "results" /\ Results!Next /\ UNCHANGED same14
ReturnsStep == component = "returns" /\ Returns!Next /\ UNCHANGED same14
CallsStep == component = "call" /\ Calls!Next /\ UNCHANGED same14
NumbersStep == component = "numbers" /\ Numbers!Next /\ UNCHANGED same6
CallbacksStep == component = "callbacks" /\ Callbacks!Next /\ UNCHANGED same7
SourcesStep == component = "sources" /\ Sources!Next /\ UNCHANGED same11
TokensStep == component = "tokens" /\ Tokens!Next /\ UNCHANGED same8
InputsStep == component = "inputs" /\ Inputs!Next /\ UNCHANGED same8
PackageStep == component = "package" /\ Package!Next /\ UNCHANGED same6
BuildStep == component = "build" /\ Build!Next /\ UNCHANGED same11
\* Services stop for good when they were closed or the bounds are used up.
Rest == component \notin {"host", "exports", "root"} /\ UNCHANGED all

AddinNext ==
  \/ HostStep \/ ExportsStep \/ RootStep \/ RegistrationStep \/ HandlesStep \/ FormulaStep
  \/ ObserversStep \/ CacheStep \/ NestedStep \/ LinksStep \/ PreparedStep \/ EndsStep
  \/ ComStep \/ RouterStep \/ StoreStep \/ LogStep \/ PackageStep \/ BuildStep
  \/ ResultsStep \/ ReturnsStep \/ CallsStep \/ NumbersStep \/ CallbacksStep
  \/ SourcesStep \/ TokensStep \/ InputsStep \/ Rest
AddinSpec == AddinInit /\ [][AddinNext]_all

(* The fairness of the part that runs, action by action and thread by thread: at most *)
(* five whose steps stay enabled until they are taken, and three that contend for locks. *)
Weak(i) ==
  \/ component = "host" /\ Host!Step(<<h1, h2, h1, h1, h1>>[i]) /\ UNCHANGED same12
  \/ /\ component = "exports" /\ UNCHANGED same13
     /\ CASE i = 1 -> Exports!Caller(c1)
          [] i = 2 -> Exports!ReopenExports \/ Exports!AnnounceOpening \/ Exports!WaitForQuiescence
          [] i = 3 -> Exports!OperationOk \/ Exports!OperationFails
          [] OTHER -> Exports!DrainIdle \/ Exports!SealExports \/ Exports!FinishDrain
  \/ /\ component = "root" /\ UNCHANGED component
     /\ CASE i = 1 -> Root!Effects
          [] i = 2 -> Root!LoadPointer(c1)
          [] i = 3 -> Root!FinishCall(c1)
          [] i = 4 -> Root!FinishTask(c1)
          [] OTHER -> Root!ReturnServices(c1)
  \/ component = "handles" /\ Handles!Leave(<<t1, t2, t1, t1, t1>>[i]) /\ UNCHANGED same11
  \/ /\ component = "formula" /\ UNCHANGED same13
     /\ CASE i \in {1, 2} -> Formula!PrepStep(<<p1, p2>>[i])
          [] i = 3 -> Formula!ClientEnds(s1)
          [] OTHER -> Formula!CloserStep(x1)
  \/ /\ component = "ends" /\ UNCHANGED component
     /\ CASE i = 1 -> Ends!PrepareStep(p1)
          [] i = 2 -> Ends!ClientStep(c1)
          [] i \in {3, 4} -> Ends!EnderStep(<<x1, x1, x1, x2>>[i])
          [] OTHER -> Ends!WorkerStep
  \/ component = "com" /\ Com!LeaseReturn(1) /\ UNCHANGED same4
  \/ component = "router" /\ Router!Working(<<1, 2, 1, 1, 1>>[i]) /\ UNCHANGED same5
  \/ /\ component = "sources" /\ UNCHANGED same11
     /\ IF i = 1 THEN v1.closed /\ Sources!Complete ELSE Sources!Completed
Strong(i) ==
  \/ component = "exports" /\ Exports!LockOpening(c1) /\ UNCHANGED same13
  \/ component = "root" /\ Root!BorrowServices(c1) /\ UNCHANGED component
  \/ component = "handles" /\ Handles!Step(<<t1, t2, t2>>[i]) /\ UNCHANGED same11
  \/ component = "cache" /\ Cache!Step(<<t1, t2, t2>>[i]) /\ UNCHANGED same10
  \/ /\ component = "com" /\ UNCHANGED same4
     /\ IF i = 3 THEN Com!WorkerStep(1)
        ELSE Com!CloserStep(<<c1, c2>>[i]) \/ Com!CallStep(<<c1, c2>>[i])
  \/ /\ component = "router" /\ UNCHANGED same5
     /\ IF i = 3 THEN Router!Working(t1) ELSE Router!Worker(i)
  \/ /\ component = "sources" /\ UNCHANGED same11
     /\ IF i = 3 THEN Sources!CallerStep(c1) ELSE Sources!StopperStep(<<x1, x2>>[i])
AddinLiveSpec ==
  /\ AddinSpec
  /\ \A i \in 1..5 : WF_all(Weak(i))
  /\ \A i \in 1..3 : SF_all(Strong(i))

-----------------------------------------------------------------------------
(* The variables of every part have their types. *)
Types ==
  /\ component = "host" => Host!TypeOK
  /\ component = "exports" => Exports!TypeOK
  /\ component = "root" => Root!TypeOK
  /\ component = "handles" => Handles!TypeOK
  /\ component = "formula" => Formula!TypeOK
  /\ component = "cache" => Cache!TypeOK
  /\ component = "ends" => Ends!TypeOK
  /\ component = "com" => Com!TypeOK
  /\ component = "registration" => Registration!TypeOK
  /\ component = "router" => Router!TypeOK
  /\ component = "store" => Store!TypeOK
  /\ component = "log" => Log!TypeOK
  /\ component = "package" => Package!TypeOK
  /\ component = "build" => Build!TypeOK
  /\ component = "results" => Results!TypeOK
  /\ component = "call" => Calls!TypeOK
  /\ component = "numbers" => Numbers!TypeOK
  /\ component = "callbacks" => Callbacks!TypeOK
  /\ component = "tokens" => Tokens!TypeOK
  /\ component = "inputs" => Inputs!TypeOK

(* ExportIngress: no guard crosses ingress epochs, only an epoch whose     *)
(* publication succeeded admits a call, and from the end of a drain to the *)
(* next opening nobody is counted: the module may be unloaded.             *)
ExportsFollowTheirEpoch ==
  component = "exports" =>
    Exports!AssertionsHold /\ Exports!AdmittedAfterPublication /\ Exports!DrainIsStable

(* GenerationPublication: a call or task never uses a generation whose     *)
(* root was recovered or whose services were dropped, and never an earlier *)
(* generation than the latest; admission is closed and the pointer null    *)
(* before another thread sees that the add-in closes, and both are back    *)
(* before it sees Open.                                                    *)
RootOutlivesReaders ==
  component = "root" =>
    /\ Root!NoUseAfterReclaim /\ Root!OnlyLatestGeneration
    /\ Root!PhaseFollowsPublication /\ Root!PublicationFindsDrainedGate

(* The module authority is never duplicated and never lost: while an       *)
(* ingress epoch is not drained exactly one place holds its token, and     *)
(* once it is drained nobody does; and closed and idle really is closed:   *)
(* the ingress is drained, the add-in's slot is empty, return admission is *)
(* shut and nobody still owns a piece.                                     *)
AuthorityConserved == component = "host" => Host!AuthorityConserved /\ Host!ClosedIsClean

(* HandleBindings: what a lookup or a pin reads is alive, and a token denotes the object it *)
(* was issued for, never one that took its slot later.  FormulaHandles: the token a formula *)
(* returns is that of the topic in the table, and one preparation at a time initialises a *)
(* key.  FormulaIdentity: remembering verified tokens changes no answer, a registry takes the *)
(* tokens it issued itself and no other, and the identity of a call's inputs is whole and *)
(* depends on their bytes alone. *)
HandlesDenote ==
  /\ component = "handles" => Handles!ReadIsAlive /\ Handles!TokensDenote
  /\ component = "formula" => Formula!ReturnsCurrent /\ Formula!SingleFlight
  /\ component = "tokens" => Tokens!CacheIsTransparent /\ Tokens!OnlyOwnTokens
  /\ component = "inputs" => Inputs!EncodingIsCanonical /\ Inputs!FingerprintIsWhole

(* HandleBindings: bindings, pins and debt are counted exactly, a retired record is *)
(* reclaimed or somebody will come for it, and a closed registry is empty.  FormulaHandles: *)
(* every topic of the table is bound, every binding is owned by a topic or a preparation, *)
(* and the observers agree with the topics they observe. *)
HandlesAccounted ==
  /\ component = "handles" => Handles!CountsExact /\ Handles!NothingStranded /\ Handles!ClosedIsEmpty
  /\ component = "formula" =>
       Formula!TopicsAreBound /\ Formula!BindingsAreOwned /\ Formula!ObserversAgree
  /\ component = "observers" => Observers!BindingsAreOwned /\ Observers!ObserversAgree


(* RtdConnections: reservations are exactly those of threads on their way, a sink that may *)
(* publish belongs to a connection or to a cleanup, the catalog, the servers' tables and *)
(* the sources agree, and once the termination of a server or of the runtime has returned *)
(* no connection, sink or job of it is left. *)
ConnectionsAgree ==
  /\ component = "links" => Links!ReservationsExact /\ Links!SinkHasOwner /\ Links!TablesAgree
  /\ component = "prepared" =>
       Prepared!ReservationsExact /\ Prepared!SinkHasOwner /\ Prepared!TablesAgree
  /\ component = "ends" => Ends!ReservationsExact /\ Ends!SinkHasOwner /\ Ends!TerminationIsClean



(* DiagnosticRouter: a worker never waits for a transition that may be joining it, credits *)
(* are exact and a joined worker has delivered everything.  DiagnosticStore: readers and *)
(* counters account for every event, and the log files are the latest lines in order. *)
DiagnosticsAccounted ==
  /\ component = "router" =>
       Router!WorkersNeverWait /\ Router!CreditsExact /\ Router!RetiredIsFlushed
  /\ component = "store" => Store!HistoryAccounted
  /\ component = "log" => Log!LogIsASuffix

(* Memory that passes between the add-in and Excel.  ReturnProtocol: a result that Excel has *)
(* stays as it was published until it is freed, whatever its thread calls in between; the *)
(* obligations count the results that Excel owes, and the certificate that lets the module *)
(* go is about the current epoch.  ExportedCall: user code runs under every guard it relies *)
(* on, layers leave as they came, and Excel gets one answer.  NumericBudget: the counters that several modules share *)
(* stay valid between any two updates and never undercount memory.  HostCallbacks: every *)
(* result of Excel is freed once, a terminal status ends the calls of its entry point, no *)
(* epoch opens over an active callback and every failure is audited.  ExcelValues: a value is *)
(* converted to what it stands for or refused, in whichever way it is passed, and its *)
(* identity is that of the value that the function sees. *)
ReturnsAreSafe ==
  /\ component = "rules" =>
       /\ Values(3)!TextIsExact /\ Values(3)!CaseIsLetters /\ Values(3)!TextsKeepTheirPlace
       /\ Values(3)!DatesAreExact /\ Values(3)!ReferencesAreExact /\ Values(3)!IntegersAreExact
       /\ Values(3)!PreparedAgrees /\ Values(3)!IdentityIsTheValue /\ Values(3)!NativeAgrees
       /\ Values(3)!OutputsAgree
  /\ component = "results" =>
       Results!ResultsAreIntact /\ Results!ObligationsExact /\ Results!CertificateIsFresh
  /\ component = "returns" => Returns!ObligationsExact /\ Returns!CertificateIsFresh
  /\ component = "call" =>
       Calls!UserCodeIsCovered /\ Calls!LayersBalance /\ Calls!AnsweredOnce
  /\ component = "numbers" =>
       Numbers!HeaderStaysValid /\ Numbers!MemoryIsCharged /\ Numbers!ChargesEnd
  /\ component = "callbacks" =>
       /\ Callbacks!ResultsFreedOnce /\ Callbacks!TerminalIsFinal
       /\ Callbacks!EpochsAreClean /\ Callbacks!FailuresAudited


-----------------------------------------------------------------------------
\* What thread i of the part that runs is waiting for.
Waits(i) ==
  \/ component = "host" /\ i <= 2 /\ v9[<<h1, h2>>[i]].pc # "idle"
  \/ component = "exports" /\ IF i = 3 THEN v7[c1] = "lock" ELSE v9 = <<"waitIdle", "closing">>[i]
  \/ component = "root" /\ IF i = 3 THEN v11[c1] = "locking" ELSE Root!Doing("wait")
  \/ component = "handles" /\ i <= 2 /\ v7 # "open" /\ ~Handles!Free(<<t1, t2>>[i])
  \/ component = "cache" /\ i <= 2 /\ ~Cache!Free(<<t1, t2>>[i])
  \/ component = "formula" /\ IF i = 3 THEN v12[x1].at # "idle" ELSE v10[<<p1, p2>>[i]].todo # <<>>
  \/ component = "ends" /\ IF i = 3 THEN \E j \in Ends!JobsIn : TRUE ELSE v15[<<x1, x2>>[i]].at # "idle"
  \/ component = "com" /\ IF i = 3 THEN v1[1].at = "check" ELSE Com!Closes(<<c1, c2>>[i])
  \/ component = "router" /\ v3[<<1, 2, t1>>[i]].pc # "idle"
  \/ component = "sources" /\ i <= 2 /\ v9[<<x1, x2>>[i]].joins
Ended(i) ==
  \/ component = "host" /\ (v9[<<h1, h2, h2>>[i]].pc = "idle" \/ v10 # "no")
  \/ component = "exports" /\
       CASE i = 1 -> v9 \in {"opening", "open"}
         [] i = 2 -> v9 \in {"closed", "undrained"}
         [] OTHER -> v7[c1] = "idle"
  \/ component = "root" /\ IF i = 3 THEN v11[c1] = "idle" ELSE v8 = "free"
  \/ component = "handles" /\ Handles!Free(<<t1, t2, t2>>[i])
  \/ component = "cache" /\ (Cache!Free(<<t1, t2, t2>>[i]) \/ \E t \in {t1, t2} : Cache!At(t, "retry"))
  \/ component = "formula" /\ IF i = 3 THEN v12[x1].at = "done" ELSE v10[<<p1, p2>>[i]].todo = <<>>
  \/ component = "ends" /\ IF i = 3 THEN Ends!JobsIn = {} ELSE v15[<<x1, x2>>[i]].at = "done"
  \/ component = "com" /\ IF i = 3 THEN v1[1].at = "gone" ELSE Com!Closed(<<c1, c2>>[i])
  \/ component = "router" /\ v3[<<1, 2, t1>>[i]].pc = "idle"
  \/ component = "sources" /\ v9[<<x1, x2, x2>>[i]].at = "done"

(* The thread that publishes, drains the exports or takes the generation gets through, *)
(* although callers contend with it for the same locks, and every host call returns to *)
(* Excel unless the process was aborted. Operations on handles end once the registry *)
(* closes; a call of the cache returns unless the computations it follows keep failing; *)
(* preparations of formulas and the close of their table return; whoever ends a server, the *)
(* runtime or a COM server returns although it waits for calls, cleanups and other closers; *)
(* installing, replacing and closing a diagnostic sink return, and so does the shutdown of a *)
(* multiplexed source although subscribers start, fail and leave meanwhile. *)
EveryCallReturns == \A i \in 1..3 : Waits(i) ~> Ended(i)
=============================================================================
