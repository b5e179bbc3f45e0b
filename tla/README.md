# A verification development for xlfn

xlfn is a framework for native Excel add-ins (XLLs) written in Rust. Excel loads
the module, calls `xlAutoOpen`, then calls exported functions from several
calculation threads, asynchronous functions answer later, RTD topics push values,
and `xlAutoClose` / `xlAutoRemove` must leave nothing of the add-in running before
the DLL can be unloaded. Nearly everything that is hard about it is concurrency
and partial failure: lock-free admission in front of teardown, services replaced
under their readers, tasks that outlive the call that started them, and multi-step
transactions that fail half way.

This directory models those parts in TLA+, checks them with TLC on small
instances and proves the central one, the drain gate, with TLAPS for every number
of threads and stripes.

## The system and its modules

```
Excel threads ── HostLifecycle ── LifecycleState      xlAutoOpen / Close / Remove
      │               │
      │        GenerationPublication                  root of the open generation
      ├────────── ExportIngress                       every exported call
      │
      ├── AsyncDelivery ── TaskRegistry ── AsyncRuntime ── PollerPool
      │                        └── CancellationSlots  asynchronous functions
      │
      └── RtdRefresh ── RtdChannel                    RTD data plane

AdmissionGate  <=implements=  DrainGate (proofs: DrainGateProofs)
      └─ used by OperationGate, RotatingReadDomain, GenerationServiceSlot,
         ReplaceableServiceSlot, ExportIngress, GenerationPublication
```

| module | code | state and actions |
|---|---|---|
| `AdmissionGate` | what an owner of a gate relies on | who is inside, open or closed, a drain certificate, reclamation |
| `DrainGate` | `xlfn-kernel/src/drain_gate.rs`, `sealable_counter.rs`, `striped_drain_gate.rs` | one action per atomic read-modify-write, lock or condvar operation; a stripe's word is split into its SEALED bit, WAITING bit and count |
| `OperationGate` | `xlfn-kernel` `OperationGate`, `TerminalDrainGate` | enter, release and any number of closers that wait at once |
| `RotatingReadDomain` | `xlfn-kernel/src/rotating_read_domain*` | two reader generations and their retirement queues; blocking, idle-only and polled rotations, unwinding callbacks, closing; views carry what happens-before |
| `GenerationServiceSlot` | `xlfn-kernel/src/service_slot*` | lazy initialisation, reads, sealing, faults and panics of user callbacks |
| `ReplaceableServiceSlot` | `xlfn-kernel/src/service_slot.rs` | two lanes, the active index, replacement with precommit failure, close |
| `ExportIngress` | `xlfn/src/ingress.rs` | phase, epoch, permits and the opening lock; opening, publication, close, drain, reopening |
| `GenerationPublication` | `xlfn/src/lifecycle/state.rs` (read side) | canonical state, gate, pointer and phase as separate stores; calls, tasks, borrowed services |
| `LifecycleState`, `HostLifecycle` | `xlfn/src/lifecycle/state.rs`, `runtime/open_txn.rs`, `runtime/shutdown/*` | the canonical state and each of its transitions; the host threads that open, roll back, remove, finalize, quarantine |
| `TaskRegistry` | `xlfn/src/async_udf/registry.rs`, `calculation.rs` | launches, calculation epochs, cancellation, close with retry |
| `AsyncRuntime` | `xlfn/src/async_udf/runtime*` | the executor slot: start, roll back, publish, use, close, retry |
| `PollerPool` | `xlfn/src/async_udf/builtin*` | injector, local queues, idle mask and parking tokens, failing pollers |
| `CancellationSlots` | `xlfn/src/cancellation.rs` | generation-tagged slots, tokens, wakers, reuse |
| `AsyncDelivery` | `xlfn/src/async_udf/boundary*`, `completion.rs` | the life of one asynchronous call up to the callback into Excel |
| `RtdChannel` | `xlfn/src/subscription/channel.rs`, `budget.rs` | queues, turns of the publisher, budgets, terminal errors, barriers |
| `RtdRefresh` | `xlfn/src/subscription/data_plane*` | double-buffered shards, refresh, notification tickets, termination |

The `MC*` modules instantiate the parts of one area together. A behaviour of such
a module runs the part that `component` names while the others stay in their
initial states: the parts share no variables, so checking them in one run loses no
interleaving that the single modules have.

### Composition

Modules are composed through contracts. `DrainGate` is shown (model-checked as
`ImplementsContract`, proved as `GateRefinesContract`) to implement
`AdmissionGate`; every module with a gate inside uses the contract, a door and the
set of threads inside, instead of the forty steps of the implementation.
`HostLifecycle` interleaves the transitions of `LifecycleState`.

## Runs

| run | question | result |
|---|---|---|
| `kernel_safety` | gates, grace periods, service slots under every interleaving | holds |
| `kernel_live` | waits on gates, rotations, reads, seals and replacements end | holds |
| `lifecycle_safety` | exports, generations and the module authority across open, close, failure and quarantine | holds |
| `lifecycle_live` | host calls, drains and takeovers come back | holds |
| `async_safety` | no task, executor, runnable, scope or answer is lost, used late or given twice | holds |
| `async_live` | closes come back, scheduled work is served, calls are answered | holds |
| `rtd_safety` | order, budgets, counters, values and notification tickets | holds |
| `rtd_live` | every accepted value is delivered, superseded or its subscription ends | holds |
| `rtd_refresh_unsignalled` | is every deliverable update signalled to Excel at once? | violated, see findings |
| `rtd_refresh_underflow` | can the update counter underflow? | violated, see findings |

### Bounds

Two or three threads per role, two stripes, two generations, two topics and two
shards: each race in the code is between two threads, a third one is there where a
pair of threads must be overtaken (`Readers = {r1, r2, r3}` of the gate,
`Threads = {s1, s2, s3}` of the slot). Counters are bounded by the `Max...`
constants in the guards of the actions that raise them; a bound of two epochs,
generations or reuses is the least that lets a stale one meet a fresh one, and
safety runs use three where it is affordable. `ActiveMask = 2` makes the count
field of a stripe overflow with three readers. Symmetry is used in `async_safety`,
over one set of interchangeable names; no property with it is temporal.

### Fairness

Weak fairness of a running thread, strong fairness where a step needs a mutex:
`crate::sync` is parking_lot, whose mutexes are eventually fair, and condition
variables are notified with `notify_all`. User code that the framework calls
(callbacks, executors, tasks that were cancelled) is assumed to return; a task that
was not cancelled may run for ever. Nothing obliges Excel to open, close or call.
In `rtd_live` Excel pulses its heartbeat and answers a notification.

## Proofs

`DrainGateProofs` proves for any set of readers and any N:

* `PermitsCounted`, `DrainIsStable`, `ReclamationSafe`, `FailStopUnreachable`,
  `AdmissionIsWhole`, `NoWakeupLost`: the safety invariants of the gate;
* `GateRefinesContract`: `Spec => Contract!Spec` under the refinement mapping.

The invariants are not inductive by themselves. The strengthening says, for every
place the claim holder can be in, which stripes it has already handled (sealed,
observed, reopened), that a stripe's count is the number of threads whose permit
lies on it, and that a parked waiter has its WAITING bit set on a stripe that is
still occupied or a releasing thread on its way to notify. The only assumption is
`GateAssumption`: a finite set of readers, N and ActiveMask positive.

Liveness, everything that counts on fairness, and the other modules are
model-checked only.

## Findings

* `rtd_refresh_unsignalled`: a publisher that validated its epoch before a refresh
  rotated it commits afterwards and skips the notification, because the old epoch
  was notified. The update waits for the next heartbeat, refresh or publication.
* `rtd_refresh_underflow`: termination clears a shard, an admitted publisher queues
  behind it, the counters are zeroed, and the rollback of the connection then
  decrements a zero counter, which is a fail-stop.
