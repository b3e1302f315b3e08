# Formal model of fortigate-externalDNS

TLA+ specifications of the controller that publishes Kubernetes hostnames as
FortiGate DNS records, the TLC configurations that check them, and TLAPS proofs.
Paths are relative to the repository root (`src/`).

## The system

| Part | State | Operations | Hard behaviour |
|---|---|---|---|
| Target work queue (`internal/workqueue/queue.go`) | debounce and retry timers, delivery holds, periodic marks, tombstones, client-go queue | Enqueue, EnqueuePeriodic, ActivateTarget, ForgetTarget, Get, Complete, ShutDown, timer waiters | waiters race with cancellation; backoff against events and audits; shutdown |
| Event runtime (`internal/controller/platform_*.go`, `workqueue/events.go`, `resync.go`) | informer cache, notifications, listed schedules, workers | dispatch of add/update/delete, periodic enqueue, look-up, audit, apply | the cache is ahead of the notifications; look-up and tombstone are two steps |
| Ownership claims (`internal/ownership`, `cmd/.../shared.go`) | claim objects, device rows, copies held by each controller | reserve, create, confirm, authorize, mutate, rebind, release, recover | several controllers and people; lost answers; restart between any two writes |
| Change plans (`internal/plan/store.go`, `controller/runner.go`) | plan objects with phase and approval | persist, supersede, approve, revalidate, begin, finish, prune | approval revoked or world drifting between check and use; interrupted cycles |
| Planner, policies and apply (`internal/plan/plan.go`, `internal/policy`, `controller/runner.go`, `fortigate/client.go`) | device rows, desired records, policy snapshot, plan of the cycle | evaluate, list, plan, guard, apply in order | failures in the middle, duplicates, CNAME exclusivity, incomplete discovery, quotas and invalid policies |
| FortiGate transport (`internal/fortigate`) | attempts and pages of a call, device rows | list, send, retry, pause | lost, throttled and garbled answers; a zone edited between pages |
| Target runtimes (`internal/target`, `cmd/.../platform.go`) | runtimes with version and credentials, jobs of the workers | list, isolate, sync, swap, authorize, send | lists of different age; rotation, edit and deletion during an apply |
| Replicas (`cmd/.../main.go`, `platform.go`, `workqueue/schedule.go`, `controller/heartbeat.go`) | Lease, contexts and goroutines of a replica, deadlines, last attempt | elect, admit, poll, sleep, cancel, join, exit, probe | late callbacks, lost Leases, signals at any moment, stuck audits, crashes |
| Executor, document, status, metrics, sources, configuration | functions of one snapshot, or output | | |

The runtime feeds the queue; a worker that gets a key runs an audit (discovery,
listing, planning) and then applies it, through a change plan when approval is
required and through the ownership protocol when the zone is shared.

## Modules

| Module | Models | Instance |
|---|---|---|
| `TargetQueue` | the queue; each method is one step because it runs under the mutex | `MCTargetQueue` |
| `AuditRequests` | what the queue promises, without timers, holds and marks | |
| `PlatformRuntime` | informer, dispatcher, scheduler and workers composed with `TargetQueue` | `MCPlatformRuntime` |
| `TargetQueueProofs` | theorems about the queue, its refinement of `AuditRequests`, and the runtime on top of it | |
| `Ownership` | the shared-zone protocol for one record | `MCOwnership` |
| `OwnershipProofs` | theorems about the shared-zone protocol | |
| `ChangePlan` | the life of a target's change plans | `MCChangePlan` |
| `ChangePlanProofs` | theorems about change plans | |
| `Policy` | which records a snapshot of the DNS policies lets through | |
| `Reconcile` | policies, planning and applying for one DNS name | `MCReconcile` |
| `ReconcileProofs` | theorems about every step of a cycle | |
| `ReconcileConvergence` | the theorem that two undisturbed cycles suffice | |
| `Transport` | one call of the FortiGate client at a time, and the device | `MCTransport` |
| `TransportProofs` | theorems about calls and listings | |
| `TargetRuntimes` | the runtimes of the targets and the workers that use them | `MCTargetRuntimes` |
| `TargetRuntimesProofs` | theorems about runtimes and authorization | |
| `Replicas` | leader election, the polling loop and the liveness probe | `MCReplicas` |
| `ReplicasProofs` | theorems about the Lease, the exit and the probe | |

**TargetQueue.** `pending`, `retrying`, `held`, `periodic` and `deleted` are the
maps of the struct; `dirty` and `stage` stand for client-go's dirty and
processing sets (external). `Fire*` is the receive from a timer channel and
`Expire*` the critical section after it, so a waiter can be overtaken by a
cancellation (`stale`). Deadlines are times left, counted down by `Tick`.
`owed`, `notBefore` and `eventWait` are history. `ForgetTarget` resets the
failure count after it releases the mutex; the model does so in the same step.

**AuditRequests.** A key is asked for, being audited (`busy`) or barred. A key is
audited by one worker at a time, only when asked for, never when barred, and
never beyond the number of workers; a request is dropped only by a deletion or
the shutdown, and otherwise answered. `TargetQueue` maps `owed`, client-go's
processing set, the tombstones and the phase to it (`Requests`).

**PlatformRuntime.** The cache changes before the notification is handled. A
Delete handler may fail before the tombstone. Whether an update changes the
semantic fingerprint (`Changed`) and which cached targets a source event affects
(`HandleSource`) are free choices. The scheduler may list a target at any time.
The restart on a changed informer scope is left out.

**Ownership.** Every Kubernetes or FortiGate call is a step. `fresh` holds the
processes whose copy has the current resourceVersion. `Abort` stops a process
anywhere. The record starts unpublished or as an earlier, settled publication. A
POST takes effect before it returns or not at all; a commit that happens after the
relist is outside the model. The Get and List of `RevalidateUnique` are one step.
The relist before a mutation and the look at the claim after it are two
(`RelistBeforeMutation`, `AuthorizeMutation`), so the zone may have moved on when
the claim is checked, as in the code. Deactivation takes the path of Update. `Adopt`
is not called by the program and is left out. Finalizers removed by force and
changes of the source identity are left out.

**ChangePlan.** A plan hash is represented by the world it was built from. The
runner may be cut off between any two calls. One runner works on a target: the
queue never hands one key to two workers, and only the leader runs. The runner
never sets an expiry, so plans do not expire.

**Policy.** Selectors and source kinds are the set a policy selects, and deny,
hostname, TTL, opt-in and target checks the set it refuses. Invalid namespaces,
the order in which candidates use up quotas and the smallest positive limit are
as in `Evaluate`. `ahead` counts the candidates with other names that come first.

**Reconcile.** Names are planned independently, so one name is modelled. The
mass-cleanup guard may refuse any cycle with cleanup, discovery may be
incomplete in any cycle, and the quotas and the validity of policies may change
from cycle to cycle; refusals (`denying`) stay the same. An incomplete source is
not combined with quotas in one cycle: both leave the planner a part of the
records and no cleanup. A failure to list the policies ends the cycle before it
starts and is no step. In shared mode the claim protocol is abstracted to two sets
of rows: `confirmed` are those bound to a Confirmed claim, `claimed` those the
running cycle takes for bound, as read when it was planned. A change whose answer is
lost may leave its claim unconfirmed. A conflict over a row that equals the desired
record then runs `recoverInterruptedClaim`, which binds the row for the next cycle;
which rows have an interrupted claim is a free choice, so the model recovers more
than the code does. A cycle that recovers a claim is not undisturbed: what it
planned is no longer what the claims say. Restricted discovery implies cleanup
policy `keep`, as the configuration requires. `cleanupAllowed` is left out: the
name and the origin of its rows are taken to be within the filters, where more
cleanup happens than outside.

**Transport.** A call is a listing or one mutation. The device may carry a
request out or not and answer with a result, an error envelope, a throttle with
or without Retry-After, something that is no envelope, or nothing; others edit
the zone at any time. Times are counted down by `Tick`. A Retry-After is not
carried from one call to the next, as in the code. `throttle` is a history of the
pause the device asked for and of whether the client heard of it. TLS, redirects and
the conversion of records are left out.

**TargetRuntimes.** A version stands for a UID and generation, an instance number
for a pointer. A worker's job runs through `List`, `Snapshot` (the active
definitions), `Isolate`, `Sync` and `Swap` (under `syncMu`), `LookUp`, and then
`Authorize`, `GetTarget`, `CredentialsCurrent`, `AuthorizeAgain` and `Send` for each
operation. A failing Secret read takes the target out of the list or out of the
manager (`fails`). A target may be deleted before its worker lists the targets. A
list that fails, the polling mode, and audits that end because the informer scope
changed are left out.

**Replicas.** Each replica has the goroutine of `main`, the callback
`OnStartedLeading`, the `AfterFunc` of the signal and the polling loop; the
mutex-protected sections are steps. client-go's elector is external. It renews the
Lease, or gives up at the renewal deadline (`GiveUp`) or when it is cancelled. Then
`ReleaseOnCancel` makes `renew` ask for the release of the Lease (`Release`), and
only when that request has been answered or has failed does `Run` return and cancel
`leaderCtx` (`ElectorReturns`); time may pass in between. A release is taken to free
only a Lease that is still in the pod's name. The elector is assumed to notice a
missed renewal deadline before the Lease expires.
`Writing` means that work runs under a context that is not cancelled: an old
leader that drains a cancelled audit may overlap the new one, in the code as in
the model. Leadership lost before the callback is admitted ends the process with
code 0, as in the code. The polling mode is modelled; the event mode has its own
heartbeat and restarts.

## Runs

| Run | Question | Result |
|---|---|---|
| `queue` | are requests lost, doubled, early or starved, does shutdown drain, does the queue implement `AuditRequests` | holds |
| `runtime` | does work for deleted targets die out, are listed targets audited | holds |
| `recreated` | does every cached target remain reachable by periodic audits | violated |
| `ownership` | two controllers and people on one record: second rows, lost bindings, unauthorized mutations; do interrupted writes converge, is a deleted hostname published again | holds |
| `bound_row` | is the mutated row the bound one | violated |
| `plans` | only the newest plan is live, only the approved plan is applied, an approved current plan does not wait for ever | holds |
| `reconcile` | does a name stay up whatever fails or is rejected, is cleanup last, does planning settle | holds |
| `transport` | are listings snapshots, creates single, successes real, pauses kept, calls finite | holds |
| `targets` | one writer per scope, requests only under current definitions and credentials, runtimes catch up | holds |
| `evicted` | does an unchanged writer keep its runtime when a newcomer claims its scope | violated |
| `replicas` | is a good Lease kept until work ends, do replicas overlap only while an elector hands over, are exits in order, does the probe fail only stuck loops, do audits go on | holds |
| `lease_released` | is the Lease never released while work is under way | violated |

Every property is broken by some plausible change of the code it is about; the
changed operators are the definitions marked "Mutant" in the modules.

### What the violated runs show

- `recreated`: `runWorker` looks the target up and writes the tombstone in two
  steps. A target re-created in between stays tombstoned, and neither events nor
  periodic audits are accepted for it until another Add.
- `bound_row`: every row with the claimed fingerprint is labelled owned, so an
  exact duplicate made by someone else can be mutated on the evidence of the
  bound row.
- `evicted`: the active definitions are read before the lock of `Sync` is taken.
  A worker that isolated the targets when the unchanged target had no runtime yet
  excludes it together with the newcomer, and then stops the runtime another
  worker has given it meanwhile. This assumes that some other target keeps the
  informer scope the same; otherwise the audit ends before `Sync`.
- `lease_released`: `runAsLeader` cancels the elector only after its work, but an
  elector that misses the renewal deadline releases the Lease by itself before it
  cancels `leaderCtx`. If the release succeeds, another replica can start while the
  first still works. The comment on `runAsLeader` (`main.go:338`) and
  `openspec/specs/controller-operability/spec.md:13` rule this out.
  `ReleasedAfterWork` and `OneWorkingReplica` of the `replicas` run say what is left
  of the promise: a Lease that is still good is kept until the work has ended, and
  two replicas overlap only between the moment an elector gives up and its return.

Two smaller disagreements met on the way have no run. `terminalPlanPhase`
(`store.go:304`) counts `Interrupted` as terminal, so `Prune` deletes such plans
although its comment (`store.go:212`) and `docs/operations.md:119` say they are kept.
And when the body of a 429 or 503 cannot be read, `doJSON` (`client.go:514`) skips
the Retry-After header, although the operability spec says that the next attempt
waits at least that long; `ThrottleRespected` therefore speaks of the pauses whose
answers were read.

## Bounds

- Queue: one key (keys share only worker slots), debounces 0 and 2, retry delays
  up to 2 and two retries, so that debounce, backoff and hold can each outlast
  the others.
- Runtime: one key, delays of 1, one retry, two waiting notifications: enough for
  a target to be deleted and re-created behind the handler's back.
- Ownership: two controllers, small sets of rows and fingerprints, one abort and
  one edit by people after any earlier publication. Two edits hold as well but
  take a quarter of an hour; `bound_row` needs them.
- Plans: two plan objects and two aborts with a retention of one. The proofs lift
  these bounds for the safety properties.
- Reconcile: two initial rows, five provider IDs, one fault; a desired set has
  at most two records or only addresses. Records come from two namespaces; a
  snapshot has no policy, an invalid one, or a quota the records of the name
  compete for together with quotas that other names have used up, beside at most
  one refusal.
- Transport: up to three rows in pages of two, so that a listing takes several
  pages; two retries, two edits of the zone by others, and Retry-After values
  below the base delay, between it and the cap, and above the cap.
- Targets: two targets, two workers (the number the program starts), a writer and
  a target that keeps its records, whose scopes overlap; one edit, deletion or
  rotation and one failing call. Dry-run and invalid targets are part of the
  module but not of the instance.
- Replicas: two replicas and two targets, one that inherits the resync of 1 and one
  with an interval of 2; cycles last up to 1, the Lease 2, its renewal deadline is 1
  and the window of the probe 2, the smallest that admits a cycle and a resync. Two
  faults: lost renewals, signals, crashes and stuck audits in any combination.

## Fairness

- Queue and runtime: runnable goroutines run, attempts end, time passes, and
  client-go's FIFO gives each queued key its turn (strong fairness of `Pop`).
- Ownership: periodic audits keep a controller working, and a device asked again
  and again finally commits (strong fairness of the commits).
- Plans: cycles keep running (weak fairness of `Cycle`).
- Transport: the client runs, its attempts end because the HTTP client has a
  timeout, and time passes (weak fairness of `Client`). The device may answer
  badly for ever.
- Targets: workers run (weak fairness of `Work`), an apply has finitely many
  operations (strong fairness of `Finish`), and periodic audits give every target
  its turn (strong fairness of `List`).
- Replicas: goroutines run and time passes, the kubelet stops a container whose
  probe fails, a poll that is repeated for ever finally lists the targets (strong
  fairness of `Poll`), and a cancelled loop ends at one of its sleeps (strong
  fairness of `StopLoop`). Nothing is assumed of a stuck audit.

## Proofs

Every safety property that a passing run checks is also proved, for every value
of the constants that satisfies the assumptions of its module. The bounds on
edits, aborts, faults and retries are constants too, so the theorems hold for any
number of them. Each component has an inductive invariant, one lemma per action
(under it, one step per conjunct the action can disturb), and short theorems that
read the properties off the invariant. The inductive invariants are proved and are
not among the invariants of the runs; the properties that follow from them are.

| Module | Invariant | Properties proved |
|---|---|---|
| `TargetQueueProofs` | `IndInv` | `TypeOK`, `OneDelayedDelivery`, `NothingLost`, `TombstoneIsBare`, `PeriodicIsImmediate`, `BackoffRespected`, `DebounceRespected`, the safety of `AuditRequests` |
| `ChangePlanProofs` | `PlanInv` | `TypeOK`, `OnlyNewestIsLive`, `EndedStaysEnded`, `AppliesApprovedPlanOnly` |
| `OwnershipProofs` | `IInv` | `AtMostOneCreatedRow`, `BindingKeptWhileRowExists`, `ConflictIsForPeople`, `MutationsAuthorized` |
| `ReconcileProofs` | `SafetyInv` | `ForeignRowsUntouched`, `RemovedLast`, `NameStaysUp`, `CnameStaysAlone` |
| `ReconcileConvergence` | `InProgress /\ Settled` | `TwoCyclesSuffice` |
| `TransportProofs` | `IInv` | `ListingIsSnapshot`, `CreatesAtMostOneRow`, `DoneMeansCarriedOut`, `ThrottleRespected` |
| `TargetRuntimesProofs` | `IInv` | `OneWriterPerScope`, `RequestsAuthorized` |
| `ReplicasProofs` | `IInv` | `ReleasedAfterWork`, `OneWorkingReplica`, `LeavesInOrder`, `OnlyStuckLoopsFail` |

**Queue.** The properties are not inductive by themselves. `IndInv` adds that a
retry timer ends no later than the hold and is overdue while a worker has the key,
that the hold equals the running backoff, that a fired timer is overdue, and that
no timer ends before the debounce of a waiting event. The two action properties
follow from the invariant in the state before a delivery. `Refinement` shows that
every behaviour of the queue is one of `AuditRequests` without its liveness: `Init`
maps to `Init` and each step to a step of the abstract specification or a stutter.
It rests on `IndInv` and on `WorkersBound`, by which the processing set never
outgrows the workers.

**Runtime.** `RuntimeRunsQueue` shows that the composition implements `TargetQueue`:
whatever informer, handler, scheduler and workers do to the queue, they do through
its methods. The queue's invariants (`RuntimeKeepsQueue`) and the refinement
(`RuntimeImplementsRequests`) carry over. `WorkersHoldTheirKeys` adds that a worker
works on a target only while the queue counts its key as delivered, and
`RuntimeWorkersBound` that no more audits run than there are workers.

**Change plans.** `PlanInv` adds what ties a cycle to the store: while older plans
are made stale every live plan is still in `todo`, none is live when the next is
created, and the plan of a cycle is the newest, has had no outcome and, unless an
operator deletes it, is live under the hash of the cycle.

**Ownership.** That at most one created row exists depends on what every
controller knows at every point. `IInv` says which copies of the claim are current
(`CopyCurrent`) and what they say (`CopyShape`), where the claim is the process's
own and has its finalizer (`HoldsClaim`), and where a process relies on there being
no created row (`Cleared`): before a POST, a reset, a release and the removal of
the claim. `StepKeeps` gives the frame: a step of one controller leaves the others'
knowledge alone unless it writes the claim, and then their copies are stale.

**Reconcile.** `SafetyInv` follows the operations that a cycle has not attempted
yet. Each still fits the rows as they are now (`OpSound`), claims bind rows of
adoptable types (`ClaimsBindRows`), no two operations get in each other's way
(`Together`), and unless a write failed each cleanup leaves every wanted record
served or withheld (`Covered`). The invariant holds when a plan is made and after
each attempt, failed or not; the four properties follow from it for the step that is
taken.

**Convergence.** The proof compares the operations left in a cycle with the plan a
complete cycle would make of the present rows. In an undisturbed cycle what is
pending is exactly that plan, and the rows it takes for bound are bound
(`InProgress`, `ClaimsRead`); after one such cycle all that may be
written is written, and after another nothing is left but conflicts, writes that a
shared zone refuses and the cleanup held back by them (`Settled`). The argument
goes mode by mode and distinguishes a name in conflict, in a CNAME transition and
neither.

**Transport.** The snapshot property needs that the pages collected so far are a
prefix of the present listing as long as the device reports the same revision
(`PrefixCollected`); a page under another revision ends the listing. A POST has one
attempt (`PostedOnce`) and a pause covers what the client heard the device ask for
(`WaitCovers`).

**Target runtimes.** `IInv` says that a version of a target has one definition
wherever a copy is kept (`VersionsFixed`), that the map and its replacement are
free of conflicts and only one worker replaces it (`Locked`), and that whoever
holds a live runtime holds the one of the map, or of the map that is about to
replace it (`LiveIsCurrent`). `Evidence` keeps what an authorization has seen
within the history since it began.

**Replicas.** `Control` ties a replica's contexts to its two goroutines and its exit
code, `Held` says that an elector that has not given up holds the Lease and that one
about to free it was cancelled or is past its deadline, and `Beating` that the age
of the heartbeat is accounted for by what is left to sleep or was spent in the
audits. `DelayBounded` shows that `AuditSchedule.Delay` never exceeds the resync
interval, whatever the deadlines.

### Assumptions

- `QueueAssumption`, `RuntimeAssumption`, `PlanAssumption`, `OwnershipAssumption`,
  `TransportAssumption`, `RuntimesAssumption` and `ReplicasAssumption` say that
  bounds and delays are natural numbers and that markers for "nothing" are not
  values. In particular controllers have distinct identities, the renewal deadline
  is shorter than the Lease, and the probe's window covers a resync and a cycle. The
  default window does (`ResolvedHealthzMaxStaleness`); an explicit setting is not
  validated against the resync interval, and a shorter one restarts live leaders.
  Targets and workers are finite sets in `TargetRuntimes`.
- `TransportAssumption` also says that the device lists each row of a zone once, in
  an arbitrary fixed order (`Order`).
- `IdAssumption` says that provider IDs are integers and that any set of rows has a
  first one in their order: the planner matches that row, and a created row gets the
  first unused ID.
- `ReconcileAssumption` says that desired records are enabled, of an adoptable type
  and one per key, as the sources and the merge leave them.
- `NothingAssumption` (`Ownership`, `TargetRuntimes`) says that the marker for a
  missing claim, target or runtime is not a record of that kind.

TLC evaluates all of them on the instances of the runs. `Policy` counts quotas with
a recursive function. The theorems need of it only that it admits a part of the
candidates nobody refuses, and reports the rest of them as over quota.

### Checked by TLC only

The prover handles neither fairness nor `ENABLED`, so liveness stays with TLC:
`ImplementsRequests` with its liveness part, `ShutDownDrains`,
`DeletedTargetsFallSilent`, `AuditedOrTombstoned`, `InterruptedWritesConverge`,
`DeletedHostnamePublishedAgain`, `ApprovedPlanIsSettled`, `CallsEnd`,
`RuntimesCatchUp` and `AuditsContinue`. What the quotas admit is a matter of
induction over the order of the candidates and is checked through the `reconcile`
run. The properties of the violated runs do not hold and have no theorem.

## Not modelled

- The plan executor (`internal/plan/executor.go`): only its tests call it.
- Source discovery, configuration, API types, plan documents and files: functions
  without state; their results are inputs of the models.
- Status and metrics: output. The writer merges into its own conditions and
  history, and nothing else reads them.
- HTTP serving, client setup, TLS, proxies and redirects.
- The event mode's heartbeat and its restart on a changed informer scope.
- The conversion of records to and from the device's representation.
