-------------------------- MODULE PlatformRuntime --------------------------
(***************************************************************************)
(* The event-driven runtime (internal/controller/platform_runtime.go): the *)
(* target informer with its cache and its ordered notifications, the       *)
(* dispatcher that turns notifications into queue calls                    *)
(* (internal/workqueue/events.go), the periodic scheduler (resync.go), and *)
(* the workers, composed with the target queue.                            *)
(*                                                                         *)
(* The informer updates its cache before it notifies the handlers, and the *)
(* handlers run in a goroutine of their own, so a worker may see a cache   *)
(* that is ahead of the notifications the queue has seen.  The shutdown is *)
(* left to the runs of the queue itself.                                   *)
(***************************************************************************)
EXTENDS TargetQueue, Sequences

CONSTANT MaxNotes   \* bound on the notifications waiting for the handler

ASSUME RuntimeAssumption == MaxNotes \in Nat

VARIABLES
    cache,     \* targets in the indexer of the target informer
    notes,     \* notifications not yet taken by the handler goroutine
    handling,  \* a target whose Add handler has activated but not enqueued it
    due,       \* keys listed by the scheduler and not yet enqueued
    work       \* what the worker of a delivered key has found so far

runtimeVars == <<cache, notes, handling, due, work>>
allVars == <<vars, runtimeVars>>

\* Whether the semantic fingerprints of the old and the new object differ.
Changed == BOOLEAN

\* semanticEvent.
Note == [action : {"add", "update", "delete"}, key : Key, changed : Changed]

RuntimeTypeOK ==
    /\ TypeOK
    /\ cache \in SUBSET Key
    /\ notes \in Seq(Note) /\ Len(notes) <= MaxNotes
    /\ handling \in SUBSET Key
    /\ due \in SUBSET Key
    /\ work \in [Key -> {"none", "absent", "forgotten", "present", "audited"}]

\* A target that exists when Run starts is one whose Add comes first; its
\* initial audit by EnqueueAll is a ListDue and an EnqueueDue.
RuntimeInit ==
    /\ Init
    /\ cache = {}
    /\ notes = <<>>
    /\ handling = {}
    /\ due = {}
    /\ work = [k \in Key |-> "none"]

-----------------------------------------------------------------------------
(* The informer. *)

Observe(k, action, changed) ==
    /\ Len(notes) < MaxNotes
    /\ cache' = IF action = "delete" THEN cache \ {k} ELSE cache \cup {k}
    /\ notes' = Append(notes, [action |-> action, key |-> k, changed |-> changed])
    /\ UNCHANGED <<vars, handling, due, work>>

TargetAdded(k) == k \notin cache /\ Observe(k, "add", TRUE)
TargetUpdated(k) == k \in cache /\ \E changed \in Changed : Observe(k, "update", changed)
TargetRemoved(k) == k \in cache /\ Observe(k, "delete", TRUE)

-----------------------------------------------------------------------------
(* Dispatcher.Handle, called by the one handler goroutine in order. *)

HandlerIdle(action, k) ==
    /\ handling = {}
    /\ notes # <<>>
    /\ Head(notes).action = action
    /\ Head(notes).key = k
    /\ notes' = Tail(notes)

\* TargetDebounce: the debounce of the target's spec at this moment, or the
\* default.  A tombstoned key is refused.
EnqueueEvent(k) ==
    \/ \E d \in Debounces : Enqueue(k, d)
    \/ k \in deleted /\ UNCHANGED vars

\* An Add activates the key and then enqueues it, in two critical sections.
HandleAdd(k) ==
    /\ HandlerIdle("add", k)
    /\ ActivateTarget(k)
    /\ handling' = {k}
    /\ UNCHANGED <<cache, due, work>>

\* The call is refused if the key was tombstoned again in between.
HandleAddEnqueue(k) ==
    /\ k \in handling
    /\ handling' = {}
    /\ EnqueueEvent(k)
    /\ UNCHANGED <<cache, notes, due, work>>

\* Event.Meaningful: an update that leaves the fingerprint alone is ignored.
HandleNoise(k) ==
    /\ HandlerIdle("update", k)
    /\ ~Head(notes).changed
    /\ UNCHANGED <<vars, cache, handling, due, work>>

HandleUpdate(k) ==
    /\ HandlerIdle("update", k)
    /\ Head(notes).changed
    /\ EnqueueEvent(k)
    /\ UNCHANGED <<cache, handling, due, work>>

\* A Delete first tells the executor, which lists the targets and may fail:
\* then the key is not tombstoned, and the worker has to notice.
HandleDelete(k) ==
    /\ HandlerIdle("delete", k)
    /\ ForgetTarget(k) \/ UNCHANGED vars
    /\ UNCHANGED <<cache, handling, due, work>>

\* Other informers: an event of a source, Secret or policy is mapped to the
\* cached targets it affects, any of them here.
HandleSource(k) ==
    /\ k \in cache
    /\ \E d \in Debounces : Enqueue(k, d)
    /\ UNCHANGED runtimeVars

\* An ownership or plan event names its target, whether or not it is cached.
HandleOwned(k) ==
    /\ \E d \in Debounces : Enqueue(k, d)
    /\ UNCHANGED runtimeVars

-----------------------------------------------------------------------------
(* PeriodicEnqueuer.enqueueDue and EnqueueAudit: list, then enqueue. *)

ListDue(k) ==
    /\ k \in cache
    /\ due' = due \cup {k}
    /\ UNCHANGED <<vars, cache, notes, handling, work>>

\* Mutant: a listed key is not enqueued.
EnqueueDueNothing(k) ==
    /\ k \in due
    /\ due' = due \ {k}
    /\ UNCHANGED <<vars, cache, notes, handling, work>>

EnqueueDue(k) ==
    /\ k \in due
    /\ due' = due \ {k}
    /\ EnqueuePeriodic(k) \/ (k \in deleted /\ UNCHANGED vars)
    /\ UNCHANGED <<cache, notes, handling, work>>

-----------------------------------------------------------------------------
(* runWorker and processTarget. *)

\* Mutant: the worker does not ask whether the target still exists.
LookUpNothing(k) ==
    /\ stage[k] = "delivered"
    /\ work[k] = "none"
    /\ work' = [work EXCEPT ![k] = "present"]
    /\ UNCHANGED <<vars, cache, notes, handling, due>>

\* HasTarget reads the cache.
LookUp(k) ==
    /\ stage[k] = "delivered"
    /\ work[k] = "none"
    /\ work' = [work EXCEPT ![k] = IF k \in cache THEN "present" ELSE "absent"]
    /\ UNCHANGED <<vars, cache, notes, handling, due>>

WorkerForget(k) ==
    /\ work[k] = "absent"
    /\ work' = [work EXCEPT ![k] = "forgotten"]
    /\ ForgetTarget(k)
    /\ UNCHANGED <<cache, notes, handling, due>>

\* Complete(key, nil) after the worker's own ForgetTarget: the key is
\* tombstoned unless an Add was handled in between.
CompleteForgotten(k) ==
    /\ work[k] = "forgotten"
    /\ work' = [work EXCEPT ![k] = "none"]
    /\ CompleteDeleted(k) \/ CompleteSucceeded(k)
    /\ UNCHANGED <<cache, notes, handling, due>>

\* processTarget audits and then goes on to Apply.
Audit(k) ==
    /\ work[k] = "present"
    /\ work' = [work EXCEPT ![k] = "audited"]
    /\ UNCHANGED <<vars, cache, notes, handling, due>>

\* Complete with an error.
AttemptFailed(k) ==
    /\ work' = [work EXCEPT ![k] = "none"]
    /\ \/ CompleteDeleted(k)
       \/ CompleteExhausted(k)
       \/ \E delay \in RetryDelays : CompleteRetried(k, delay)
    /\ UNCHANGED <<cache, notes, handling, due>>

\* The caches are not synchronized, the audit fails, or its evidence does not
\* allow the cleanup it is capable of: nothing is applied.
AuditRefused(k) == work[k] = "present" /\ AttemptFailed(k)

\* Apply failed.
CompleteFailed(k) == work[k] = "audited" /\ AttemptFailed(k)

\* Apply returned no error.
CompleteApplied(k) ==
    /\ work[k] = "audited"
    /\ work' = [work EXCEPT ![k] = "none"]
    /\ CompleteDeleted(k) \/ CompleteSucceeded(k)
    /\ UNCHANGED <<cache, notes, handling, due>>

-----------------------------------------------------------------------------
QueueStep(k) ==
    /\ \/ Pop(k) \/ GetDeleted(k) \/ GetHeld(k) \/ Deliver(k)
       \/ FireDebounce(k) \/ FireRetry(k)
       \/ ExpireDebounce(k) \/ ExpireRetry(k)
       \/ \E kind \in Kinds : ExpireStale(k, kind)
    /\ UNCHANGED runtimeVars

WorkerStep(k) ==
    \/ LookUp(k)
    \/ WorkerForget(k)
    \/ CompleteForgotten(k)
    \/ Audit(k)
    \/ AuditRefused(k)
    \/ CompleteFailed(k)
    \/ CompleteApplied(k)

HandlerStep(k) ==
    \/ HandleAdd(k)
    \/ HandleAddEnqueue(k)
    \/ HandleNoise(k)
    \/ HandleUpdate(k)
    \/ HandleDelete(k)

RuntimeNext ==
    \/ \E k \in Key :
          \/ TargetAdded(k) \/ TargetUpdated(k) \/ TargetRemoved(k)
          \/ HandlerStep(k)
          \/ HandleSource(k)
          \/ HandleOwned(k)
          \/ ListDue(k)
          \/ EnqueueDue(k)
          \/ QueueStep(k)
          \/ WorkerStep(k)
    \/ Tick /\ UNCHANGED runtimeVars

RuntimeSpec == RuntimeInit /\ [][RuntimeNext]_allVars

\* The handler goroutine and the workers keep running, and time passes.
RuntimeFairness ==
    /\ WF_allVars(Tick /\ UNCHANGED runtimeVars)
    /\ \A k \in Key :
        /\ WF_allVars(HandlerStep(k))
        /\ WF_allVars(EnqueueDue(k))
        /\ WF_allVars(WorkerStep(k))
        /\ SF_allVars(Pop(k) /\ UNCHANGED runtimeVars)
        /\ WF_allVars((GetDeleted(k) \/ GetHeld(k) \/ Deliver(k)) /\ UNCHANGED runtimeVars)
        /\ WF_allVars(FireDebounce(k) /\ UNCHANGED runtimeVars)
        /\ WF_allVars(FireRetry(k) /\ UNCHANGED runtimeVars)
        /\ WF_allVars(ExpireDebounce(k) /\ UNCHANGED runtimeVars)
        /\ WF_allVars(ExpireRetry(k) /\ UNCHANGED runtimeVars)

RuntimeFairSpec == RuntimeSpec /\ RuntimeFairness

-----------------------------------------------------------------------------
(* Properties. *)

\* The queue still holds something for the key.
Scheduled(k) ==
    k \in dirty \/ pending[k].on \/ retrying[k].on \/ stage[k] # "idle"

\* The work for a deleted target dies out, even when the Delete handler failed
\* before the tombstone and related events keep arriving: the worker that
\* finds the target missing writes the tombstone itself.
DeletedTargetsFallSilent ==
    \A k \in Key : <>[](k \notin cache) => <>[]~Scheduled(k)

\* Every notification of the key has been handled.
Settled(k) ==
    /\ k \notin handling
    /\ \A i \in 1 .. Len(notes) : notes[i].key # k

\* A target that is in the cache, with its notifications handled, can be
\* enqueued: "periodic full audits remain the missed-event fallback"
\* (platform_runtime.go, Errors).
PeriodicAuditsReachEveryTarget ==
    \A k \in cache : Settled(k) => k \notin deleted

\* A target that stays in the cache keeps being audited when the scheduler
\* keeps listing it, unless it carries a tombstone.
AuditedOrTombstoned ==
    \A k \in Key :
        k \in due ~> (work[k] = "present" \/ k \in deleted \/ k \notin cache)
=============================================================================
