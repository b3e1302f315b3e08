---------------------------- MODULE TargetQueue ----------------------------
(***************************************************************************)
(* The per-target work queue of the event-driven runtime                   *)
(* (internal/workqueue/queue.go): debounce timers for semantic events,     *)
(* retry timers with a bounded backoff, the delivery hold, the periodic    *)
(* bypass and the tombstones of deleted targets, on top of the client-go   *)
(* rate limiting queue, which is external and modelled by its dirty and    *)
(* processing sets.                                                        *)
(*                                                                         *)
(* Every method runs under the mutex of the queue, so each is one step.    *)
(* What is not under the mutex is a step of its own: the receive from a    *)
(* timer channel (Fire) before the waiter takes the mutex (Expire), the    *)
(* pop of the client-go queue (Pop) before Get takes the mutex, and the    *)
(* work of the worker between Get and Complete.                            *)
(*                                                                         *)
(* Time is relative: a deadline is the time left until it, counted down by *)
(* Tick and kept at -1 once it has passed.  The code only ever compares    *)
(* deadlines with now and with now plus a nonnegative delay, which -1      *)
(* decides like any other overdue value.                                   *)
(***************************************************************************)
EXTENDS Integers, FiniteSets

CONSTANTS
    Key,          \* target keys
    Workers,      \* number of worker goroutines
    Debounces,    \* debounce delays an Enqueue may read (default or override)
    RetryDelays,  \* delays the jittered rate limiter may return
    MaxBackoff,   \* RetryMax, the longest backoff
    MaxRetries,   \* failures that are retried automatically
    Horizon       \* upper bound of every delay above

ASSUME QueueAssumption ==
    /\ Workers \in Nat \ {0}
    /\ Horizon \in Nat
    /\ Debounces \subseteq 0 .. Horizon
    /\ MaxBackoff \in 0 .. Horizon
    /\ RetryDelays \subseteq 0 .. MaxBackoff
    /\ MaxRetries \in Nat

VARIABLES
    deleted,    \* tombstoned keys
    pending,    \* debounce timer of each key
    retrying,   \* retry timer of each key
    stale,      \* waiters past their timer whose map entry was cancelled
    held,       \* time left of the delivery hold of each key, -1 if none
    periodic,   \* keys with a periodic audit request not yet delivered
    dirty,      \* client-go: keys to deliver
    stage,      \* client-go processing set, and how far Get has come
    requeues,   \* failures counted by the rate limiter
    phase,      \* progress of ShutDown
    owed,       \* history: accepted requests with no delivery since
    notBefore,  \* history: time left of the backoff of the last failure
    eventWait   \* history: time left of the debounce of the first event

vars == <<deleted, pending, retrying, stale, held, periodic, dirty, stage,
          requeues, phase, owed, notBefore, eventWait>>

Kinds == {"debounce", "retry"}
Left == -1 .. Horizon
Timer == [on : BOOLEAN, left : Left, fired : BOOLEAN]

\* No entry in the pending or retrying map.
NoTimer == [on |-> FALSE, left |-> -1, fired |-> FALSE]

NewTimer(delay) == [on |-> TRUE, left |-> delay, fired |-> FALSE]

TypeOK ==
    /\ deleted \in SUBSET Key
    /\ pending \in [Key -> Timer]
    /\ retrying \in [Key -> Timer]
    /\ stale \in SUBSET (Key \X Kinds)
    /\ held \in [Key -> Left]
    /\ periodic \in SUBSET Key
    /\ dirty \in SUBSET Key
    /\ stage \in [Key -> {"idle", "popped", "delivered"}]
    /\ requeues \in [Key -> 0 .. MaxRetries]
    /\ phase \in {"running", "stopping", "down"}
    /\ owed \in SUBSET Key
    /\ notBefore \in [Key -> Left]
    /\ eventWait \in [Key -> Left]

Init ==
    /\ deleted = {}
    /\ pending = [k \in Key |-> NoTimer]
    /\ retrying = [k \in Key |-> NoTimer]
    /\ stale = {}
    /\ held = [k \in Key |-> -1]
    /\ periodic = {}
    /\ dirty = {}
    /\ stage = [k \in Key |-> "idle"]
    /\ requeues = [k \in Key |-> 0]
    /\ phase = "running"
    /\ owed = {}
    /\ notBefore = [k \in Key |-> -1]
    /\ eventWait = [k \in Key |-> -1]

-----------------------------------------------------------------------------
(* Helpers of the methods. *)

\* client-go Add: the key becomes dirty unless the queue is shut down.
Added(k) == IF phase = "down" THEN dirty ELSE dirty \cup {k}

\* Stopping a timer and closing its cancel channel ends its waiter, unless the
\* waiter has already received from the timer: then it is left behind, and
\* only its generation tells it that the entry is no longer its own.
LeftBehind(k) ==
    {w \in {k} \X Kinds :
        \/ w[2] = "debounce" /\ pending[k].on /\ pending[k].fired
        \/ w[2] = "retry" /\ retrying[k].on /\ retrying[k].fired}

StopRetry(k) ==
    /\ retrying' = [retrying EXCEPT ![k] = NoTimer]
    /\ stale' = stale \cup {w \in LeftBehind(k) : w[2] = "retry"}

\* The pending debounce already fires no earlier than the retry would.
PendingCovers(k, delay) == pending[k].on /\ pending[k].left >= delay

\* Mutant: the pending debounce is not cancelled.
ScheduleRetryBesides(k, delay) ==
    IF phase = "down" \/ PendingCovers(k, delay)
    THEN UNCHANGED <<pending, retrying, stale, dirty>>
    ELSE /\ retrying' = [retrying EXCEPT ![k] =
                            IF delay <= 0 THEN NoTimer ELSE NewTimer(delay)]
         /\ stale' = stale \cup LeftBehind(k)
         /\ dirty' = IF delay <= 0 THEN Added(k) ELSE dirty
         /\ UNCHANGED pending

\* scheduleRetryLocked for a key that is not tombstoned.
ScheduleRetry(k, delay) ==
    IF phase = "down" \/ PendingCovers(k, delay)
    THEN UNCHANGED <<pending, retrying, stale, dirty>>
    ELSE /\ pending' = [pending EXCEPT ![k] = NoTimer]
         /\ retrying' = [retrying EXCEPT ![k] =
                            IF delay <= 0 THEN NoTimer ELSE NewTimer(delay)]
         /\ stale' = stale \cup LeftBehind(k)
         /\ dirty' = IF delay <= 0 THEN Added(k) ELSE dirty

\* client-go Done: the key leaves the processing set; if it became dirty in
\* the meantime it is queued again, which is what "dirty and idle" means.
Done(k) == stage' = [stage EXCEPT ![k] = "idle"]

\* A request that the queue has accepted and must not lose.
Owe(k) == owed' = IF phase = "running" THEN owed \cup {k} ELSE owed

-----------------------------------------------------------------------------
(* Methods. *)

\* max(debounce, remaining hold).
EnqueueDelay(k, d) == IF held[k] > d THEN held[k] ELSE d

\* Mutant: every event restarts the debounce.
EnqueueRestarting(k, d) ==
    /\ phase # "down"
    /\ k \notin deleted
    /\ Owe(k)
    /\ eventWait' = [eventWait EXCEPT ![k] = d]
    /\ StopRetry(k)
    /\ held' = [held EXCEPT ![k] = IF @ <= 0 THEN -1 ELSE @]
    /\ IF EnqueueDelay(k, d) <= 0
       THEN dirty' = Added(k) /\ UNCHANGED pending
       ELSE /\ pending' = [pending EXCEPT ![k] = NewTimer(EnqueueDelay(k, d))]
            /\ UNCHANGED dirty
    /\ UNCHANGED <<deleted, periodic, stage, requeues, phase, notBefore>>

\* Enqueue of a semantic event, with the debounce d read before the mutex is
\* taken.  The first critical section of the code only reads, and the second
\* one repeats its checks, so the call takes effect in one step.
Enqueue(k, d) ==
    /\ phase # "down"
    /\ k \notin deleted
    /\ Owe(k)
    /\ eventWait' = [eventWait EXCEPT ![k] =
          IF pending[k].on \/ k \in dirty \/ stage[k] = "popped" \/ phase # "running"
          THEN @ ELSE d]
    /\ IF pending[k].on \/ (retrying[k].on /\ retrying[k].left >= d)
       THEN UNCHANGED <<pending, retrying, stale, held, dirty>>
       ELSE /\ StopRetry(k)
            /\ held' = [held EXCEPT ![k] = IF @ <= 0 THEN -1 ELSE @]
            /\ IF EnqueueDelay(k, d) <= 0
               THEN dirty' = Added(k) /\ UNCHANGED pending
               ELSE /\ pending' = [pending EXCEPT ![k] = NewTimer(EnqueueDelay(k, d))]
                    /\ UNCHANGED dirty
    /\ UNCHANGED <<deleted, periodic, stage, requeues, phase, notBefore>>

\* Mutant: a retry that is already scheduled is left to deliver the audit.
EnqueuePeriodicWithRetry(k) ==
    /\ phase # "down"
    /\ k \notin deleted
    /\ pending' = [pending EXCEPT ![k] = NoTimer]
    /\ stale' = stale \cup {w \in LeftBehind(k) : w[2] = "debounce"}
    /\ periodic' = periodic \cup {k}
    /\ dirty' = IF retrying[k].on THEN dirty ELSE Added(k)
    /\ Owe(k)
    /\ UNCHANGED <<deleted, retrying, held, stage, requeues, phase, notBefore, eventWait>>

\* EnqueuePeriodic cancels both timers and delivers without debounce.
EnqueuePeriodic(k) ==
    /\ phase # "down"
    /\ k \notin deleted
    /\ pending' = [pending EXCEPT ![k] = NoTimer]
    /\ retrying' = [retrying EXCEPT ![k] = NoTimer]
    /\ stale' = stale \cup LeftBehind(k)
    /\ periodic' = periodic \cup {k}
    /\ dirty' = Added(k)
    /\ Owe(k)
    /\ UNCHANGED <<deleted, held, stage, requeues, phase, notBefore, eventWait>>

ActivateTarget(k) ==
    /\ deleted' = deleted \ {k}
    /\ UNCHANGED <<pending, retrying, stale, held, periodic, dirty, stage,
                   requeues, phase, owed, notBefore, eventWait>>

\* Mutant: the hold survives the target.
ForgetTargetKeepingHold(k) ==
    /\ deleted' = deleted \cup {k}
    /\ periodic' = periodic \ {k}
    /\ pending' = [pending EXCEPT ![k] = NoTimer]
    /\ retrying' = [retrying EXCEPT ![k] = NoTimer]
    /\ stale' = stale \cup LeftBehind(k)
    /\ requeues' = [requeues EXCEPT ![k] = 0]
    /\ owed' = owed \ {k}
    /\ notBefore' = [notBefore EXCEPT ![k] = -1]
    /\ eventWait' = [eventWait EXCEPT ![k] = -1]
    /\ UNCHANGED <<dirty, stage, phase, held>>

\* ForgetTarget leaves a tombstone and drops every bookkeeping of the key; a
\* delivery that is already dirty stays in the client-go queue.
ForgetTarget(k) ==
    /\ deleted' = deleted \cup {k}
    /\ held' = [held EXCEPT ![k] = -1]
    /\ periodic' = periodic \ {k}
    /\ pending' = [pending EXCEPT ![k] = NoTimer]
    /\ retrying' = [retrying EXCEPT ![k] = NoTimer]
    /\ stale' = stale \cup LeftBehind(k)
    /\ requeues' = [requeues EXCEPT ![k] = 0]
    /\ owed' = owed \ {k}
    /\ notBefore' = [notBefore EXCEPT ![k] = -1]
    /\ eventWait' = [eventWait EXCEPT ![k] = -1]
    /\ UNCHANGED <<dirty, stage, phase>>

\* The keys in the processing set.
InFlight == {k \in Key : stage[k] # "idle"}

\* client-go Get: a worker takes a queued key.
Pop(k) ==
    /\ k \in dirty
    /\ stage[k] = "idle"
    /\ Cardinality(InFlight) < Workers
    /\ dirty' = dirty \ {k}
    /\ stage' = [stage EXCEPT ![k] = "popped"]
    /\ UNCHANGED <<deleted, pending, retrying, stale, held, periodic,
                   requeues, phase, owed, notBefore, eventWait>>

\* Get drops a popped key that was tombstoned.
GetDeleted(k) ==
    /\ stage[k] = "popped"
    /\ k \in deleted
    /\ requeues' = [requeues EXCEPT ![k] = 0]
    /\ Done(k)
    /\ UNCHANGED <<deleted, pending, retrying, stale, held, periodic, dirty,
                   phase, owed, notBefore, eventWait>>

\* Mutant: a held key is dropped instead of being put back.
GetHeldDropping(k) ==
    /\ stage[k] = "popped"
    /\ k \notin deleted
    /\ k \notin periodic
    /\ held[k] > 0
    /\ Done(k)
    /\ UNCHANGED <<deleted, pending, retrying, stale, dirty, held, periodic,
                   requeues, phase, owed, notBefore, eventWait>>

\* Get puts a held key back behind its backoff.
GetHeld(k) ==
    /\ stage[k] = "popped"
    /\ k \notin deleted
    /\ k \notin periodic
    /\ held[k] > 0
    /\ ScheduleRetry(k, held[k])
    /\ Done(k)
    /\ UNCHANGED <<deleted, held, periodic, requeues, phase, owed, notBefore,
                   eventWait>>

\* Mutant: the hold is not looked at.
DeliverIgnoringHold(k) ==
    /\ stage[k] = "popped"
    /\ k \notin deleted
    /\ periodic' = periodic \ {k}
    /\ StopRetry(k)
    /\ stage' = [stage EXCEPT ![k] = "delivered"]
    /\ owed' = owed \ {k}
    /\ eventWait' = [eventWait EXCEPT ![k] = -1]
    /\ UNCHANGED <<deleted, pending, held, dirty, requeues, phase, notBefore>>

\* Get returns the key to the worker; a periodic request overrides the hold.
Deliver(k) ==
    /\ stage[k] = "popped"
    /\ k \notin deleted
    /\ k \in periodic \/ held[k] <= 0
    /\ periodic' = periodic \ {k}
    /\ IF k \in periodic THEN StopRetry(k) ELSE UNCHANGED <<retrying, stale>>
    /\ stage' = [stage EXCEPT ![k] = "delivered"]
    /\ owed' = owed \ {k}
    /\ eventWait' = [eventWait EXCEPT ![k] = -1]
    /\ UNCHANGED <<deleted, pending, held, dirty, requeues, phase, notBefore>>

\* Complete of a target deleted while it was processed.
CompleteDeleted(k) ==
    /\ stage[k] = "delivered"
    /\ k \in deleted
    /\ requeues' = [requeues EXCEPT ![k] = 0]
    /\ Done(k)
    /\ UNCHANGED <<deleted, pending, retrying, stale, held, periodic, dirty,
                   phase, owed, notBefore, eventWait>>

CompleteSucceeded(k) ==
    /\ stage[k] = "delivered"
    /\ k \notin deleted
    /\ held' = [held EXCEPT ![k] = -1]
    /\ requeues' = [requeues EXCEPT ![k] = 0]
    /\ notBefore' = [notBefore EXCEPT ![k] = -1]
    /\ Done(k)
    /\ UNCHANGED <<deleted, pending, retrying, stale, periodic, dirty, phase,
                   owed, eventWait>>

\* The retries are used up: the key is held at the longest backoff, and an
\* event that is already waiting moves behind the hold.
CompleteExhausted(k) ==
    /\ stage[k] = "delivered"
    /\ k \notin deleted
    /\ requeues[k] >= MaxRetries
    /\ held' = [held EXCEPT ![k] = MaxBackoff]
    /\ notBefore' = [notBefore EXCEPT ![k] = MaxBackoff]
    /\ IF pending[k].on
       THEN ScheduleRetry(k, MaxBackoff)
       ELSE UNCHANGED <<pending, retrying, stale, dirty>>
    /\ Done(k)
    /\ UNCHANGED <<deleted, periodic, requeues, phase, owed, eventWait>>

\* Mutant: automatic retries are not bounded.
CompleteRetriedForever(k, delay) ==
    /\ stage[k] = "delivered"
    /\ k \notin deleted
    /\ held' = [held EXCEPT ![k] = delay]
    /\ notBefore' = [notBefore EXCEPT ![k] = delay]
    /\ requeues' = [requeues EXCEPT ![k] = IF phase = "down" THEN 0 ELSE @ + 1]
    /\ ScheduleRetry(k, delay)
    /\ Owe(k)
    /\ Done(k)
    /\ UNCHANGED <<deleted, periodic, phase, eventWait>>

\* A failed attempt is retried after the delay of the rate limiter; after the
\* shutdown nothing is scheduled and the count is forgotten.
CompleteRetried(k, delay) ==
    /\ stage[k] = "delivered"
    /\ k \notin deleted
    /\ requeues[k] < MaxRetries
    /\ held' = [held EXCEPT ![k] = delay]
    /\ notBefore' = [notBefore EXCEPT ![k] = delay]
    /\ requeues' = [requeues EXCEPT ![k] = IF phase = "down" THEN 0 ELSE @ + 1]
    /\ ScheduleRetry(k, delay)
    /\ Owe(k)
    /\ Done(k)
    /\ UNCHANGED <<deleted, periodic, phase, eventWait>>

\* The two halves of ShutDown: the critical section, then queue.ShutDown.
ShutDown ==
    /\ phase = "running"
    /\ phase' = "stopping"
    /\ stale' = stale \cup UNION {LeftBehind(k) : k \in Key}
    /\ pending' = [k \in Key |-> NoTimer]
    /\ retrying' = [k \in Key |-> NoTimer]
    /\ owed' = {}
    /\ eventWait' = [k \in Key |-> -1]
    /\ UNCHANGED <<deleted, held, periodic, dirty, stage, requeues, notBefore>>

\* Mutant: the client-go queue is never shut down.
QueueShutDownForgotten == phase = "stopping" /\ UNCHANGED vars

QueueShutDown ==
    /\ phase = "stopping"
    /\ phase' = "down"
    /\ UNCHANGED <<deleted, pending, retrying, stale, held, periodic, dirty,
                   stage, requeues, owed, notBefore, eventWait>>

-----------------------------------------------------------------------------
(* Timers and their waiters. *)

\* The waiter receives from the channel of an elapsed timer.
FireDebounce(k) ==
    /\ pending[k].on /\ pending[k].left <= 0 /\ ~pending[k].fired
    /\ pending' = [pending EXCEPT ![k].fired = TRUE]
    /\ UNCHANGED <<deleted, retrying, stale, held, periodic, dirty, stage,
                   requeues, phase, owed, notBefore, eventWait>>

FireRetry(k) ==
    /\ retrying[k].on /\ retrying[k].left <= 0 /\ ~retrying[k].fired
    /\ retrying' = [retrying EXCEPT ![k].fired = TRUE]
    /\ UNCHANGED <<deleted, pending, stale, held, periodic, dirty, stage,
                   requeues, phase, owed, notBefore, eventWait>>

\* The waiter takes the mutex, finds its own generation and adds the key.
ExpireDebounce(k) ==
    /\ pending[k].on /\ pending[k].fired
    /\ pending' = [pending EXCEPT ![k] = NoTimer]
    /\ dirty' = IF k \in deleted THEN dirty ELSE Added(k)
    /\ UNCHANGED <<deleted, retrying, stale, held, periodic, stage,
                   requeues, phase, owed, notBefore, eventWait>>

ExpireRetry(k) ==
    /\ retrying[k].on /\ retrying[k].fired
    /\ retrying' = [retrying EXCEPT ![k] = NoTimer]
    /\ dirty' = IF k \in deleted THEN dirty ELSE Added(k)
    /\ UNCHANGED <<deleted, pending, stale, held, periodic, stage,
                   requeues, phase, owed, notBefore, eventWait>>

\* Mutant: the waiter does not compare generations.
ExpireStaleDelivering(k, kind) ==
    /\ <<k, kind>> \in stale
    /\ stale' = stale \ {<<k, kind>>}
    /\ dirty' = IF k \in deleted THEN dirty ELSE Added(k)
    /\ UNCHANGED <<deleted, pending, retrying, held, periodic, stage,
                   requeues, phase, owed, notBefore, eventWait>>

\* A waiter left behind takes the mutex and finds no entry, or the entry of a
\* later generation, and returns.
ExpireStale(k, kind) ==
    /\ <<k, kind>> \in stale
    /\ stale' = stale \ {<<k, kind>>}
    /\ UNCHANGED <<deleted, pending, retrying, held, periodic, dirty, stage,
                   requeues, phase, owed, notBefore, eventWait>>

Elapse(left) == IF left > -1 THEN left - 1 ELSE -1

Tick ==
    /\ pending' = [k \in Key |-> [pending[k] EXCEPT !.left = Elapse(@)]]
    /\ retrying' = [k \in Key |-> [retrying[k] EXCEPT !.left = Elapse(@)]]
    /\ held' = [k \in Key |-> Elapse(held[k])]
    /\ notBefore' = [k \in Key |-> Elapse(notBefore[k])]
    /\ eventWait' = [k \in Key |-> Elapse(eventWait[k])]
    /\ UNCHANGED <<deleted, stale, periodic, dirty, stage, requeues, phase, owed>>

-----------------------------------------------------------------------------
\* The steps of the queue itself and of its workers.
Internal(k) ==
    \/ Pop(k)
    \/ GetDeleted(k)
    \/ GetHeld(k)
    \/ Deliver(k)
    \/ CompleteDeleted(k)
    \/ CompleteSucceeded(k)
    \/ CompleteExhausted(k)
    \/ \E delay \in RetryDelays : CompleteRetried(k, delay)
    \/ FireDebounce(k)
    \/ FireRetry(k)
    \/ ExpireDebounce(k)
    \/ ExpireRetry(k)
    \/ \E kind \in Kinds : ExpireStale(k, kind)

\* The calls of the informer handlers, the scheduler and the runtime.
Call(k) ==
    \/ \E d \in Debounces : Enqueue(k, d)
    \/ EnqueuePeriodic(k)
    \/ ActivateTarget(k)
    \/ ForgetTarget(k)

Next ==
    \/ \E k \in Key : Internal(k) \/ Call(k)
    \/ ShutDown
    \/ QueueShutDown
    \/ Tick

Spec == Init /\ [][Next]_vars

\* Goroutines that can run do run, time passes, every attempt ends, and the
\* FIFO order of client-go gives every queued key its turn.
Fairness ==
    /\ WF_vars(Tick)
    /\ WF_vars(QueueShutDown)
    /\ \A k \in Key :
        /\ SF_vars(Pop(k))
        /\ WF_vars(GetDeleted(k) \/ GetHeld(k) \/ Deliver(k))
        /\ WF_vars(CompleteDeleted(k) \/ CompleteSucceeded(k)
                     \/ CompleteExhausted(k)
                     \/ \E delay \in RetryDelays : CompleteRetried(k, delay))
        /\ WF_vars(FireDebounce(k)) /\ WF_vars(FireRetry(k))
        /\ WF_vars(ExpireDebounce(k)) /\ WF_vars(ExpireRetry(k))

FairSpec == Spec /\ Fairness

-----------------------------------------------------------------------------
(* Properties. *)

\* A key never has both a debounce timer and a retry timer: "do not create a
\* second delayed delivery" in scheduleRetryLocked, whatever the order of
\* events, failures, periodic audits and shutdown.
OneDelayedDelivery == \A k \in Key : ~(pending[k].on /\ retrying[k].on)

\* No accepted event, periodic request or retry is lost while the queue runs:
\* until it is delivered the key is dirty, behind a timer, or being popped.
NothingLost ==
    \A k \in owed :
        \/ k \in dirty
        \/ pending[k].on
        \/ retrying[k].on
        \/ stage[k] = "popped"

\* A tombstoned key has no timer, hold or periodic request that could revive it
\* when the target is added again.
TombstoneIsBare ==
    \A k \in deleted :
        /\ ~pending[k].on /\ ~retrying[k].on
        /\ held[k] = -1
        /\ k \notin periodic

\* A periodic audit never waits behind a timer, in particular not behind the
\* backoff of a failure that completes after the audit was requested.
PeriodicIsImmediate == \A k \in periodic : k \in dirty \/ stage[k] = "popped"

\* The step hands k to a worker.
Delivers(k) == stage[k] = "popped" /\ stage'[k] = "delivered"

BackoffStep == \A k \in Key : Delivers(k) => k \in periodic \/ notBefore[k] <= 0

\* Event churn cannot turn a failing key into a fast retry loop: a key is
\* delivered within the backoff of its last failure only by a periodic audit.
BackoffRespected == [][BackoffStep]_vars

DebounceStep == \A k \in Key : Delivers(k) => k \in periodic \/ eventWait[k] <= 0

\* An event that found the key idle and unscheduled is not delivered before
\* its debounce, except by a periodic audit: in particular no waiter left
\* behind by a cancelled timer delivers it early.
DebounceRespected == [][DebounceStep]_vars

\* The queue as the rest of the program sees it.
Busy == {k \in Key : stage[k] = "delivered"}
Requests == INSTANCE AuditRequests WITH
  asked <- owed,
  busy <- Busy,
  barred <- deleted,
  open <- phase = "running"

\* The queue keeps the promises of AuditRequests: timers, holds, exhaustion,
\* cancelled waiters and the two steps of Get add no concurrent or forbidden
\* audit of a key, answer no request before it is made, and starve none.
ImplementsRequests == Requests!Spec

\* No key is queued or being processed: a worker that asks is told to stop.
Drained == phase = "down" /\ dirty = {} /\ \A k \in Key : stage[k] = "idle"

\* ShutDown lets every worker return: the queue drains for good, although
\* retries, debounce waiters and events race with it, so that the wait for the
\* workers in PlatformRuntime.Run ends.
ShutDownDrains == phase = "stopping" ~> []Drained

-----------------------------------------------------------------------------
(* The inductive invariant, key by key. *)

\* A key is owed only while the queue runs and the target is not tombstoned,
\* and an event that waits is owed.
OwedWhileRunning(k) ==
    /\ k \in owed => phase = "running" /\ k \notin deleted
    /\ eventWait[k] > 0 => k \in owed

\* A waiter is past its timer only once the deadline has passed.
FiredIsOverdue(k) ==
    /\ pending[k].fired => pending[k].left <= 0
    /\ retrying[k].fired => retrying[k].left <= 0

\* A retry timer never outlasts the hold, and is overdue while the key is
\* with a worker: a delivery is not followed by a retry of its own past.
RetryWithinHold(k) ==
    retrying[k].on =>
        /\ retrying[k].left <= 0 \/ retrying[k].left <= held[k]
        /\ stage[k] = "delivered" => retrying[k].left <= 0

\* The hold is the backoff of the last failure for as long as it lasts.
HoldIsBackoff(k) == notBefore[k] > 0 => held[k] = notBefore[k]

\* While the debounce of an event runs, only a periodic audit is on its way,
\* and no timer ends earlier.
DebounceKept(k) ==
    eventWait[k] > 0 =>
        \/ k \in periodic
        \/ /\ k \notin dirty
           /\ stage[k] # "popped"
           /\ pending[k].on => pending[k].left >= eventWait[k]
           /\ retrying[k].on => retrying[k].left >= eventWait[k]

KeyInv(k) ==
    /\ ~(pending[k].on /\ retrying[k].on)
    /\ k \in owed => \/ k \in dirty
                     \/ pending[k].on
                     \/ retrying[k].on
                     \/ stage[k] = "popped"
    /\ k \in deleted => /\ ~pending[k].on /\ ~retrying[k].on
                        /\ held[k] = -1
                        /\ k \notin periodic
    /\ k \in periodic => k \in dirty \/ stage[k] = "popped"
    /\ OwedWhileRunning(k)
    /\ FiredIsOverdue(k)
    /\ RetryWithinHold(k)
    /\ HoldIsBackoff(k)
    /\ DebounceKept(k)

\* What every step preserves: the properties above, the retry timer bounded by
\* the hold, the hold equal to the running backoff, and no timer ahead of the
\* debounce of a waiting event.
IndInv == TypeOK /\ \A k \in Key : KeyInv(k)

=============================================================================
