------------------------- MODULE TargetQueueProofs -------------------------
(***************************************************************************)
(* Proofs about the target queue and about the runtime composed with it,   *)
(* for every set of keys, every number of workers and every choice of      *)
(* delays: the inductive invariant of the queue and what follows from it,  *)
(* the refinement of AuditRequests, and that the runtime does with the     *)
(* queue only what the queue allows, so that all of this holds of it too.  *)
(***************************************************************************)
EXTENDS PlatformRuntime, FiniteSetTheorems, TLAPS

\* Every per-key component of j is as before, and the queue still runs if it
\* did: steps that concern another key are of this form.
SameKey(j) ==
    /\ pending'[j] = pending[j]
    /\ retrying'[j] = retrying[j]
    /\ held'[j] = held[j]
    /\ stage'[j] = stage[j]
    /\ notBefore'[j] = notBefore[j]
    /\ eventWait'[j] = eventWait[j]
    /\ (j \in deleted') <=> (j \in deleted)
    /\ (j \in periodic') <=> (j \in periodic)
    /\ (j \in dirty') <=> (j \in dirty)
    /\ (j \in owed') <=> (j \in owed)
    /\ phase' = phase

\* The two values a map entry is reset to are timers, and what they hold.
LEMMA TimerValues ==
    /\ NoTimer \in Timer
    /\ ~NoTimer.on /\ ~NoTimer.fired
    /\ \A delay \in Left : /\ NewTimer(delay) \in Timer
                            /\ NewTimer(delay).on
                            /\ NewTimer(delay).left = delay
                            /\ ~NewTimer(delay).fired
  BY QueueAssumption DEF Timer, NoTimer, NewTimer, Left

\* The fields of a timer.
LEMMA TimerFields ==
    \A t \in Timer : t.on \in BOOLEAN /\ t.left \in Left /\ t.fired \in BOOLEAN
  BY Zenon DEF Timer

\* Firing and ageing keep a timer a timer.
LEMMA TimerUpdates ==
    \A t \in Timer :
        /\ [t EXCEPT !.fired = TRUE] \in Timer
        /\ [t EXCEPT !.left = Elapse(@)] \in Timer
        /\ [t EXCEPT !.left = Elapse(@)].on = t.on
        /\ [t EXCEPT !.left = Elapse(@)].fired = t.fired
        /\ [t EXCEPT !.left = Elapse(@)].left = Elapse(t.left)
  <1> SUFFICES ASSUME NEW t \in Timer
               PROVE  /\ [t EXCEPT !.fired = TRUE] \in Timer
                      /\ [t EXCEPT !.left = Elapse(@)] \in Timer
                      /\ [t EXCEPT !.left = Elapse(@)].on = t.on
                      /\ [t EXCEPT !.left = Elapse(@)].fired = t.fired
                      /\ [t EXCEPT !.left = Elapse(@)].left = Elapse(t.left)
    OBVIOUS
  <1>1. Elapse(t.left) \in Left
    BY QueueAssumption DEF Timer, Left, Elapse
  <1> QED
    BY <1>1, Zenon DEF Timer

\* Delays are times left.
LEMMA DelayTypes ==
    /\ Debounces \subseteq Left
    /\ RetryDelays \subseteq Left
    /\ MaxBackoff \in Left
    /\ -1 \in Left
    /\ Left \subseteq Int
    /\ \A x \in Left : x >= -1 /\ Elapse(x) \in Left
  BY QueueAssumption DEF Left, Elapse

\* What TypeOK says of the components of one key.
TypedKey(k) ==
    /\ pending[k].on \in BOOLEAN /\ retrying[k].on \in BOOLEAN
    /\ pending[k].fired \in BOOLEAN /\ retrying[k].fired \in BOOLEAN
    /\ pending[k].left \in Int /\ retrying[k].left \in Int
    /\ held[k] \in Left /\ held[k] \in Int /\ held[k] >= -1
    /\ notBefore[k] \in Int
    /\ eventWait[k] \in Int

\* What the type invariant says of the entries of one key.
LEMMA KeyTypes ==
    ASSUME TypeOK, NEW k \in Key
    PROVE  TypedKey(k)
  BY TimerFields, DelayTypes, Zenon DEF TypeOK, TypedKey

\* A key whose components do not change keeps its invariant.
LEMMA SameKeyKeepsInv ==
    ASSUME NEW j \in Key, KeyInv(j), SameKey(j)
    PROVE  KeyInv(j)'
  BY Zenon DEF KeyInv, SameKey, OwedWhileRunning, FiredIsOverdue, RetryWithinHold,
         HoldIsBackoff, DebounceKept

\* KeyInv in two halves: that a key asked for is on its way, and that the
\* timers agree with the holds.
Carried(k) ==
    /\ ~(pending[k].on /\ retrying[k].on)
    /\ k \in owed => \/ k \in dirty
                     \/ pending[k].on
                     \/ retrying[k].on
                     \/ stage[k] = "popped"
    /\ k \in deleted => /\ ~pending[k].on /\ ~retrying[k].on
                        /\ held[k] = -1
                        /\ k \notin periodic
    /\ k \in periodic => k \in dirty \/ stage[k] = "popped"
    /\ OwedWhileRunning(k)

Timely(k) ==
    FiredIsOverdue(k) /\ RetryWithinHold(k) /\ HoldIsBackoff(k) /\ DebounceKept(k)

\* The two halves make up KeyInv, after a step too.
LEMMA KeyInvHalves ==
    ASSUME NEW k \in Key
    PROVE  /\ KeyInv(k) => Carried(k) /\ Timely(k)
           /\ Carried(k)' /\ Timely(k)' => KeyInv(k)'
  BY Zenon DEF KeyInv, Carried, Timely

\* Waiters left behind are waiters.
LEMMA LeftBehindType == \A k \in Key : LeftBehind(k) \subseteq Key \X Kinds
  BY Zenon DEF LeftBehind

\* The initial state satisfies the inductive invariant.
LEMMA InitInv == Init => IndInv
  <1> SUFFICES ASSUME Init PROVE IndInv
    OBVIOUS
  <1>1. TypeOK
    BY QueueAssumption, TimerValues, DelayTypes DEF Init, TypeOK
  <1>2. ASSUME NEW k \in Key PROVE KeyInv(k)
    BY TimerValues, DelayTypes
    DEF Init, KeyInv, OwedWhileRunning, FiredIsOverdue, RetryWithinHold,
        HoldIsBackoff, DebounceKept
  <1> QED
    BY <1>1, <1>2, Zenon DEF IndInv

\* scheduleRetryLocked keeps the types.
LEMMA ScheduleRetryType ==
    ASSUME TypeOK, NEW k \in Key, NEW delay \in Left, ScheduleRetry(k, delay)
    PROVE  /\ pending' \in [Key -> Timer]
           /\ retrying' \in [Key -> Timer]
           /\ stale' \in SUBSET (Key \X Kinds)
           /\ dirty' \in SUBSET Key
  BY LeftBehindType, TimerValues, SMTT(60) DEF TypeOK, ScheduleRetry, Added

\* ScheduleRetry does nothing: the queue is down or the debounce covers the delay.
RetryCovered(k, delay) ==
    /\ phase = "down" \/ (pending[k].on /\ pending[k].left >= delay)
    /\ pending'[k] = pending[k]
    /\ retrying'[k] = retrying[k]
    /\ (k \in dirty') <=> (k \in dirty)

\* ScheduleRetry drops the debounce and adds the key at once.
RetryAdded(k, delay) ==
    /\ phase # "down" /\ delay <= 0
    /\ ~(pending[k].on /\ pending[k].left >= delay)
    /\ ~pending'[k].on /\ ~pending'[k].fired
    /\ ~retrying'[k].on /\ ~retrying'[k].fired
    /\ k \in dirty'

\* ScheduleRetry replaces the debounce by a retry timer.
RetryTimed(k, delay) ==
    /\ phase # "down" /\ delay > 0
    /\ ~(pending[k].on /\ pending[k].left >= delay)
    /\ ~pending'[k].on /\ ~pending'[k].fired
    /\ retrying'[k].on /\ ~retrying'[k].fired
    /\ retrying'[k].left = delay
    /\ (k \in dirty') <=> (k \in dirty)

\* What scheduleRetryLocked does to the key: nothing when the queue is shut
\* down or a pending debounce lasts long enough, else the retry timer, or the
\* immediate delivery, replaces whatever timer there was.
LEMMA ScheduleRetryEffect ==
    ASSUME TypeOK, NEW k \in Key, NEW delay \in Left, ScheduleRetry(k, delay)
    PROVE  RetryCovered(k, delay) \/ RetryAdded(k, delay) \/ RetryTimed(k, delay)
  <1>1. CASE phase = "down" \/ PendingCovers(k, delay)
    BY <1>1, Zenon DEF ScheduleRetry, PendingCovers, RetryCovered
  <1>2. CASE ~(phase = "down" \/ PendingCovers(k, delay)) /\ delay <= 0
    BY <1>2, TimerValues, ZenonT(60) DEF TypeOK, ScheduleRetry, PendingCovers, Added, RetryAdded
  <1>3. CASE ~(phase = "down" \/ PendingCovers(k, delay)) /\ ~(delay <= 0)
    <2>1. delay > 0
      BY <1>3, DelayTypes
    <2> QED
      BY <1>3, <2>1, TimerValues DEF TypeOK, ScheduleRetry, PendingCovers, RetryTimed
  <1> QED
    BY <1>1, <1>2, <1>3, Zenon

\* EnqueuePeriodic preserves the invariant.
LEMMA EnqueuePeriodicInv ==
    ASSUME IndInv, NEW k \in Key, EnqueuePeriodic(k)
    PROVE  IndInv'
  <1>1. TypeOK /\ KeyInv(k)
    BY Zenon DEF IndInv
  <1>2. TypeOK'
    BY <1>1, TimerValues, DelayTypes, LeftBehindType, ZenonT(60)
    DEF TypeOK, EnqueuePeriodic, Added, Owe
  <1>3. ASSUME NEW j \in Key, j # k PROVE KeyInv(j)'
    <2>1. SameKey(j)
      BY <1>1, <1>3, ZenonT(60) DEF TypeOK, SameKey, EnqueuePeriodic, Added, Owe
    <2> QED
      BY <2>1, SameKeyKeepsInv, Zenon DEF IndInv
  <1>4. KeyInv(k)'
    BY <1>1, TimerValues, DelayTypes
    DEF TypeOK, EnqueuePeriodic, Added, Owe, KeyInv, OwedWhileRunning, FiredIsOverdue,
        RetryWithinHold,
        HoldIsBackoff, DebounceKept
  <1> QED
    BY <1>2, <1>3, <1>4, Zenon DEF IndInv

\* ActivateTarget preserves the invariant.
LEMMA ActivateTargetInv ==
    ASSUME IndInv, NEW k \in Key, ActivateTarget(k)
    PROVE  IndInv'
  <1>1. TypeOK /\ KeyInv(k)
    BY Zenon DEF IndInv
  <1>2. TypeOK'
    BY <1>1, ZenonT(60) DEF TypeOK, ActivateTarget
  <1>3. ASSUME NEW j \in Key, j # k PROVE KeyInv(j)'
    <2>1. SameKey(j)
      BY <1>1, <1>3, Zenon DEF TypeOK, SameKey, ActivateTarget
    <2> QED
      BY <2>1, SameKeyKeepsInv, Zenon DEF IndInv
  <1>4. KeyInv(k)'
    BY <1>1, TimerValues, DelayTypes, ZenonT(60)
    DEF TypeOK, ActivateTarget, KeyInv, OwedWhileRunning, FiredIsOverdue, RetryWithinHold,
        HoldIsBackoff, DebounceKept
  <1> QED
    BY <1>2, <1>3, <1>4, Zenon DEF IndInv

\* ForgetTarget preserves the invariant.
LEMMA ForgetTargetInv ==
    ASSUME IndInv, NEW k \in Key, ForgetTarget(k)
    PROVE  IndInv'
  <1>1. TypeOK /\ KeyInv(k)
    BY Zenon DEF IndInv
  <1>2. TypeOK'
    BY <1>1, TimerValues, DelayTypes, LeftBehindType, QueueAssumption
    DEF TypeOK, ForgetTarget
  <1>3. ASSUME NEW j \in Key, j # k PROVE KeyInv(j)'
    <2>1. SameKey(j)
      BY <1>1, <1>3, ZenonT(60) DEF TypeOK, SameKey, ForgetTarget
    <2> QED
      BY <2>1, SameKeyKeepsInv, Zenon DEF IndInv
  <1>4. KeyInv(k)'
    BY <1>1, TimerValues, DelayTypes
    DEF TypeOK, ForgetTarget, KeyInv, OwedWhileRunning, FiredIsOverdue, RetryWithinHold,
        HoldIsBackoff, DebounceKept
  <1> QED
    BY <1>2, <1>3, <1>4, Zenon DEF IndInv

\* Taking a key from client-go preserves the invariant.
LEMMA PopInv ==
    ASSUME IndInv, NEW k \in Key, Pop(k)
    PROVE  IndInv'
  <1>1. TypeOK /\ KeyInv(k)
    BY Zenon DEF IndInv
  <1>2. TypeOK'
    BY <1>1, Zenon DEF TypeOK, Pop
  <1>3. ASSUME NEW j \in Key, j # k PROVE KeyInv(j)'
    <2>1. SameKey(j)
      BY <1>1, <1>3, ZenonT(60) DEF TypeOK, SameKey, Pop
    <2> QED
      BY <2>1, SameKeyKeepsInv, Zenon DEF IndInv
  <1>4. KeyInv(k)'
    BY <1>1, TimerValues, DelayTypes
    DEF TypeOK, Pop, KeyInv, OwedWhileRunning, FiredIsOverdue, RetryWithinHold,
        HoldIsBackoff, DebounceKept
  <1> QED
    BY <1>2, <1>3, <1>4 DEF IndInv

\* Dropping a tombstoned key preserves the invariant.
LEMMA GetDeletedInv ==
    ASSUME IndInv, NEW k \in Key, GetDeleted(k)
    PROVE  IndInv'
  <1>1. TypeOK /\ KeyInv(k)
    BY Zenon DEF IndInv
  <1>2. TypeOK'
    BY <1>1, DelayTypes, QueueAssumption DEF TypeOK, GetDeleted, Done
  <1>3. ASSUME NEW j \in Key, j # k PROVE KeyInv(j)'
    <2>1. SameKey(j)
      BY <1>1, <1>3, Zenon DEF TypeOK, SameKey, GetDeleted, Done
    <2> QED
      BY <2>1, SameKeyKeepsInv, Zenon DEF IndInv
  <1>4. KeyInv(k)'
    BY <1>1, TimerValues, DelayTypes, ZenonT(60)
    DEF TypeOK, GetDeleted, Done, KeyInv, OwedWhileRunning, FiredIsOverdue, RetryWithinHold,
        HoldIsBackoff, DebounceKept
  <1> QED
    BY <1>2, <1>3, <1>4, Zenon DEF IndInv

\* Handing a key to a worker preserves the invariant.
LEMMA DeliverInv ==
    ASSUME IndInv, NEW k \in Key, Deliver(k)
    PROVE  IndInv'
  <1>1. TypeOK /\ KeyInv(k) /\ TypedKey(k)
    BY KeyTypes, Zenon DEF IndInv
  <1>2. TypeOK'
    BY <1>1, TimerValues, DelayTypes, LeftBehindType DEF TypeOK, Deliver, StopRetry
  <1>3. ASSUME NEW j \in Key, j # k PROVE KeyInv(j)'
    <2>1. SameKey(j)
      BY <1>1, <1>3, ZenonT(60) DEF TypeOK, SameKey, Deliver, StopRetry
    <2> QED
      BY <2>1, SameKeyKeepsInv, Zenon DEF IndInv
  <1>4. KeyInv(k)'
    <2>1. /\ stage[k] = "popped" /\ stage'[k] = "delivered"
          /\ k \notin deleted /\ k \notin periodic' /\ k \notin owed'
          /\ k \in periodic \/ held[k] <= 0
          /\ k \in periodic => ~retrying'[k].on /\ ~retrying'[k].fired
          /\ k \notin periodic => retrying'[k] = retrying[k]
          /\ eventWait'[k] = -1
          /\ UNCHANGED <<deleted, pending, held, dirty, phase, notBefore>>
      BY <1>1, TimerValues, ZenonT(60) DEF TypeOK, Deliver, StopRetry
    <2> QED
      BY <1>1, <2>1, SMTT(60)
      DEF TypedKey, KeyInv, OwedWhileRunning, FiredIsOverdue, RetryWithinHold,
        HoldIsBackoff, DebounceKept
  <1> QED
    BY <1>2, <1>3, <1>4, Zenon DEF IndInv

\* Completing a tombstoned key preserves the invariant.
LEMMA CompleteDeletedInv ==
    ASSUME IndInv, NEW k \in Key, CompleteDeleted(k)
    PROVE  IndInv'
  <1>1. TypeOK /\ KeyInv(k)
    BY Zenon DEF IndInv
  <1>2. TypeOK'
    BY <1>1, DelayTypes, QueueAssumption DEF TypeOK, CompleteDeleted, Done
  <1>3. ASSUME NEW j \in Key, j # k PROVE KeyInv(j)'
    <2>1. SameKey(j)
      BY <1>1, <1>3, ZenonT(60) DEF TypeOK, SameKey, CompleteDeleted, Done
    <2> QED
      BY <2>1, SameKeyKeepsInv, Zenon DEF IndInv
  <1>4. KeyInv(k)'
    BY <1>1, TimerValues, DelayTypes
    DEF TypeOK, CompleteDeleted, Done, KeyInv, OwedWhileRunning, FiredIsOverdue, RetryWithinHold,
        HoldIsBackoff, DebounceKept
  <1> QED
    BY <1>2, <1>3, <1>4, Zenon DEF IndInv

\* Completing a key without error preserves the invariant.
LEMMA CompleteSucceededInv ==
    ASSUME IndInv, NEW k \in Key, CompleteSucceeded(k)
    PROVE  IndInv'
  <1>1. TypeOK /\ KeyInv(k)
    BY Zenon DEF IndInv
  <1>2. TypeOK'
    BY <1>1, DelayTypes, QueueAssumption DEF TypeOK, CompleteSucceeded, Done
  <1>3. ASSUME NEW j \in Key, j # k PROVE KeyInv(j)'
    <2>1. SameKey(j)
      BY <1>1, <1>3, ZenonT(60) DEF TypeOK, SameKey, CompleteSucceeded, Done
    <2> QED
      BY <2>1, SameKeyKeepsInv, Zenon DEF IndInv
  <1>4. KeyInv(k)'
    BY <1>1, TimerValues, DelayTypes
    DEF TypeOK, CompleteSucceeded, Done, KeyInv, OwedWhileRunning, FiredIsOverdue, RetryWithinHold,
        HoldIsBackoff, DebounceKept
  <1> QED
    BY <1>2, <1>3, <1>4, Zenon DEF IndInv

\* A debounce timer that fires preserves the invariant.
LEMMA FireDebounceInv ==
    ASSUME IndInv, NEW k \in Key, FireDebounce(k)
    PROVE  IndInv'
  <1>1. TypeOK /\ KeyInv(k)
    BY Zenon DEF IndInv
  <1>2. TypeOK'
    BY <1>1, TimerUpdates, ZenonT(60) DEF TypeOK, FireDebounce
  <1>3. ASSUME NEW j \in Key, j # k PROVE KeyInv(j)'
    <2>1. SameKey(j)
      BY <1>1, <1>3, ZenonT(60) DEF TypeOK, SameKey, FireDebounce
    <2> QED
      BY <2>1, SameKeyKeepsInv, Zenon DEF IndInv
  <1>4. KeyInv(k)'
    BY <1>1, TimerValues, DelayTypes
    DEF TypeOK, FireDebounce, KeyInv, OwedWhileRunning, FiredIsOverdue, RetryWithinHold,
        HoldIsBackoff, DebounceKept
  <1> QED
    BY <1>2, <1>3, <1>4, Zenon DEF IndInv

\* A retry timer that fires preserves the invariant.
LEMMA FireRetryInv ==
    ASSUME IndInv, NEW k \in Key, FireRetry(k)
    PROVE  IndInv'
  <1>1. TypeOK /\ KeyInv(k)
    BY Zenon DEF IndInv
  <1>2. TypeOK'
    BY <1>1, TimerUpdates, Zenon DEF TypeOK, FireRetry
  <1>3. ASSUME NEW j \in Key, j # k PROVE KeyInv(j)'
    <2>1. SameKey(j)
      BY <1>1, <1>3, ZenonT(60) DEF TypeOK, SameKey, FireRetry
    <2> QED
      BY <2>1, SameKeyKeepsInv, Zenon DEF IndInv
  <1>4. KeyInv(k)'
    BY <1>1, TimerValues, DelayTypes
    DEF TypeOK, FireRetry, KeyInv, OwedWhileRunning, FiredIsOverdue, RetryWithinHold,
        HoldIsBackoff, DebounceKept
  <1> QED
    BY <1>2, <1>3, <1>4, Zenon DEF IndInv

\* The waiter of a debounce timer preserves the invariant.
LEMMA ExpireDebounceInv ==
    ASSUME IndInv, NEW k \in Key, ExpireDebounce(k)
    PROVE  IndInv'
  <1>1. TypeOK /\ KeyInv(k) /\ TypedKey(k)
    BY KeyTypes, Zenon DEF IndInv
  <1>2. TypeOK'
    BY <1>1, TimerValues, ZenonT(60) DEF TypeOK, ExpireDebounce, Added
  <1>3. ASSUME NEW j \in Key, j # k PROVE KeyInv(j)'
    <2>1. SameKey(j)
      BY <1>1, <1>3, ZenonT(60) DEF TypeOK, SameKey, ExpireDebounce, Added
    <2> QED
      BY <2>1, SameKeyKeepsInv, Zenon DEF IndInv
  <1>4. KeyInv(k)'
    <2>1. /\ ~pending'[k].on /\ ~pending'[k].fired
          /\ pending[k].on /\ pending[k].fired
          /\ k \in deleted => (k \in dirty' <=> k \in dirty)
          /\ k \in dirty => k \in dirty'
          /\ k \notin deleted /\ phase # "down" => k \in dirty'
          /\ UNCHANGED <<deleted, retrying, held, periodic, stage, phase, owed,
                         notBefore, eventWait>>
      BY <1>1, TimerValues, ZenonT(60) DEF TypeOK, ExpireDebounce, Added
    <2> QED
      BY <1>1, <2>1, SMTT(60)
      DEF TypedKey, KeyInv, OwedWhileRunning, FiredIsOverdue, RetryWithinHold,
        HoldIsBackoff, DebounceKept
  <1> QED
    BY <1>2, <1>3, <1>4, Zenon DEF IndInv

\* The waiter of a retry timer preserves the invariant.
LEMMA ExpireRetryInv ==
    ASSUME IndInv, NEW k \in Key, ExpireRetry(k)
    PROVE  IndInv'
  <1>1. TypeOK /\ KeyInv(k) /\ TypedKey(k)
    BY KeyTypes, Zenon DEF IndInv
  <1>2. TypeOK'
    BY <1>1, TimerValues, ZenonT(60) DEF TypeOK, ExpireRetry, Added
  <1>3. ASSUME NEW j \in Key, j # k PROVE KeyInv(j)'
    <2>1. SameKey(j)
      BY <1>1, <1>3, ZenonT(60) DEF TypeOK, SameKey, ExpireRetry, Added
    <2> QED
      BY <2>1, SameKeyKeepsInv, Zenon DEF IndInv
  <1>4. KeyInv(k)'
    <2>1. /\ ~retrying'[k].on /\ ~retrying'[k].fired
          /\ retrying[k].on /\ retrying[k].fired
          /\ k \in deleted => (k \in dirty' <=> k \in dirty)
          /\ k \in dirty => k \in dirty'
          /\ k \notin deleted /\ phase # "down" => k \in dirty'
          /\ UNCHANGED <<deleted, pending, held, periodic, stage, phase, owed,
                         notBefore, eventWait>>
      BY <1>1, TimerValues, ZenonT(60) DEF TypeOK, ExpireRetry, Added
    <2> QED
      BY <1>1, <2>1, SMTT(60)
      DEF TypedKey, KeyInv, OwedWhileRunning, FiredIsOverdue, RetryWithinHold,
        HoldIsBackoff, DebounceKept
  <1> QED
    BY <1>2, <1>3, <1>4, Zenon DEF IndInv

\* Enqueue preserves the invariant.
LEMMA EnqueueInv ==
    ASSUME IndInv, NEW k \in Key, NEW d \in Debounces, Enqueue(k, d)
    PROVE  IndInv'
  <1>1. TypeOK /\ KeyInv(k) /\ TypedKey(k) /\ Carried(k) /\ Timely(k)
    BY KeyTypes, KeyInvHalves, ZenonT(60) DEF IndInv
  <1>2. TypeOK'
    <2>1. EnqueueDelay(k, d) \in Left
      BY <1>1, DelayTypes, ZenonT(60) DEF TypedKey, EnqueueDelay
    <2>2. held' \in [Key -> Left] /\ eventWait' \in [Key -> Left]
      BY <1>1, DelayTypes DEF TypeOK, Enqueue
    <2>3. pending' \in [Key -> Timer] /\ retrying' \in [Key -> Timer]
      BY <1>1, <2>1, TimerValues, SMTT(60) DEF TypeOK, Enqueue, StopRetry
    <2>4. stale' \in SUBSET (Key \X Kinds) /\ dirty' \in SUBSET Key
      BY <1>1, LeftBehindType DEF TypeOK, Enqueue, StopRetry, Added
    <2> QED
      BY <1>1, <2>2, <2>3, <2>4 DEF TypeOK, Enqueue, Owe
  <1>3. ASSUME NEW j \in Key, j # k PROVE KeyInv(j)'
    <2>1. SameKey(j)
      BY <1>1, <1>3 DEF TypeOK, SameKey, Enqueue, EnqueueDelay, StopRetry, Added, Owe
    <2> QED
      BY <2>1, SameKeyKeepsInv, ZenonT(60) DEF IndInv
  <1>4. KeyInv(k)'
    <2>1. /\ phase # "down" /\ k \notin deleted
          /\ phase = "running" => k \in owed'
          /\ phase # "running" => (k \in owed' <=> k \in owed)
          /\ \/ /\ eventWait'[k] = eventWait[k]
                /\ \/ pending[k].on \/ k \in dirty
                   \/ stage[k] = "popped" \/ phase # "running"
             \/ /\ eventWait'[k] = d
                /\ ~pending[k].on /\ k \notin dirty
                /\ stage[k] # "popped" /\ phase = "running"
          /\ UNCHANGED <<deleted, periodic, stage, phase, notBefore>>
      BY <1>1, ZenonT(60) DEF TypeOK, Enqueue, Owe
    <2>2. d \in Int /\ d >= 0
      BY QueueAssumption, SMTT(60)
    <2>3. CASE pending[k].on \/ (retrying[k].on /\ retrying[k].left >= d)
      <3>1. UNCHANGED <<pending, retrying, held, dirty>>
        BY <2>3, Zenon DEF Enqueue
      <3> QED
        <4>1. Carried(k)'
          BY <1>1, <2>1, <2>2, <2>3, <3>1, ZenonT(60)
          DEF Carried, OwedWhileRunning
        <4>2. Timely(k)'
          BY <1>1, <2>1, <2>2, <2>3, <3>1, SMTT(60)
          DEF TypedKey, Carried, OwedWhileRunning, Timely, FiredIsOverdue,
              RetryWithinHold, HoldIsBackoff, DebounceKept
        <4> QED
          BY <4>1, <4>2, KeyInvHalves, Zenon
    <2>4. CASE ~(pending[k].on \/ (retrying[k].on /\ retrying[k].left >= d))
      <3>1. /\ ~retrying'[k].on /\ ~retrying'[k].fired
            /\ \/ held[k] <= 0 /\ held'[k] = -1
               \/ ~(held[k] <= 0) /\ held'[k] = held[k]
        BY <1>1, <2>4, TimerValues, ZenonT(60) DEF TypeOK, Enqueue, StopRetry
      <3>2. /\ EnqueueDelay(k, d) \in Left /\ EnqueueDelay(k, d) \in Int
            /\ EnqueueDelay(k, d) >= d
        BY <1>1, <2>2, DelayTypes, SMTT(60) DEF TypedKey, EnqueueDelay
      <3>3. CASE EnqueueDelay(k, d) <= 0
        <4>1. k \in dirty' /\ pending'[k] = pending[k]
          BY <1>1, <2>1, <2>4, <3>3, ZenonT(60) DEF TypeOK, Enqueue, Added
        <4> QED
          <5>1. Carried(k)'
            BY <1>1, <2>1, <2>2, <2>4, <3>1, <3>2, <3>3, <4>1, ZenonT(60)
            DEF Carried, OwedWhileRunning
          <5>2. Timely(k)'
            BY <1>1, <2>1, <2>2, <2>4, <3>1, <3>2, <3>3, <4>1, SMTT(60)
            DEF TypedKey, Carried, OwedWhileRunning, Timely, FiredIsOverdue,
                RetryWithinHold, HoldIsBackoff, DebounceKept
          <5> QED
            BY <5>1, <5>2, KeyInvHalves, Zenon
      <3>4. CASE ~(EnqueueDelay(k, d) <= 0)
        <4>1. /\ pending'[k].on /\ ~pending'[k].fired
              /\ pending'[k].left = EnqueueDelay(k, d)
              /\ dirty' = dirty
          BY <1>1, <2>4, <3>2, <3>4, TimerValues, SMTT(60) DEF TypeOK, Enqueue
        <4> QED
          <5>1. Carried(k)'
            BY <1>1, <2>1, <2>2, <2>4, <3>1, <3>2, <3>4, <4>1, ZenonT(60)
            DEF Carried, OwedWhileRunning
          <5>2. Timely(k)'
            BY <1>1, <2>1, <2>2, <2>4, <3>1, <3>2, <3>4, <4>1, SMTT(60)
            DEF TypedKey, Carried, OwedWhileRunning, Timely, FiredIsOverdue,
                RetryWithinHold, HoldIsBackoff, DebounceKept
          <5> QED
            BY <5>1, <5>2, KeyInvHalves, Zenon
      <3> QED
        BY <3>3, <3>4, Zenon
    <2> QED
      BY <2>3, <2>4, Zenon
  <1> QED
    BY <1>2, <1>3, <1>4, ZenonT(60) DEF IndInv

\* Putting a held key back preserves the invariant.
LEMMA GetHeldInv ==
    ASSUME IndInv, NEW k \in Key, GetHeld(k)
    PROVE  IndInv'
  <1>1. TypeOK /\ KeyInv(k) /\ TypedKey(k) /\ Carried(k) /\ Timely(k)
    BY KeyTypes, KeyInvHalves, Zenon DEF IndInv
  <1>2. TypeOK'
    <2>1. held[k] \in Left
      BY <1>1, Zenon DEF TypedKey
    <2>2. ScheduleRetry(k, held[k])
      BY ZenonT(60) DEF GetHeld
    <2> QED
      BY <1>1, <2>1, <2>2, ScheduleRetryType DEF TypeOK, GetHeld, Done
  <1>3. ASSUME NEW j \in Key, j # k PROVE KeyInv(j)'
    <2>1. SameKey(j)
      BY <1>1, <1>3
      DEF TypeOK, SameKey, GetHeld, ScheduleRetry, PendingCovers, Added, Done
    <2> QED
      BY <2>1, SameKeyKeepsInv, Zenon DEF IndInv
  <1>4. KeyInv(k)'
    <2>1. held[k] \in Left /\ ScheduleRetry(k, held[k])
      BY <1>1, Zenon DEF TypedKey, GetHeld
    <2>2. /\ stage[k] = "popped" /\ stage'[k] = "idle"
          /\ k \notin deleted /\ k \notin periodic /\ held[k] > 0
          /\ UNCHANGED <<deleted, held, periodic, phase, owed, notBefore, eventWait>>
      BY <1>1, ZenonT(60) DEF TypeOK, GetHeld, Done
    <2>3. RetryCovered(k, held[k]) \/ RetryAdded(k, held[k]) \/ RetryTimed(k, held[k])
      BY <1>1, <2>1, ScheduleRetryEffect, SMTT(60)
    <2>4. CASE RetryCovered(k, held[k])
      <3>1. Carried(k)'
        BY <1>1, <2>1, <2>2, <2>4, ZenonT(60)
        DEF RetryCovered, Carried, OwedWhileRunning
      <3>2. Timely(k)'
        BY <1>1, <2>1, <2>2, <2>4, SMTT(60)
        DEF RetryCovered, TypedKey, Carried, OwedWhileRunning, Timely, FiredIsOverdue,
            RetryWithinHold, HoldIsBackoff, DebounceKept
      <3> QED
        BY <3>1, <3>2, KeyInvHalves, Zenon
    <2>5. CASE RetryAdded(k, held[k])
      <3>1. Carried(k)'
        BY <1>1, <2>1, <2>2, <2>5, ZenonT(60)
        DEF RetryAdded, Carried, OwedWhileRunning
      <3>2. Timely(k)'
        BY <1>1, <2>1, <2>2, <2>5, SMTT(60)
        DEF RetryAdded, TypedKey, Carried, OwedWhileRunning, Timely, FiredIsOverdue,
            RetryWithinHold, HoldIsBackoff, DebounceKept
      <3> QED
        BY <3>1, <3>2, KeyInvHalves, Zenon
    <2>6. CASE RetryTimed(k, held[k])
      <3>1. Carried(k)'
        BY <1>1, <2>1, <2>2, <2>6, ZenonT(60)
        DEF RetryTimed, Carried, OwedWhileRunning
      <3>2. Timely(k)'
        BY <1>1, <2>1, <2>2, <2>6, SMTT(60)
        DEF RetryTimed, TypedKey, Carried, OwedWhileRunning, Timely, FiredIsOverdue,
            RetryWithinHold, HoldIsBackoff, DebounceKept
      <3> QED
        BY <3>1, <3>2, KeyInvHalves, Zenon
    <2> QED
      BY <2>3, <2>4, <2>5, <2>6
  <1> QED
    BY <1>2, <1>3, <1>4, Zenon DEF IndInv

\* Holding a key whose retries are used up preserves the invariant.
LEMMA CompleteExhaustedInv ==
    ASSUME IndInv, NEW k \in Key, CompleteExhausted(k)
    PROVE  IndInv'
  <1>1. TypeOK /\ KeyInv(k) /\ TypedKey(k) /\ Carried(k) /\ Timely(k)
    BY KeyTypes, KeyInvHalves, Zenon DEF IndInv
  <1>2. TypeOK'
    <2>1. /\ pending' \in [Key -> Timer] /\ retrying' \in [Key -> Timer]
          /\ stale' \in SUBSET (Key \X Kinds) /\ dirty' \in SUBSET Key
      <3>1. CASE pending[k].on
        <4>1. ScheduleRetry(k, MaxBackoff)
          BY <3>1, Zenon DEF CompleteExhausted
        <4> QED
          BY <1>1, <4>1, ScheduleRetryType, DelayTypes, ZenonT(60)
      <3>2. CASE ~pending[k].on
        BY <1>1, <3>2, ZenonT(60) DEF TypeOK, CompleteExhausted
      <3> QED
        BY <3>1, <3>2, Zenon
    <2> QED
      BY <1>1, <2>1, DelayTypes, ZenonT(60) DEF TypeOK, CompleteExhausted, Done
  <1>3. ASSUME NEW j \in Key, j # k PROVE KeyInv(j)'
    <2>1. SameKey(j)
      BY <1>1, <1>3
      DEF TypeOK, SameKey, CompleteExhausted, ScheduleRetry, PendingCovers, Added, Done
    <2> QED
      BY <2>1, SameKeyKeepsInv, Zenon DEF IndInv
  <1>4. KeyInv(k)'
    <2>1. /\ stage[k] = "delivered" /\ stage'[k] = "idle"
          /\ k \notin deleted
          /\ held'[k] = MaxBackoff /\ notBefore'[k] = MaxBackoff
          /\ UNCHANGED <<deleted, periodic, phase, owed, eventWait>>
      BY <1>1, DelayTypes, ZenonT(60) DEF TypeOK, CompleteExhausted, Done
    <2>2. CASE pending[k].on
      <3>1. ScheduleRetry(k, MaxBackoff)
        BY <2>2, Zenon DEF CompleteExhausted
      <3>2. RetryCovered(k, MaxBackoff) \/ RetryAdded(k, MaxBackoff) \/ RetryTimed(k, MaxBackoff)
        BY <1>1, <3>1, DelayTypes, ScheduleRetryEffect, SMTT(60)
      <3>3. CASE RetryCovered(k, MaxBackoff)
        <4>1. Carried(k)'
          BY <1>1, <2>1, <2>2, <3>1, <3>3, ZenonT(60)
          DEF RetryCovered, Carried, OwedWhileRunning
        <4>2. Timely(k)'
          BY <1>1, <2>1, <2>2, <3>1, <3>3, DelayTypes, SMTT(60)
          DEF RetryCovered, TypedKey, Carried, OwedWhileRunning, Timely, FiredIsOverdue,
              RetryWithinHold, HoldIsBackoff, DebounceKept
        <4> QED
          BY <4>1, <4>2, KeyInvHalves, Zenon
      <3>4. CASE RetryAdded(k, MaxBackoff)
        <4>1. Carried(k)'
          BY <1>1, <2>1, <2>2, <3>1, <3>4, ZenonT(60)
          DEF RetryAdded, Carried, OwedWhileRunning
        <4>2. Timely(k)'
          BY <1>1, <2>1, <2>2, <3>1, <3>4, DelayTypes, SMTT(60)
          DEF RetryAdded, TypedKey, Carried, OwedWhileRunning, Timely, FiredIsOverdue,
              RetryWithinHold, HoldIsBackoff, DebounceKept
        <4> QED
          BY <4>1, <4>2, KeyInvHalves, Zenon
      <3>5. CASE RetryTimed(k, MaxBackoff)
        <4>1. Carried(k)'
          BY <1>1, <2>1, <2>2, <3>1, <3>5, ZenonT(60)
          DEF RetryTimed, Carried, OwedWhileRunning
        <4>2. Timely(k)'
          BY <1>1, <2>1, <2>2, <3>1, <3>5, DelayTypes, SMTT(60)
          DEF RetryTimed, TypedKey, Carried, OwedWhileRunning, Timely, FiredIsOverdue,
              RetryWithinHold, HoldIsBackoff, DebounceKept
        <4> QED
          BY <4>1, <4>2, KeyInvHalves, Zenon
      <3> QED
        BY <3>2, <3>3, <3>4, <3>5, ZenonT(60)
    <2>3. CASE ~pending[k].on
      <3>1. UNCHANGED <<pending, retrying, dirty>>
        BY <2>3, ZenonT(60) DEF CompleteExhausted
      <3> QED
        <4>1. Carried(k)'
          BY <1>1, <2>1, <2>3, <3>1, ZenonT(60)
          DEF Carried, OwedWhileRunning
        <4>2. Timely(k)'
          BY <1>1, <2>1, <2>3, <3>1, DelayTypes, SMTT(60)
          DEF TypedKey, Carried, OwedWhileRunning, Timely, FiredIsOverdue,
              RetryWithinHold, HoldIsBackoff, DebounceKept
        <4> QED
          BY <4>1, <4>2, KeyInvHalves, Zenon
    <2> QED
      BY <2>2, <2>3, ZenonT(60)
  <1> QED
    BY <1>2, <1>3, <1>4, Zenon DEF IndInv

\* Scheduling a retry preserves the invariant.
LEMMA CompleteRetriedInv ==
    ASSUME IndInv, NEW k \in Key, NEW delay \in RetryDelays, CompleteRetried(k, delay)
    PROVE  IndInv'
  <1>1. TypeOK /\ KeyInv(k) /\ TypedKey(k) /\ Carried(k) /\ Timely(k)
    BY KeyTypes, KeyInvHalves, Zenon DEF IndInv
  <1>2. TypeOK'
    <2>1. delay \in Left /\ ScheduleRetry(k, delay)
      BY DelayTypes, ZenonT(60) DEF CompleteRetried
    <2>2. requeues' \in [Key -> 0 .. MaxRetries]
      BY <1>1, QueueAssumption, SMTT(60) DEF TypeOK, CompleteRetried
    <2> QED
      BY <1>1, <2>1, <2>2, ScheduleRetryType DEF TypeOK, CompleteRetried, Done, Owe
  <1>3. ASSUME NEW j \in Key, j # k PROVE KeyInv(j)'
    <2>1. SameKey(j)
      BY <1>1, <1>3
      DEF TypeOK, SameKey, CompleteRetried, ScheduleRetry, PendingCovers, Added, Done, Owe
    <2> QED
      BY <2>1, SameKeyKeepsInv, Zenon DEF IndInv
  <1>4. KeyInv(k)'
    <2>1. delay \in Left /\ delay \in Int /\ ScheduleRetry(k, delay)
      BY DelayTypes, Zenon DEF CompleteRetried
    <2>2. /\ stage[k] = "delivered" /\ stage'[k] = "idle"
          /\ k \notin deleted
          /\ held'[k] = delay /\ notBefore'[k] = delay
          /\ phase = "running" => k \in owed'
          /\ phase # "running" => (k \in owed' <=> k \in owed)
          /\ UNCHANGED <<deleted, periodic, phase, eventWait>>
      BY <1>1, Zenon DEF TypeOK, CompleteRetried, Done, Owe
    <2>3. RetryCovered(k, delay) \/ RetryAdded(k, delay) \/ RetryTimed(k, delay)
      BY <1>1, <2>1, ScheduleRetryEffect, ZenonT(60)
    <2>4. CASE RetryCovered(k, delay)
      BY <1>1, <2>1, <2>2, <2>4, ZenonT(60)
      DEF RetryCovered, TypedKey, KeyInv, OwedWhileRunning, FiredIsOverdue,
          RetryWithinHold, HoldIsBackoff, DebounceKept
    <2>5. CASE RetryAdded(k, delay)
      <3>1. Carried(k)'
        BY <1>1, <2>1, <2>2, <2>5, ZenonT(60)
        DEF RetryAdded, Carried, OwedWhileRunning
      <3>2. Timely(k)'
        BY <1>1, <2>1, <2>2, <2>5, SMTT(60)
        DEF RetryAdded, TypedKey, Carried, OwedWhileRunning, Timely, FiredIsOverdue,
            RetryWithinHold, HoldIsBackoff, DebounceKept
      <3> QED
        BY <3>1, <3>2, KeyInvHalves, Zenon
    <2>6. CASE RetryTimed(k, delay)
      <3>1. Carried(k)'
        BY <1>1, <2>1, <2>2, <2>6, ZenonT(60)
        DEF RetryTimed, Carried, OwedWhileRunning
      <3>2. Timely(k)'
        BY <1>1, <2>1, <2>2, <2>6, SMTT(60)
        DEF RetryTimed, TypedKey, Carried, OwedWhileRunning, Timely, FiredIsOverdue,
            RetryWithinHold, HoldIsBackoff, DebounceKept
      <3> QED
        BY <3>1, <3>2, KeyInvHalves, Zenon
    <2> QED
      BY <2>3, <2>4, <2>5, <2>6, ZenonT(60)
  <1> QED
    BY <1>2, <1>3, <1>4, Zenon DEF IndInv

\* A waiter left behind does nothing: its generation is not the current one.
LEMMA ExpireStaleInv ==
    ASSUME IndInv, NEW k \in Key, NEW kind \in Kinds, ExpireStale(k, kind)
    PROVE  IndInv'
  <1>1. TypeOK'
    BY Zenon DEF IndInv, TypeOK, ExpireStale
  <1>2. ASSUME NEW j \in Key PROVE KeyInv(j)'
    <2>1. SameKey(j)
      BY Zenon DEF SameKey, ExpireStale
    <2> QED
      BY <2>1, SameKeyKeepsInv, ZenonT(60) DEF IndInv
  <1> QED
    BY <1>1, <1>2, ZenonT(60) DEF IndInv

\* The first half of ShutDown preserves the invariant.
LEMMA ShutDownInv ==
    ASSUME IndInv, ShutDown
    PROVE  IndInv'
  <1>1. stale' \in SUBSET (Key \X Kinds)
    BY LeftBehindType, SMTT(60) DEF IndInv, TypeOK, ShutDown
  <1>2. TypeOK'
    BY <1>1, TimerValues, DelayTypes, ZenonT(60) DEF IndInv, TypeOK, ShutDown
  <1>3. ASSUME NEW j \in Key PROVE KeyInv(j)'
    <2>1. /\ ~pending'[j].on /\ ~retrying'[j].on
          /\ ~pending'[j].fired /\ ~retrying'[j].fired
          /\ eventWait'[j] = -1 /\ j \notin owed'
          /\ UNCHANGED <<deleted, held, periodic, dirty, stage, notBefore>>
      BY TimerValues, ZenonT(60) DEF ShutDown
    <2> QED
      BY <2>1
      DEF IndInv, KeyInv, OwedWhileRunning, FiredIsOverdue, RetryWithinHold,
          HoldIsBackoff, DebounceKept
  <1> QED
    BY <1>2, <1>3, ZenonT(60) DEF IndInv

\* The second half of ShutDown preserves the invariant.
LEMMA QueueShutDownInv ==
    ASSUME IndInv, QueueShutDown
    PROVE  IndInv'
  <1>1. TypeOK'
    BY ZenonT(60) DEF IndInv, TypeOK, QueueShutDown
  <1>2. ASSUME NEW j \in Key PROVE KeyInv(j)'
    BY ZenonT(60) DEF IndInv, KeyInv, OwedWhileRunning, FiredIsOverdue, RetryWithinHold,
           HoldIsBackoff, DebounceKept, QueueShutDown
  <1> QED
    BY <1>1, <1>2, Zenon DEF IndInv

\* The passing of time preserves the invariant: every deadline comes nearer by
\* the same amount.
LEMMA TickInv ==
    ASSUME IndInv, Tick
    PROVE  IndInv'
  <1>1. TypeOK
    BY Zenon DEF IndInv
  <1>2. TypeOK'
    BY <1>1, TimerUpdates, DelayTypes, ZenonT(60) DEF TypeOK, Tick
  <1>3. ASSUME NEW j \in Key PROVE KeyInv(j)'
    <2>1. /\ pending'[j].on = pending[j].on /\ retrying'[j].on = retrying[j].on
          /\ pending'[j].fired = pending[j].fired
          /\ retrying'[j].fired = retrying[j].fired
          /\ pending'[j].left = Elapse(pending[j].left)
          /\ retrying'[j].left = Elapse(retrying[j].left)
      BY <1>1, TimerUpdates, ZenonT(60) DEF TypeOK, Tick
    <2>2. /\ held'[j] = Elapse(held[j])
          /\ notBefore'[j] = Elapse(notBefore[j])
          /\ eventWait'[j] = Elapse(eventWait[j])
          /\ UNCHANGED <<deleted, periodic, dirty, stage, phase, owed>>
      BY Zenon DEF Tick
    <2>3. KeyInv(j) /\ TypedKey(j)
      BY <1>1, KeyTypes, ZenonT(60) DEF IndInv
    <2>4. FiredIsOverdue(j)' /\ RetryWithinHold(j)' /\ HoldIsBackoff(j)'
      <3>1. FiredIsOverdue(j)'
        BY <2>1, <2>3, SMTT(60) DEF TypedKey, KeyInv, FiredIsOverdue, Elapse
      <3>2. RetryWithinHold(j)'
        BY <2>1, <2>2, <2>3, SMTT(60) DEF TypedKey, KeyInv, RetryWithinHold, Elapse
      <3>3. HoldIsBackoff(j)'
        BY <2>2, <2>3, SMTT(60) DEF TypedKey, KeyInv, HoldIsBackoff, Elapse
      <3> QED
        BY <3>1, <3>2, <3>3, Zenon
    <2>5. OwedWhileRunning(j)' /\ DebounceKept(j)'
      BY <2>1, <2>2, <2>3, SMTT(60) DEF TypedKey, KeyInv, OwedWhileRunning, DebounceKept, Elapse
    <2>6. held[j] = -1 => held'[j] = -1
      BY <2>2 DEF Elapse
    <2> QED
      BY <2>1, <2>2, <2>3, <2>4, <2>5, <2>6, ZenonT(60) DEF KeyInv
  <1> QED
    BY <1>2, <1>3, Zenon DEF IndInv

\* Every step, and every stuttering step, preserves the invariant.
LEMMA NextInv == IndInv /\ [Next]_vars => IndInv'
  <1> SUFFICES ASSUME IndInv, [Next]_vars PROVE IndInv'
    OBVIOUS
  <1>1. ASSUME NEW k \in Key, Internal(k) PROVE IndInv'
    BY <1>1, PopInv, GetDeletedInv, GetHeldInv, DeliverInv, CompleteDeletedInv,
       CompleteSucceededInv, CompleteExhaustedInv, CompleteRetriedInv,
       FireDebounceInv, FireRetryInv, ExpireDebounceInv, ExpireRetryInv,
       ExpireStaleInv, ZenonT(60)
    DEF Internal
  <1>2. ASSUME NEW k \in Key, Call(k) PROVE IndInv'
    BY <1>2, EnqueueInv, EnqueuePeriodicInv, ActivateTargetInv, ForgetTargetInv, ZenonT(60)
    DEF Call
  <1>3. ASSUME UNCHANGED vars PROVE IndInv'
    <2>1. TypeOK'
      BY <1>3, ZenonT(60) DEF IndInv, TypeOK, vars
    <2>2. ASSUME NEW j \in Key PROVE KeyInv(j)'
      <3>1. SameKey(j)
        BY <1>3, Zenon DEF SameKey, vars
      <3> QED
        BY <3>1, SameKeyKeepsInv, Zenon DEF IndInv
    <2> QED
      BY <2>1, <2>2, ZenonT(60) DEF IndInv
  <1> QED
    BY <1>1, <1>2, <1>3, ShutDownInv, QueueShutDownInv, TickInv, ZenonT(60) DEF Next

-----------------------------------------------------------------------------
\* The inductive invariant holds in every reachable state of the queue.
THEOREM Invariance == Spec => []IndInv
  <1>1. Init => IndInv
    BY InitInv, Zenon
  <1>2. IndInv /\ [Next]_vars => IndInv'
    BY NextInv, Zenon
  <1> QED
    BY <1>1, <1>2, PTL DEF Spec

\* The bookkeeping of the queue stays well typed; in particular the failure
\* count never passes MaxRetries and no deadline lies beyond the horizon.
THEOREM TypeCorrect == Spec => []TypeOK
  <1>1. IndInv => TypeOK
    BY Zenon DEF IndInv
  <1> QED
    BY <1>1, Invariance, PTL

\* No key ever has two delayed deliveries at once.
THEOREM AtMostOneTimer == Spec => []OneDelayedDelivery
  <1>1. IndInv => OneDelayedDelivery
    BY ZenonT(60) DEF IndInv, KeyInv, OneDelayedDelivery
  <1> QED
    BY <1>1, Invariance, PTL

\* An accepted request is always on its way to a worker.
THEOREM NoRequestLost == Spec => []NothingLost
  <1>1. IndInv => NothingLost
    BY ZenonT(60) DEF IndInv, TypeOK, KeyInv, NothingLost
  <1> QED
    BY <1>1, Invariance, PTL

\* A tombstone leaves nothing behind that outlives the deleted target.
THEOREM TombstonesAreBare == Spec => []TombstoneIsBare
  <1>1. IndInv => TombstoneIsBare
    BY ZenonT(60) DEF IndInv, TypeOK, KeyInv, TombstoneIsBare
  <1> QED
    BY <1>1, Invariance, PTL

\* A periodic audit is never behind a timer.
THEOREM PeriodicNeverWaits == Spec => []PeriodicIsImmediate
  <1>1. IndInv => PeriodicIsImmediate
    BY ZenonT(60) DEF IndInv, TypeOK, KeyInv, PeriodicIsImmediate
  <1> QED
    BY <1>1, Invariance, PTL

\* Only Deliver hands a key to a worker, and it does so for a key that has a
\* periodic request or no hold.
LEMMA OnlyDeliver ==
    ASSUME TypeOK, [Next]_vars, NEW j \in Key, Delivers(j)
    PROVE  Deliver(j)
  <1>1. ASSUME NEW k \in Key, Deliver(k) PROVE Deliver(j)
    BY <1>1, Zenon DEF Delivers, Deliver, TypeOK
  <1>2. ASSUME NEW k \in Key, Internal(k) PROVE Deliver(j)
    <2>1. CASE Deliver(k)
      BY <1>1, <2>1, ZenonT(60)
    <2>2. CASE ~Deliver(k)
      BY <1>2, <2>2, ZenonT(60)
      DEF Internal, Delivers, TypeOK, Done, Pop, GetDeleted, GetHeld,
          CompleteDeleted, CompleteSucceeded, CompleteExhausted,
          CompleteRetried, FireDebounce, FireRetry, ExpireDebounce,
          ExpireRetry, ExpireStale
    <2> QED
      BY <2>1, <2>2, Zenon
  <1>3. ASSUME NEW k \in Key, Call(k) PROVE FALSE
    BY <1>3, Zenon DEF Call, Delivers, Enqueue, EnqueuePeriodic, ActivateTarget,
                ForgetTarget
  <1>4. ~(ShutDown \/ QueueShutDown \/ Tick \/ UNCHANGED vars)
    BY Zenon DEF Delivers, ShutDown, QueueShutDown, Tick, vars
  <1> QED
    BY <1>2, <1>3, <1>4, ZenonT(60) DEF Next

\* A failing key is never delivered inside its backoff except for a periodic
\* audit, however many events arrive.
THEOREM BackoffHolds == Spec => BackoffRespected
  <1>1. IndInv /\ [Next]_vars => [BackoffStep]_vars
    <2> SUFFICES ASSUME IndInv, [Next]_vars, NEW j \in Key, Delivers(j)
                 PROVE  j \in periodic \/ notBefore[j] <= 0
      BY Zenon DEF BackoffStep
    <2>1. TypeOK /\ KeyInv(j) /\ TypedKey(j)
      BY KeyTypes, Zenon DEF IndInv
    <2>2. Deliver(j)
      BY <2>1, OnlyDeliver, ZenonT(60)
    <2>3. /\ j \in periodic \/ held[j] <= 0
          /\ notBefore[j] > 0 => held[j] = notBefore[j]
          /\ notBefore[j] \in Int
      BY <2>1, <2>2, ZenonT(60) DEF TypedKey, Deliver, KeyInv, HoldIsBackoff
    <2> QED
      BY ONLY <2>3, SMT
  <1> QED
    BY <1>1, Invariance, PTL DEF Spec, BackoffRespected

\* An event is never delivered before its debounce except by a periodic audit,
\* whatever timers were cancelled, replaced or fired in between.
THEOREM DebounceHolds == Spec => DebounceRespected
  <1>1. IndInv /\ [Next]_vars => [DebounceStep]_vars
    <2> SUFFICES ASSUME IndInv, [Next]_vars, NEW j \in Key, Delivers(j)
                 PROVE  j \in periodic \/ eventWait[j] <= 0
      BY Zenon DEF DebounceStep
    <2>1. TypeOK /\ KeyInv(j) /\ TypedKey(j)
      BY KeyTypes, Zenon DEF IndInv
    <2>2. /\ eventWait[j] > 0 => j \in periodic
          /\ eventWait[j] \in Int
      BY <2>1, ZenonT(60) DEF TypedKey, KeyInv, DebounceKept, Delivers
    <2> QED
      BY ONLY <2>2, SMT
  <1> QED
    BY <1>1, Invariance, PTL DEF Spec, DebounceRespected

-----------------------------------------------------------------------------
(* The queue keeps the promises of AuditRequests. *)

\* A processing key occupies a worker: no more keys are popped or delivered
\* than there are workers.
WorkersSuffice == IsFiniteSet(InFlight) /\ Cardinality(InFlight) <= Workers

\* What a step can do to the processing set.
InFlightKept == InFlight' = InFlight
InFlightGrown(k) == InFlight' = InFlight \cup {k} /\ Cardinality(InFlight) < Workers
InFlightShrunk(k) == InFlight' = InFlight \ {k}

\* Only Pop adds to the processing set, and only while a worker is free.
LEMMA InFlightStep ==
    ASSUME TypeOK, [Next]_vars
    PROVE  \/ InFlightKept
           \/ \E k \in Key : InFlightGrown(k) \/ InFlightShrunk(k)
  <1>1. ASSUME NEW k \in Key, Pop(k) PROVE InFlightGrown(k)
    BY <1>1, Zenon DEF Pop, TypeOK, InFlight, InFlightGrown
  <1>2. ASSUME NEW k \in Key, Done(k) PROVE InFlightShrunk(k)
    BY <1>2, Zenon DEF Done, TypeOK, InFlight, InFlightShrunk
  <1>3. ASSUME NEW k \in Key, Deliver(k) PROVE InFlightKept
    BY <1>3, Zenon DEF Deliver, TypeOK, InFlight, InFlightKept
  <1>4. ASSUME stage' = stage PROVE InFlightKept
    BY <1>4, Zenon DEF InFlight, InFlightKept
  <1>5. ASSUME NEW k \in Key, Internal(k)
        PROVE  Pop(k) \/ Done(k) \/ Deliver(k) \/ stage' = stage
    BY <1>5, ZenonT(60) DEF Internal, GetDeleted, GetHeld, CompleteDeleted, CompleteSucceeded,
                CompleteExhausted, CompleteRetried, FireDebounce, FireRetry,
                ExpireDebounce, ExpireRetry, ExpireStale
  <1>6. ASSUME NEW k \in Key, Call(k) PROVE stage' = stage
    BY <1>6, Zenon DEF Call, Enqueue, EnqueuePeriodic, ActivateTarget, ForgetTarget
  <1>7. ShutDown \/ QueueShutDown \/ Tick \/ UNCHANGED vars => stage' = stage
    BY Zenon DEF ShutDown, QueueShutDown, Tick, vars
  <1> QED
    BY <1>1, <1>2, <1>3, <1>4, <1>5, <1>6, <1>7, ZenonT(60) DEF Next

\* The workers are never outnumbered.
THEOREM WorkersBound == Spec => []WorkersSuffice
  <1>1. Init => WorkersSuffice
    <2> SUFFICES ASSUME Init PROVE WorkersSuffice
      OBVIOUS
    <2>1. InFlight = {}
      BY Zenon DEF Init, InFlight
    <2> QED
      BY <2>1, FS_EmptySet, QueueAssumption DEF WorkersSuffice
  <1>2. WorkersSuffice /\ TypeOK /\ [Next]_vars => WorkersSuffice'
    <2> SUFFICES ASSUME WorkersSuffice, TypeOK, [Next]_vars PROVE WorkersSuffice'
      OBVIOUS
    <2>1. Cardinality(InFlight) \in Nat /\ Workers \in Nat
      BY FS_CardinalityType, QueueAssumption, Zenon DEF WorkersSuffice
    <2>2. CASE InFlightKept
      BY <2>2, Zenon DEF InFlightKept, WorkersSuffice
    <2>3. ASSUME NEW k \in Key, InFlightGrown(k) PROVE WorkersSuffice'
      <3>1. /\ IsFiniteSet(InFlight \cup {k})
            /\ Cardinality(InFlight \cup {k}) <= Cardinality(InFlight) + 1
        BY <2>1, FS_AddElement DEF WorkersSuffice
      <3>2. Cardinality(InFlight \cup {k}) \in Nat
        BY <3>1, FS_CardinalityType, Zenon
      <3> QED
        BY <2>1, <2>3, <3>1, <3>2 DEF InFlightGrown, WorkersSuffice
    <2>4. ASSUME NEW k \in Key, InFlightShrunk(k) PROVE WorkersSuffice'
      <3>1. /\ IsFiniteSet(InFlight \ {k})
            /\ Cardinality(InFlight \ {k}) <= Cardinality(InFlight)
        BY FS_Subset, Zenon DEF WorkersSuffice
      <3>2. Cardinality(InFlight \ {k}) \in Nat
        BY <3>1, FS_CardinalityType, ZenonT(60)
      <3> QED
        BY <2>1, <2>4, <3>1, <3>2 DEF InFlightShrunk, WorkersSuffice
    <2> QED
      BY <2>2, <2>3, <2>4, InFlightStep, ZenonT(60)
  <1> QED
    BY <1>1, <1>2, TypeCorrect, PTL DEF Spec

\* The steps of one key, one by one, against the promises of AuditRequests.
LEMMA InternalImplements ==
    ASSUME IndInv, WorkersSuffice, NEW k \in Key, Internal(k)
    PROVE  Requests!Begin(k) \/ Requests!End(k) \/ UNCHANGED Requests!vars
  <1>0. stage \in [Key -> {"idle", "popped", "delivered"}]
    BY Zenon DEF IndInv, TypeOK
  <1>1. CASE Deliver(k)
    <2>1. Busy \subseteq InFlight \ {k} /\ k \in InFlight
      BY <1>0, <1>1, ZenonT(60) DEF Deliver, Busy, InFlight
    <2>2. /\ IsFiniteSet(InFlight \ {k})
          /\ Cardinality(InFlight \ {k}) = Cardinality(InFlight) - 1
      BY <2>1, FS_RemoveElement, ZenonT(60) DEF WorkersSuffice
    <2>3. /\ Cardinality(Busy) <= Cardinality(InFlight \ {k})
          /\ Cardinality(Busy) \in Nat
      BY <2>1, <2>2, FS_Subset, FS_CardinalityType
    <2>4. Cardinality(Busy) < Workers
      <3>1. Cardinality(InFlight) \in Nat /\ Workers \in Nat
        BY FS_CardinalityType, QueueAssumption, SMTT(60) DEF WorkersSuffice
      <3> QED
        BY <2>2, <2>3, <3>1, SMTT(60) DEF WorkersSuffice
    <2>5. Busy' = Busy \cup {k} /\ k \notin Busy
      BY <1>0, <1>1, ZenonT(60) DEF Deliver, Busy
    <2>6. Requests!Cardinality(Busy) = Cardinality(Busy)
      BY ZenonT(60) DEF Requests!Cardinality, Cardinality
    <2> QED
      BY <1>1, <2>4, <2>5, <2>6, SMTT(60) DEF Deliver, Requests!Begin
  <1>2. CASE CompleteDeleted(k) \/ CompleteSucceeded(k) \/ CompleteExhausted(k)
    <2>1. Busy' = Busy \ {k} /\ k \in Busy
      BY <1>0, <1>2 DEF CompleteDeleted, CompleteSucceeded, CompleteExhausted, Done, Busy
    <2> QED
      BY <1>2, <2>1, SMTT(60)
      DEF CompleteDeleted, CompleteSucceeded, CompleteExhausted, Requests!End
  <1>3. CASE \E delay \in RetryDelays : CompleteRetried(k, delay)
    <2>1. Busy' = Busy \ {k} /\ k \in Busy
      BY <1>0, <1>3 DEF CompleteRetried, Done, Busy
    <2> QED
      BY <1>3, <2>1, SMTT(60) DEF CompleteRetried, Owe, Requests!End
  <1>4. CASE Pop(k) \/ GetDeleted(k) \/ GetHeld(k)
    <2>1. Busy' = Busy
      BY <1>0, <1>4 DEF Pop, GetDeleted, GetHeld, Done, Busy
    <2> QED
      BY <1>4, <2>1 DEF Pop, GetDeleted, GetHeld, Requests!vars
  <1>5. CASE \/ FireDebounce(k) \/ FireRetry(k) \/ ExpireDebounce(k) \/ ExpireRetry(k)
             \/ \E kind \in Kinds : ExpireStale(k, kind)
    BY <1>5, ZenonT(60) DEF FireDebounce, FireRetry, ExpireDebounce, ExpireRetry, ExpireStale,
                Busy, Requests!vars
  <1> QED
    BY <1>1, <1>2, <1>3, <1>4, <1>5, SMTT(60) DEF Internal

\* The calls of the runtime - requests, deletion, activation, shutdown - are the
\* steps of the same names in AuditRequests.
LEMMA CallImplements ==
    ASSUME TypeOK, NEW k \in Key, Call(k)
    PROVE  \/ Requests!Ask(k) \/ Requests!Bar(k) \/ Requests!Admit(k)
           \/ UNCHANGED Requests!vars
  <1>1. Busy' = Busy
    BY Zenon DEF Call, Enqueue, EnqueuePeriodic, ActivateTarget, ForgetTarget, Busy
  <1>2. CASE (\E d \in Debounces : Enqueue(k, d)) \/ EnqueuePeriodic(k)
    BY <1>1, <1>2, Zenon DEF Enqueue, EnqueuePeriodic, Owe, Requests!Ask, Requests!vars
  <1>3. CASE ActivateTarget(k)
    BY <1>1, <1>3, Zenon DEF ActivateTarget, Requests!Admit
  <1>4. CASE ForgetTarget(k)
    BY <1>1, <1>4, Zenon DEF ForgetTarget, Requests!Bar
  <1> QED
    BY <1>2, <1>3, <1>4, ZenonT(60) DEF Call

\* The queue does what AuditRequests allows and nothing else: single-flight
\* audits, none for a deleted target, none beyond the workers, and no request
\* dropped except by a deletion or the shutdown.
THEOREM Refinement == Spec => Requests!Safe
  <1>1. Init => Requests!Init
    BY Zenon DEF Init, Busy, Requests!Init
  <1>2. IndInv /\ WorkersSuffice /\ [Next]_vars => [Requests!Next]_(Requests!vars)
    <2> SUFFICES ASSUME IndInv, WorkersSuffice, [Next]_vars
                 PROVE  [Requests!Next]_(Requests!vars)
      OBVIOUS
    <2>1. ASSUME NEW k \in Key, Internal(k) PROVE [Requests!Next]_(Requests!vars)
      BY <2>1, InternalImplements, Zenon DEF Requests!Next
    <2>2. ASSUME NEW k \in Key, Call(k) PROVE [Requests!Next]_(Requests!vars)
      BY <2>2, CallImplements, Zenon DEF IndInv, Requests!Next
    <2>3. CASE ShutDown
      BY <2>3, Zenon DEF ShutDown, Busy, Requests!Next, Requests!Shut
    <2>4. CASE QueueShutDown \/ Tick \/ UNCHANGED vars
      BY <2>4, ZenonT(60) DEF QueueShutDown, Tick, vars, Busy, Requests!vars
    <2> QED
      BY <2>1, <2>2, <2>3, <2>4 DEF Next
  <1> QED
    BY <1>1, <1>2, Invariance, WorkersBound, PTL DEF Spec, Requests!Safe

-----------------------------------------------------------------------------
(* The runtime. *)

\* A worker has found out something about a target only while the queue has
\* delivered the target's key to it.
WorkIsDelivered == \A k \in Key : work[k] # "none" => stage[k] = "delivered"

\* What the runtime does with one key is a step the queue allows for that key,
\* or does not concern the queue.
LEMMA RuntimeStepOfKey ==
    ASSUME NEW k \in Key,
           \/ TargetAdded(k) \/ TargetUpdated(k) \/ TargetRemoved(k)
           \/ HandlerStep(k) \/ HandleSource(k) \/ HandleOwned(k)
           \/ ListDue(k) \/ EnqueueDue(k)
           \/ QueueStep(k) \/ WorkerStep(k)
    PROVE  Internal(k) \/ Call(k) \/ UNCHANGED vars
  <1>1. CASE TargetAdded(k) \/ TargetUpdated(k) \/ TargetRemoved(k) \/ ListDue(k)
    BY <1>1, Zenon DEF TargetAdded, TargetUpdated, TargetRemoved, Observe, ListDue
  <1>2. CASE HandlerStep(k) \/ HandleSource(k) \/ HandleOwned(k) \/ EnqueueDue(k)
    BY <1>2, Zenon
    DEF HandlerStep, HandleAdd, HandleAddEnqueue, HandleNoise, HandleUpdate, HandleDelete,
        HandleSource, HandleOwned, EnqueueDue, EnqueueEvent, Call
  <1>3. CASE QueueStep(k)
    BY <1>3, Zenon DEF QueueStep, Internal
  <1>4. CASE WorkerStep(k)
    BY <1>4, Zenon
    DEF WorkerStep, LookUp, WorkerForget, CompleteForgotten, Audit, AuditRefused,
        CompleteFailed, CompleteApplied, AttemptFailed, Internal, Call
  <1> QED
    BY <1>1, <1>2, <1>3, <1>4

\* The informer, the handlers, the scheduler and the workers together use the
\* queue as its own specification foresees: every behaviour of the runtime is
\* a behaviour of the queue.
THEOREM RuntimeRunsQueue == RuntimeSpec => Spec
  <1>1. RuntimeInit => Init
    BY Zenon DEF RuntimeInit
  <1>2. [RuntimeNext]_allVars => [Next]_vars
    <2>1. ASSUME RuntimeNext PROVE [Next]_vars
      <3>1. CASE Tick /\ UNCHANGED runtimeVars
        BY <3>1, Zenon DEF Next
      <3>2. ASSUME NEW k \in Key, Internal(k) \/ Call(k) \/ UNCHANGED vars
            PROVE  [Next]_vars
        BY <3>2, Zenon DEF Next
      <3> QED
        BY <2>1, <3>1, <3>2, RuntimeStepOfKey, ZenonT(60) DEF RuntimeNext
    <2>2. UNCHANGED allVars => UNCHANGED vars
      BY Zenon DEF allVars
    <2> QED
      BY <2>1, <2>2, Zenon
  <1> QED
    BY <1>1, <1>2, PTL DEF RuntimeSpec, Spec

\* Whatever the informer observes and the handlers do, no accepted request is
\* lost, a tombstone is bare and no key has two timers: the invariants of the
\* queue hold in the running system.
THEOREM RuntimeKeepsQueue ==
    RuntimeSpec => [](OneDelayedDelivery /\ NothingLost /\ TombstoneIsBare
                        /\ PeriodicIsImmediate)
  BY RuntimeRunsQueue, AtMostOneTimer, NoRequestLost, TombstonesAreBare,
     PeriodicNeverWaits, PTL

\* The runtime as a whole audits a target only between the delivery and the
\* completion of its key, never two workers the same target, no more targets
\* than there are workers, and none after its tombstone.
THEOREM RuntimeImplementsRequests == RuntimeSpec => Requests!Safe
  BY RuntimeRunsQueue, Refinement, PTL

\* Every step of the queue on behalf of key k leaves the other keys' stages
\* alone, and takes k to or from the hands of a worker only by Deliver and by
\* the completions.
LEMMA StageOfOthers ==
    ASSUME TypeOK, NEW k \in Key, Internal(k) \/ Call(k) \/ UNCHANGED vars,
           NEW j \in Key, stage[j] = "delivered", stage'[j] # "delivered"
    PROVE  /\ j = k
           /\ \/ CompleteDeleted(k) \/ CompleteSucceeded(k) \/ CompleteExhausted(k)
              \/ \E delay \in RetryDelays : CompleteRetried(k, delay)
  <1>1. CASE Call(k) \/ UNCHANGED vars
    BY <1>1, ZenonT(60) DEF Call, Enqueue, EnqueuePeriodic, ActivateTarget, ForgetTarget, vars
  <1>2. CASE Pop(k)
    BY <1>2, Zenon DEF Pop, TypeOK
  <1>3. CASE GetDeleted(k) \/ GetHeld(k)
    BY <1>3, Zenon DEF GetDeleted, GetHeld, Done, TypeOK
  <1>4. CASE Deliver(k)
    BY <1>4, Zenon DEF Deliver, TypeOK
  <1>5. CASE FireDebounce(k) \/ FireRetry(k) \/ ExpireDebounce(k) \/ ExpireRetry(k)
             \/ \E kind \in Kinds : ExpireStale(k, kind)
    BY <1>5, Zenon DEF FireDebounce, FireRetry, ExpireDebounce, ExpireRetry, ExpireStale
  <1>6. CASE \/ CompleteDeleted(k) \/ CompleteSucceeded(k) \/ CompleteExhausted(k)
             \/ \E delay \in RetryDelays : CompleteRetried(k, delay)
    <2>1. Done(k)
      BY <1>6, Zenon
      DEF CompleteDeleted, CompleteSucceeded, CompleteExhausted, CompleteRetried
    <2> QED
      BY <1>6, <2>1, ZenonT(60) DEF Done, TypeOK
  <1> QED
    BY <1>1, <1>2, <1>3, <1>4, <1>5, <1>6, ZenonT(60) DEF Internal

\* A worker's findings are about a target the queue has delivered to it.
THEOREM WorkersHoldTheirKeys == RuntimeSpec => []WorkIsDelivered
  <1> DEFINE Typed == work \in [Key -> {"none", "absent", "forgotten", "present", "audited"}]
  <1>1. RuntimeInit => Typed /\ WorkIsDelivered
    BY Zenon DEF RuntimeInit, WorkIsDelivered
  <1>2. TypeOK /\ Typed /\ WorkIsDelivered /\ [RuntimeNext]_allVars
          => Typed' /\ WorkIsDelivered'
    <2> SUFFICES ASSUME TypeOK, Typed, WorkIsDelivered, [RuntimeNext]_allVars
                 PROVE  Typed' /\ WorkIsDelivered'
      OBVIOUS
    <2>1. CASE UNCHANGED allVars \/ (Tick /\ UNCHANGED runtimeVars)
      BY <2>1, Zenon DEF allVars, vars, runtimeVars, Tick, WorkIsDelivered
    <2>2. ASSUME NEW k \in Key, work' = work, stage[k] # "delivered" \/ Call(k) \/ UNCHANGED vars,
                 Internal(k) \/ Call(k) \/ UNCHANGED vars
          PROVE  Typed' /\ WorkIsDelivered'
      <3>1. Call(k) \/ UNCHANGED vars => stage' = stage
        BY Zenon DEF Call, Enqueue, EnqueuePeriodic, ActivateTarget, ForgetTarget, vars
      <3>2. ASSUME NEW j \in Key, stage[j] = "delivered" PROVE stage'[j] = "delivered"
        BY <2>2, <3>1, <3>2, StageOfOthers, ZenonT(60)
      <3> QED
        BY <2>2, <3>2, ZenonT(60) DEF WorkIsDelivered
    <2>3. ASSUME NEW k \in Key,
                 \/ TargetAdded(k) \/ TargetUpdated(k) \/ TargetRemoved(k)
                 \/ HandlerStep(k) \/ HandleSource(k) \/ HandleOwned(k)
                 \/ ListDue(k) \/ EnqueueDue(k)
          PROVE  work' = work /\ (Call(k) \/ UNCHANGED vars)
      BY <2>3, ZenonT(60)
      DEF TargetAdded, TargetUpdated, TargetRemoved, Observe, ListDue, HandlerStep, HandleAdd,
          HandleAddEnqueue, HandleNoise, HandleUpdate, HandleDelete, HandleSource, HandleOwned,
          EnqueueDue, EnqueueEvent, Call, runtimeVars
    <2>4. ASSUME NEW k \in Key, QueueStep(k)
          PROVE  work' = work /\ Internal(k) /\ (stage[k] # "delivered" \/ stage' = stage)
      BY <2>4, ZenonT(60)
      DEF QueueStep, runtimeVars, Internal, Pop, GetDeleted, GetHeld, Deliver, FireDebounce,
          FireRetry, ExpireDebounce, ExpireRetry, ExpireStale
    <2>5. ASSUME NEW k \in Key, WorkerStep(k) PROVE Typed' /\ WorkIsDelivered'
      <3>1. CASE LookUp(k) \/ WorkerForget(k) \/ Audit(k)
        <4>1. stage' = stage /\ stage[k] = "delivered"
          BY <3>1, Zenon
          DEF LookUp, WorkerForget, ForgetTarget, Audit, vars, WorkIsDelivered
        <4>2. \E x \in {"absent", "forgotten", "present", "audited"} :
                 work' = [work EXCEPT ![k] = x]
          BY <3>1, Zenon DEF LookUp, WorkerForget, Audit
        <4> QED
          BY <4>1, <4>2, Zenon DEF WorkIsDelivered
      <3>2. CASE CompleteForgotten(k) \/ AuditRefused(k) \/ CompleteFailed(k)
                 \/ CompleteApplied(k)
        <4>1. work' = [work EXCEPT ![k] = "none"] /\ Done(k)
          BY <3>2, Zenon
          DEF CompleteForgotten, AuditRefused, CompleteFailed, CompleteApplied, AttemptFailed,
              CompleteDeleted, CompleteSucceeded, CompleteExhausted, CompleteRetried
        <4> QED
          BY <4>1, Zenon DEF WorkIsDelivered, Done, TypeOK
      <3> QED
        BY <2>5, <3>1, <3>2, Zenon DEF WorkerStep
    <2>6. ASSUME NEW k \in Key, QueueStep(k) PROVE Typed' /\ WorkIsDelivered'
      <3>1. CASE stage[k] # "delivered"
        BY <2>2, <2>4, <2>6, <3>1, ZenonT(60)
      <3>2. CASE stage' = stage
        BY <2>4, <2>6, <3>2, ZenonT(60) DEF WorkIsDelivered
      <3> QED
        BY <2>4, <2>6, <3>1, <3>2, ZenonT(60)
    <2> QED
      BY <2>1, <2>2, <2>3, <2>5, <2>6, ZenonT(60) DEF RuntimeNext
  <1> QED
    BY <1>1, <1>2, RuntimeRunsQueue, TypeCorrect, PTL DEF RuntimeSpec

\* The targets being looked up, audited or forgotten are at most Workers many.
AuditsWithinWorkers ==
    LET working == {k \in Key : work[k] # "none"}
    IN  IsFiniteSet(working) /\ Cardinality(working) <= Workers

\* No more targets are audited at once than runWorker was started for, however
\* events, retries and periodic audits pile up.
THEOREM RuntimeWorkersBound == RuntimeSpec => []AuditsWithinWorkers
  <1>1. WorkIsDelivered /\ WorkersSuffice => AuditsWithinWorkers
    <2> DEFINE working == {k \in Key : work[k] # "none"}
    <2> SUFFICES ASSUME WorkIsDelivered, WorkersSuffice
                 PROVE  IsFiniteSet(working) /\ Cardinality(working) <= Workers
      BY Zenon DEF AuditsWithinWorkers
    <2>1. working \subseteq InFlight
      BY Zenon DEF WorkIsDelivered, InFlight
    <2> HIDE DEF working
    <2>2. IsFiniteSet(working) /\ Cardinality(working) <= Cardinality(InFlight)
      BY <2>1, FS_Subset, Zenon DEF WorkersSuffice
    <2>3. Cardinality(working) \in Nat /\ Cardinality(InFlight) \in Nat /\ Workers \in Nat
      BY <2>2, FS_CardinalityType, QueueAssumption, Zenon DEF WorkersSuffice
    <2> QED
      BY <2>2, <2>3 DEF WorkersSuffice
  <1> QED
    BY <1>1, WorkersHoldTheirKeys, RuntimeRunsQueue, WorkersBound, PTL

=============================================================================
