------------------------------ MODULE Replicas ------------------------------
(***************************************************************************)
(* The replicas of the controller in polling target mode: leader election  *)
(* and its shutdown (cmd/fortigate-external-dns/main.go), the loop of      *)
(* runTargetMode with its audit schedule (internal/workqueue/schedule.go)  *)
(* and the heartbeat behind the liveness probe                             *)
(* (internal/controller/heartbeat.go).                                     *)
(*                                                                         *)
(* A replica has two goroutines that matter.  "main" runs the client-go    *)
(* elector inside runWithLeaderElection and then waits for the work;       *)
(* "work" is the OnStartedLeading callback, which client-go starts without *)
(* waiting for it.  The AfterFunc callbacks of the signal context are      *)
(* steps of their own.  Contexts are a tree: cancelling the elector also   *)
(* cancels the leader context and the work context derived from it.        *)
(*                                                                         *)
(* The elector, the Lease, the kubelet and the clock are external.  Time   *)
(* is relative: deadlines are the time left until them, and every count    *)
(* stops at the value from which on nothing distinguishes it.              *)
(***************************************************************************)
EXTENDS Integers, FiniteSets

CONSTANTS
  Replica,        \* pods of the Deployment
  Target,         \* target keys
  Interval,       \* Interval[t]: audit interval of target t, 0 to inherit Resync
  Resync,         \* cfg.Resync
  Window,         \* ResolvedHealthzMaxStaleness
  MaxCycle,       \* longest time a cycle takes when it is not stuck
  LeaseDuration,  \* a Lease not renewed for this long is up for grabs
  RenewDeadline,  \* the elector gives up this long after its last renewal
  None,           \* the holder of a released Lease
  MaxFaults       \* bound on rollouts, crashes, lost leases, stuck loops, edits

ASSUME ReplicasAssumption ==
  /\ Interval \in [Target -> Nat]
  /\ Resync \in Nat \ {0}
  /\ MaxCycle \in Nat
  /\ Window \in Nat /\ Resync + MaxCycle <= Window
  /\ RenewDeadline \in Nat \ {0}
  /\ LeaseDuration \in Nat /\ RenewDeadline < LeaseDuration
  /\ None \notin Replica
  /\ MaxFaults \in Nat

VARIABLES
  lease,   \* the Lease object: its holder and the time since its renewal
  main,    \* main[p]: how far runWithLeaderElection has come
  work,    \* work[p]: how far the OnStartedLeading callback has come
  gone,    \* gone[p]: the cancelled ones of the replica's contexts
  due,     \* due[p]: the targets selected by the current or last cycle
  next,    \* next[p]: time left to each target's deadline in the AuditSchedule
  clock,   \* clock[p]: time spent in the audits, or left to sleep
  beat,    \* beat[p]: time since the heartbeat's reference, or Inactive
  stuck,   \* the replicas whose loop hangs in an audit
  code,    \* code[p]: exit code of the last orderly exit
  faults   \* faults so far

vars == <<lease, main, work, gone, due, next, clock, beat, stuck, code, faults>>

Contexts == {"stop", "elect", "leader", "work"}
Looping == {"poll", "audit", "sleep"}
Inactive == -1
NoDeadline == -1
NoSchedule == [t \in Target |-> NoDeadline]

Least(S) == CHOOSE n \in S : \A k \in S : n <= k
Greatest(S) == CHOOSE n \in S : \A k \in S : n >= k

\* The interval of the schedule: the target's own, or the fallback.
Cadence(t) == IF Interval[t] = 0 THEN Resync ELSE Interval[t]
Longest == Greatest({Cadence(t) : t \in Target} \cup {Resync, MaxCycle})

\* The variables hold values of their types.
TypeOK ==
  /\ lease \in [holder : Replica \cup {None}, age : 0 .. LeaseDuration]
  /\ main \in [Replica -> {"electing", "holding", "releasing", "returned", "joining",
                           "leaving", "exited"}]
  /\ work \in [Replica -> {"none", "spawned", "refused", "admitted", "finished", "lost"}
                            \cup Looping]
  /\ gone \in [Replica -> SUBSET Contexts]
  /\ due \in [Replica -> SUBSET Target]
  /\ next \in [Replica -> [Target -> -1 .. Longest]]
  /\ clock \in [Replica -> 0 .. Longest]
  /\ beat \in [Replica -> -1 .. Window + 1]
  /\ stuck \subseteq Replica
  /\ code \in [Replica -> 0 .. 1]
  /\ faults \in 0 .. MaxFaults

Init ==
  /\ lease = [holder |-> None, age |-> 0]
  /\ main = [p \in Replica |-> "electing"]
  /\ work = [p \in Replica |-> "none"]
  /\ gone = [p \in Replica |-> {}]
  /\ due = [p \in Replica |-> {}]
  /\ next = [p \in Replica |-> NoSchedule]
  /\ clock = [p \in Replica |-> 0]
  /\ beat = [p \in Replica |-> Inactive]
  /\ stuck = {}
  /\ code = [p \in Replica |-> 0]
  /\ faults = 0

Fault == faults < MaxFaults /\ faults' = faults + 1

\* leading, electionStopped, and the error of the three contexts.
Leading(p) == work[p] \in {"admitted", "finished", "lost"} \cup Looping
ElectionStopped(p) == main[p] \in {"joining", "leaving", "exited"}
Stopping(p) == "stop" \in gone[p]
LeaderGone(p) == "leader" \in gone[p]

\* Mutant: the work context is not derived from the leader context.
WorkGoneOnSignal(p) == "work" \in gone[p]

WorkGone(p) == LeaderGone(p) \/ "work" \in gone[p]

\* cancelElect: the contexts below the elector's end with it.
CancelElect(p) == gone' = [gone EXCEPT ![p] = @ \cup {"elect", "leader"}]

\* The loop and its heartbeat do not move.
LoopKept == UNCHANGED <<due, next, clock, beat, stuck>>

\* The loop is left: its schedule is gone and the heartbeat inactive.
LoopOver(p) ==
  /\ due' = [due EXCEPT ![p] = {}]
  /\ next' = [next EXCEPT ![p] = NoSchedule]
  /\ clock' = [clock EXCEPT ![p] = 0]
  /\ beat' = [beat EXCEPT ![p] = Inactive]

-----------------------------------------------------------------------------
(***************************************************************************)
(* The client-go elector.                                                  *)
(***************************************************************************)
\* A Lease that is free, expired, or still in this pod's name is taken, and
\* the callback is started.
Acquire(p) ==
  /\ main[p] = "electing" /\ "elect" \notin gone[p]
  /\ lease.holder \in {None, p} \/ lease.age = LeaseDuration
  /\ lease' = [holder |-> p, age |-> 0]
  /\ main' = [main EXCEPT ![p] = "holding"]
  /\ work' = [work EXCEPT ![p] = "spawned"]
  /\ LoopKept /\ UNCHANGED <<gone, code, faults>>

Renew(p) ==
  /\ main[p] = "holding" /\ ~LeaderGone(p)
  /\ lease.age > 0
  /\ lease' = [lease EXCEPT !.age = 0]
  /\ LoopKept /\ UNCHANGED <<main, work, gone, code, faults>>

\* renew gives up: the Lease could not be renewed in time.  The leader context
\* lives on until the elector returns.
GiveUp(p) ==
  /\ main[p] = "holding" /\ ~LeaderGone(p)
  /\ lease.age >= RenewDeadline
  /\ Fault
  /\ main' = [main EXCEPT ![p] = "releasing"]
  /\ LoopKept /\ UNCHANGED <<lease, work, gone, code>>

\* The elector was cancelled while it waited for the Lease, which it then leaves
\* alone, or while it held it.
ElectorCanceled(p) ==
  /\ "elect" \in gone[p]
  /\ \/ main[p] = "electing" /\ main' = [main EXCEPT ![p] = "returned"]
     \/ main[p] = "holding" /\ main' = [main EXCEPT ![p] = "releasing"]
  /\ LoopKept /\ UNCHANGED <<lease, work, gone, code, faults>>

\* ReleaseOnCancel: before it returns, renew asks the API server to free the
\* Lease.  The request frees no Lease that another pod has taken in the meantime.
Release(p) ==
  /\ main[p] = "releasing" /\ lease.holder = p
  /\ lease' = [holder |-> None, age |-> 0]
  /\ LoopKept /\ UNCHANGED <<main, work, gone, code, faults>>

\* The request was answered, failed or timed out: Run returns, and cancels the
\* leader context only now.
ElectorReturns(p) ==
  /\ main[p] = "releasing"
  /\ gone' = [gone EXCEPT ![p] = @ \cup {"leader"}]
  /\ main' = [main EXCEPT ![p] = "returned"]
  /\ LoopKept /\ UNCHANGED <<lease, work, code, faults>>

-----------------------------------------------------------------------------
(***************************************************************************)
(* runWithLeaderElection and runAsLeader.                                  *)
(***************************************************************************)
\* Mutant: the elector is cancelled whether or not the replica leads.
StopWaitingAlways(p) ==
  /\ main[p] # "exited"
  /\ Stopping(p) /\ "elect" \notin gone[p]
  /\ CancelElect(p)
  /\ LoopKept /\ UNCHANGED <<lease, main, work, code, faults>>

\* The AfterFunc of the signal context: a replica that never led has nothing
\* to drain.  For a leader it does nothing.
StopWaiting(p) ==
  /\ main[p] # "exited"
  /\ Stopping(p) /\ "elect" \notin gone[p]
  /\ ~Leading(p)
  /\ CancelElect(p)
  /\ LoopKept /\ UNCHANGED <<lease, main, work, code, faults>>

\* Mutant: the callback only looks at the signal context.
AdmitUnpaired(p) ==
  /\ work[p] = "spawned" /\ main[p] # "exited"
  /\ IF Stopping(p)
     THEN work' = [work EXCEPT ![p] = "refused"] /\ CancelElect(p)
     ELSE work' = [work EXCEPT ![p] = "admitted"] /\ UNCHANGED gone
  /\ LoopKept /\ UNCHANGED <<lease, main, code, faults>>

\* The critical section of OnStartedLeading, and the cancelElect after it.
Admit(p) ==
  /\ work[p] = "spawned" /\ main[p] # "exited"
  /\ IF ElectionStopped(p) \/ Stopping(p) \/ LeaderGone(p)
     THEN work' = [work EXCEPT ![p] = "refused"] /\ CancelElect(p)
     ELSE work' = [work EXCEPT ![p] = "admitted"] /\ UNCHANGED gone
  /\ LoopKept /\ UNCHANGED <<lease, main, code, faults>>

\* runAsLeader returns: the elector is cancelled, and what was returned goes
\* to main.  errLeadershipLost is "lost"; the error of a stop is dropped.
Return(p, result) ==
  /\ work' = [work EXCEPT ![p] = result]
  /\ CancelElect(p)

\* What runAsLeader makes of the end of its loop.
Outcome(p) == IF LeaderGone(p) /\ ~Stopping(p) THEN "lost" ELSE "finished"

\* Mutant: the heartbeat is never activated.
StartLoopInactive(p) ==
  /\ work[p] = "admitted"
  /\ IF Stopping(p) \/ LeaderGone(p)
     THEN Return(p, Outcome(p))
     ELSE work' = [work EXCEPT ![p] = "poll"] /\ UNCHANGED gone
  /\ LoopKept /\ UNCHANGED <<lease, main, code, faults>>

\* runAsLeader checks both contexts once more and enters the loop: the
\* heartbeat becomes active, and the schedule is still empty.
StartLoop(p) ==
  /\ work[p] = "admitted"
  /\ IF Stopping(p) \/ LeaderGone(p)
     THEN Return(p, Outcome(p)) /\ UNCHANGED beat
     ELSE /\ work' = [work EXCEPT ![p] = "poll"]
          /\ beat' = [beat EXCEPT ![p] = 0]
          /\ UNCHANGED gone
  /\ UNCHANGED <<lease, main, due, next, clock, stuck, code, faults>>

\* The AfterFunc that cancels the work context on a signal.
CancelWork(p) ==
  /\ work[p] \in Looping
  /\ Stopping(p) /\ "work" \notin gone[p]
  /\ gone' = [gone EXCEPT ![p] = @ \cup {"work"}]
  /\ LoopKept /\ UNCHANGED <<lease, main, work, code, faults>>

\* RunOrDie has returned: from here on a late callback is refused.
Close(p) ==
  /\ main[p] = "returned"
  /\ main' = [main EXCEPT ![p] = IF Leading(p) THEN "joining" ELSE "leaving"]
  /\ code' = [code EXCEPT ![p] = 0]
  /\ LoopKept /\ UNCHANGED <<lease, work, gone, faults>>

\* The result of the work arrives; only errLeadershipLost is an error to run.
Join(p) ==
  /\ main[p] = "joining" /\ work[p] \in {"finished", "lost"}
  /\ main' = [main EXCEPT ![p] = "leaving"]
  /\ code' = [code EXCEPT ![p] = IF work[p] = "lost" THEN 1 ELSE 0]
  /\ LoopKept /\ UNCHANGED <<lease, work, gone, faults>>

\* run returns after its deferred cleanup, and the process ends.
Exit(p) ==
  /\ main[p] = "leaving"
  /\ main' = [main EXCEPT ![p] = "exited"]
  /\ work' = [work EXCEPT ![p] = "none"]
  /\ gone' = [gone EXCEPT ![p] = {}]
  /\ LoopKept /\ UNCHANGED <<lease, code, faults>>

-----------------------------------------------------------------------------
(***************************************************************************)
(* The loop of runTargetMode.                                              *)
(***************************************************************************)
\* AuditSchedule.Due with immediateNew: a target without a deadline, or with
\* another runtime than before, is due at once.
Due(p, present, replaced) ==
  {t \in present : t \in replaced \/ next[p][t] \in {NoDeadline, 0}}

\* The deadlines Due leaves: targets that are gone lose theirs.
Deadlines(p, present, selected) ==
  [t \in Target |-> IF t \in selected THEN Cadence(t)
                    ELSE IF t \in present THEN next[p][t] ELSE NoDeadline]

\* The targets are listed and their runtimes synchronized; the cycle audits
\* those that are due.  A target may have become invalid, and a runtime may
\* have been replaced because its target or its credentials changed.
Poll(p, present, replaced) ==
  LET selected == Due(p, present, replaced)
  IN  /\ work[p] = "poll"
      /\ IF present = Target /\ replaced = {} THEN UNCHANGED faults ELSE Fault
      /\ due' = [due EXCEPT ![p] = selected]
      /\ next' = [next EXCEPT ![p] = Deadlines(p, present, selected)]
      /\ clock' = [clock EXCEPT ![p] = 0]
      /\ work' = [work EXCEPT ![p] = "audit"]
      /\ UNCHANGED <<lease, main, gone, beat, stuck, code>>

\* The cycle is over, whatever came of it: heartbeat.MarkAttempt, then sleep.
EndCycle(p, delay) ==
  /\ beat' = [beat EXCEPT ![p] = IF @ = Inactive THEN @ ELSE 0]
  /\ clock' = [clock EXCEPT ![p] = delay]
  /\ work' = [work EXCEPT ![p] = "sleep"]

\* The targets could not be listed or synchronized.
PollFails(p) ==
  /\ work[p] = "poll"
  /\ EndCycle(p, Resync)
  /\ due' = [due EXCEPT ![p] = {}]
  /\ UNCHANGED <<lease, main, gone, next, stuck, code, faults>>

\* Mutant: the wait is not capped.
DelayUncapped(p) ==
  LET left == {next[p][t] : t \in {t \in Target : next[p][t] # NoDeadline}}
  IN  IF left = {} THEN Resync ELSE Least(left)

\* AuditSchedule.Delay.
Delay(p) ==
  Least({Resync} \cup {next[p][t] : t \in {t \in Target : next[p][t] # NoDeadline}})

\* RunSelected returns once every selected audit has succeeded or failed.
FinishAudits(p) ==
  /\ work[p] = "audit" /\ p \notin stuck
  /\ EndCycle(p, Delay(p))
  /\ UNCHANGED <<lease, main, gone, due, next, stuck, code, faults>>

\* sleepContext: the timer, or the work context, ends the wait.  When both are
\* ready, either may be taken.
Wake(p) ==
  /\ work[p] = "sleep" /\ clock[p] = 0
  /\ work' = [work EXCEPT ![p] = "poll"]
  /\ UNCHANGED <<lease, main, gone, due, next, clock, beat, stuck, code, faults>>

\* The loop returns the error of its context, and runAsLeader with it.
StopLoop(p) ==
  /\ work[p] = "sleep" /\ WorkGone(p)
  /\ Return(p, Outcome(p))
  /\ LoopOver(p)
  /\ UNCHANGED <<lease, main, stuck, code, faults>>

-----------------------------------------------------------------------------
(***************************************************************************)
(* The cluster.                                                            *)
(***************************************************************************)
\* Heartbeat.Healthy, read by the liveness probe.
Healthy(p) == beat[p] <= Window

\* SIGTERM: a rollout or a drained node, or a failing liveness probe.
Signal(p) ==
  /\ main[p] # "exited" /\ ~Stopping(p)
  /\ IF Healthy(p) THEN Fault ELSE UNCHANGED faults
  /\ gone' = [gone EXCEPT ![p] = @ \cup {"stop"}]
  /\ LoopKept /\ UNCHANGED <<lease, main, work, code>>

\* A process that is no more; only its Lease stays behind.
Dead(p) ==
  /\ main' = [main EXCEPT ![p] = "exited"]
  /\ work' = [work EXCEPT ![p] = "none"]
  /\ gone' = [gone EXCEPT ![p] = {}]
  /\ stuck' = stuck \ {p}
  /\ LoopOver(p)
  /\ UNCHANGED <<lease, code>>

\* SIGKILL when the grace period is over.
Kill(p) ==
  /\ main[p] # "exited" /\ Stopping(p)
  /\ Dead(p)
  /\ UNCHANGED faults

Crash(p) == main[p] # "exited" /\ ~Stopping(p) /\ Fault /\ Dead(p)

\* The container, or the pod, is started again.
Restart(p) ==
  /\ main[p] = "exited"
  /\ main' = [main EXCEPT ![p] = "electing"]
  /\ code' = [code EXCEPT ![p] = 0]
  /\ LoopKept /\ UNCHANGED <<lease, work, gone, faults>>

\* An audit hangs where no deadline and no context reaches it.
GetStuck(p) ==
  /\ work[p] = "audit" /\ p \notin stuck
  /\ Fault
  /\ stuck' = stuck \cup {p}
  /\ UNCHANGED <<lease, main, work, gone, due, next, clock, beat, code>>

Elapse(left) == IF left > 0 THEN left - 1 ELSE left
Capped(n, limit) == IF n < limit THEN n + 1 ELSE limit

\* A tick waits for what is prompt: an elector renews its Lease or gives up by
\* the deadline, timers fire, and only the audits of a cycle take time.
Prompt(p) ==
  /\ main[p] = "holding" => lease.age < RenewDeadline
  /\ work[p] # "poll"
  /\ work[p] = "audit" /\ p \notin stuck => clock[p] < MaxCycle
  /\ work[p] = "sleep" => clock[p] > 0

Tick ==
  /\ \A p \in Replica : Prompt(p)
  /\ lease' = [lease EXCEPT !.age = IF lease.holder = None THEN 0 ELSE Capped(@, LeaseDuration)]
  /\ next' = [p \in Replica |-> [t \in Target |-> Elapse(next[p][t])]]
  /\ clock' = [p \in Replica |->
                 CASE work[p] = "sleep" -> Elapse(clock[p])
                   [] work[p] = "audit" -> Capped(clock[p], MaxCycle)
                   [] OTHER -> clock[p]]
  /\ beat' = [p \in Replica |-> IF beat[p] = Inactive THEN Inactive
                                ELSE Capped(beat[p], Window + 1)]
  /\ UNCHANGED <<main, work, gone, due, stuck, code, faults>>

-----------------------------------------------------------------------------
\* The goroutine of run, with the elector it calls and the kubelet's restart.
Main(p) ==
  \/ Acquire(p) \/ Renew(p)
  \/ ElectorCanceled(p) \/ Release(p) \/ ElectorReturns(p)
  \/ Close(p) \/ Join(p) \/ Exit(p)
  \/ Restart(p)

\* The goroutine of OnStartedLeading.
Callback(p) ==
  \/ Admit(p) \/ StartLoop(p)
  \/ \E present \in SUBSET Target : \E replaced \in SUBSET present : Poll(p, present, replaced)
  \/ PollFails(p) \/ FinishAudits(p) \/ Wake(p) \/ StopLoop(p)

AfterStop(p) == StopWaiting(p) \/ CancelWork(p)

Cluster(p) == GiveUp(p) \/ Signal(p) \/ Kill(p) \/ Crash(p) \/ GetStuck(p)

Next ==
  \/ \E p \in Replica : Main(p) \/ Callback(p) \/ AfterStop(p) \/ Cluster(p)
  \/ Tick

Spec == Init /\ [][Next]_vars

\* Time passes and goroutines that can run do run; a loop told to stop does not
\* find its timer first for ever; the Kubernetes API asked again and again
\* finally answers; a failing liveness probe is acted upon, and so is the end
\* of the grace period.
Fairness ==
  /\ WF_vars(Tick)
  /\ \A p \in Replica :
       /\ WF_vars(Main(p)) /\ WF_vars(Callback(p)) /\ WF_vars(AfterStop(p))
       /\ SF_vars(StopLoop(p))
       /\ SF_vars(Poll(p, Target, {}))
       /\ WF_vars((~Healthy(p) /\ Signal(p)) \/ Kill(p))

FairSpec == Spec /\ Fairness

-----------------------------------------------------------------------------
(***************************************************************************)
(* Properties.                                                             *)
(***************************************************************************)
\* The work is admitted, or under way.
Working(p) == work[p] \in {"admitted"} \cup Looping

\* A replica gives its Lease back with work under way only when it could not
\* renew it by the deadline: no order of the signal, the callback and the end of
\* the work frees a Lease that is still good ("On shutdown the work context is
\* canceled first, run() returns, and only then is the elector canceled to
\* release the Lease", runWithLeaderElection).
ReleaseStep ==
  \A p \in Replica :
    lease.holder = p /\ lease'.holder = None /\ Working(p) => lease.age >= RenewDeadline
ReleasedAfterWork == [][ReleaseStep]_vars

\* The promise of runAsLeader without that exception, "guaranteeing the Lease is
\* never released while run may still be writing": the elector that gives up
\* breaks it.
NeverReleasedWhileWorking ==
  [][\A p \in Replica : lease.holder = p /\ lease'.holder = None => work[p] \notin Looping]_vars

\* Two replicas work on contexts that are not cancelled only while the elector of
\* one of them has given up and not yet returned, whoever lost its Lease, was
\* stopped, restarted or hangs: the work context of runAsLeader ends with
\* leadership, and leadership with the return of the elector.
Writing(p) == work[p] \in Looping /\ ~WorkGone(p)
HandingOver(p) == main[p] = "releasing"
OneWorkingReplica ==
  \A p, q \in Replica :
    Writing(p) /\ Writing(q) => p = q \/ HandingOver(p) \/ HandingOver(q)

\* A process leaves only with its work joined, and leaves successfully after
\* having worked only when it was told to stop (runWithLeaderElection: "either
\* work starts and we join it, or a late callback cannot start work").
LeavesInOrder ==
  \A p \in Replica : main[p] = "leaving" =>
    /\ work[p] \notin {"admitted"} \cup Looping
    /\ work[p] \in {"finished", "lost"} /\ code[p] = 0 => Stopping(p)

\* The liveness probe fails only a replica whose loop hangs: however the audit
\* intervals, the cap of the wait, failing loads and failover fall, a loop that
\* makes progress reports it within the window.
OnlyStuckLoopsFail == \A p \in Replica : Healthy(p) \/ p \in stuck

\* The loop of a replica in charge has just audited t.
Audited(t) == \E p \in Replica : work[p] = "sleep" /\ t \in due[p] /\ ~WorkGone(p)

\* Every target is audited again and again, whatever was lost, stopped, killed
\* or stuck on the way: the Lease is released or expires, the probe ends a stuck
\* leader, and the schedule of the next leader starts afresh.
AuditsContinue == \A t \in Target : []<>Audited(t)

=============================================================================
