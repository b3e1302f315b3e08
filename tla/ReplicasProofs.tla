--------------------------- MODULE ReplicasProofs ---------------------------
(***************************************************************************)
(* Proofs about the replicas for every number of pods and of targets, every *)
(* audit interval and every choice of the deadlines of leader election.     *)
(***************************************************************************)
EXTENDS Replicas, TLAPS, WellFoundedInduction, NaturalsInduction

\* The types the proofs need: how far a deadline or a clock can count depends on
\* the intervals of all targets and does not matter here.
Types ==
  /\ lease \in [holder : Replica \cup {None}, age : 0 .. LeaseDuration]
  /\ main \in [Replica -> {"electing", "holding", "releasing", "returned", "joining",
                           "leaving", "exited"}]
  /\ work \in [Replica -> {"none", "spawned", "refused", "admitted", "finished", "lost"}
                            \cup Looping]
  /\ gone \in [Replica -> SUBSET Contexts]
  /\ next \in [Replica -> [Target -> Nat \cup {NoDeadline}]]
  /\ clock \in [Replica -> Nat]
  /\ beat \in [Replica -> -1 .. Window + 1]
  /\ stuck \subseteq Replica
  /\ code \in [Replica -> 0 .. 1]

\* How the contexts of a replica, its two goroutines and its exit code hang
\* together.
Control(p) ==
  /\ "elect" \in gone[p] => LeaderGone(p) /\ ~Working(p)
  /\ "work" \in gone[p] => Stopping(p)
  /\ main[p] \in {"electing", "exited"} => work[p] = "none"
  /\ main[p] \in {"returned", "joining", "leaving"} => LeaderGone(p)
  /\ main[p] = "leaving" => ~Working(p)
  /\ work[p] = "finished" => Stopping(p)
  /\ main[p] = "leaving" /\ work[p] = "lost" => code[p] = 1

\* An elector that has not given up holds the Lease, and nobody else can have it;
\* one that is about to free its Lease was cancelled or is past the deadline.
Held(p) ==
  /\ main[p] = "holding" => lease.holder = p /\ lease.age <= RenewDeadline
  /\ main[p] = "releasing" /\ lease.holder = p =>
       lease.age >= RenewDeadline \/ "elect" \in gone[p]

\* The heartbeat is active only in the loop, and what is left to sleep or was
\* spent in the audits accounts for its age.
Beating(p) ==
  /\ work[p] \notin Looping => beat[p] = Inactive
  /\ work[p] \in Looping => beat[p] >= 0
  /\ p \in stuck => work[p] = "audit"
  /\ work[p] = "poll" => beat[p] <= Resync
  /\ work[p] = "sleep" => beat[p] + clock[p] <= Resync
  /\ work[p] = "audit" /\ p \notin stuck => clock[p] <= MaxCycle /\ beat[p] <= Resync + clock[p]

IInv == Types /\ \A p \in Replica : Control(p) /\ Held(p) /\ Beating(p)

-----------------------------------------------------------------------------
(***************************************************************************)
(* What AuditSchedule.Delay returns.                                       *)
(***************************************************************************)
\* A nonempty set of times has a least one, and Least names it.
LEMMA LeastIsLeast ==
    ASSUME NEW S \in SUBSET Nat, S # {}
    PROVE  Least(S) \in S /\ \A k \in S : Least(S) <= k
  <1>1. \E n \in S : \A k \in S : ~ <<k, n>> \in OpToRel(<, Nat)
    BY NatLessThanWellFounded, WFMin, Zenon
  <1>2. PICK n \in S : \A k \in S : ~ <<k, n>> \in OpToRel(<, Nat)
    BY <1>1, Zenon
  <1>3. ASSUME NEW k \in S PROVE n <= k
    <2>1. <<k, n>> \in Nat \X Nat /\ <<k, n>>[1] = k /\ <<k, n>>[2] = n
      OBVIOUS
    <2>2. ~(k < n)
      BY <1>2, <2>1, Zenon DEF OpToRel
    <2> QED
      BY <2>2
  <1> QED
    BY <1>3, Zenon DEF Least

\* The loop never sleeps longer than the resync interval, whatever the targets'
\* deadlines are (AuditSchedule.Delay).
LEMMA DelayBounded ==
    ASSUME Types, NEW p \in Replica
    PROVE  Delay(p) \in Nat /\ Delay(p) <= Resync
  <1> DEFINE left == {Resync} \cup {next[p][t] : t \in {t \in Target : next[p][t] # NoDeadline}}
  <1>1. left \in SUBSET Nat /\ Resync \in left
    BY ReplicasAssumption DEF Types
  <1>2. Least(left) \in left /\ Least(left) <= Resync
    BY <1>1, LeastIsLeast, Zenon
  <1> QED
    BY <1>1, <1>2, Zenon DEF Delay

-----------------------------------------------------------------------------
(***************************************************************************)
(* Every step keeps the invariant.                                         *)
(***************************************************************************)
\* What Held says stays true while neither the Lease nor main moves.
LEMMA HeldKept ==
    ASSUME NEW q \in Replica, Held(q), lease' = lease, main' = main, gone[q] \subseteq gone'[q]
    PROVE  Held(q)'
  BY Zenon DEF Held

\* Cancelling the elector adds to the contexts of its replica.
LEMMA CancelElectGrows ==
    ASSUME Types, NEW p \in Replica, CancelElect(p) \/ gone' = gone
    PROVE  /\ gone' \in [Replica -> SUBSET Contexts]
           /\ \A q \in Replica : gone[q] \subseteq gone'[q]
  <1>1. gone[p] \cup {"elect", "leader"} \in SUBSET Contexts
    BY Zenon DEF Types, Contexts
  <1>2. gone' \in {gone, [gone EXCEPT ![p] = @ \cup {"elect", "leader"}]}
    BY Zenon DEF CancelElect
  <1>3. gone' \in [Replica -> SUBSET Contexts]
    BY <1>1, <1>2, ZenonT(60) DEF Types
  <1>4. ASSUME NEW q \in Replica PROVE gone[q] \subseteq gone'[q]
    <2>1. gone'[q] \in {gone[q], gone[q] \cup {"elect", "leader"}}
      BY <1>2, ZenonT(60) DEF Types
    <2> QED
      BY <2>1, Zenon
  <1> QED
    BY <1>3, <1>4, Zenon

\* The elector takes the Lease and starts the callback.
LEMMA AcquireKeeps ==
    ASSUME IInv, NEW p \in Replica, Acquire(p)
    PROVE  IInv'
  <1> USE ReplicasAssumption DEF IInv
  <1>1. Types'
    BY DEF Acquire, LoopKept, Types
  <1>2. ASSUME NEW q \in Replica PROVE Control(q)'
    BY DEF Acquire, Types, Control, Working, LeaderGone, Stopping
  <1>3. ASSUME NEW q \in Replica PROVE Held(q)'
    BY DEF Acquire, Held
  <1>4. ASSUME NEW q \in Replica PROVE Beating(q)'
    BY DEF Acquire, LoopKept, Beating, Looping, Control
  <1> QED
    BY <1>1, <1>2, <1>3, <1>4, Zenon

\* The elector renews the Lease.
LEMMA RenewKeeps ==
    ASSUME IInv, NEW p \in Replica, Renew(p)
    PROVE  IInv'
  <1> USE ReplicasAssumption DEF IInv
  <1>0. lease' \in [holder : Replica \cup {None}, age : 0 .. LeaseDuration]
    <2>1. 0 \in 0 .. LeaseDuration
      OBVIOUS
    <2> QED
      BY <2>1, Zenon DEF Renew, Types
  <1>1. Types'
    BY <1>0, Zenon DEF Renew, LoopKept, Types
  <1>2. ASSUME NEW q \in Replica PROVE Control(q)'
    BY Zenon DEF Renew, LeaderGone, Control, Working, Stopping
  <1>3. ASSUME NEW q \in Replica PROVE Held(q)'
    BY DEF Renew, Held
  <1>4. ASSUME NEW q \in Replica PROVE Beating(q)'
    BY Zenon DEF Renew, LoopKept, Beating
  <1> QED
    BY <1>1, <1>2, <1>3, <1>4, Zenon

\* The elector gives up.
LEMMA GiveUpKeeps ==
    ASSUME IInv, NEW p \in Replica, GiveUp(p)
    PROVE  IInv'
  <1> USE ReplicasAssumption DEF IInv
  <1>1. Types'
    BY Zenon DEF GiveUp, LoopKept, Types
  <1>2. ASSUME NEW q \in Replica PROVE Control(q)'
    BY DEF GiveUp, Types, Control, Working, LeaderGone, Stopping
  <1>3. ASSUME NEW q \in Replica PROVE Held(q)'
    BY DEF GiveUp, Types, Held
  <1>4. ASSUME NEW q \in Replica PROVE Beating(q)'
    BY Zenon DEF GiveUp, LoopKept, Beating
  <1> QED
    BY <1>1, <1>2, <1>3, <1>4, Zenon

\* The elector ends because it was cancelled.
LEMMA ElectorCanceledKeeps ==
    ASSUME IInv, NEW p \in Replica, ElectorCanceled(p)
    PROVE  IInv'
  <1> USE ReplicasAssumption DEF IInv
  <1>1. Types'
    BY Zenon DEF ElectorCanceled, LoopKept, Types
  <1>2. ASSUME NEW q \in Replica PROVE Control(q)'
    BY DEF ElectorCanceled, Types, Control, Working, LeaderGone, Stopping
  <1>3. ASSUME NEW q \in Replica PROVE Held(q)'
    BY DEF ElectorCanceled, Types, Held
  <1>4. ASSUME NEW q \in Replica PROVE Beating(q)'
    BY Zenon DEF ElectorCanceled, LoopKept, Beating
  <1> QED
    BY <1>1, <1>2, <1>3, <1>4, Zenon

\* The Lease is freed.
LEMMA ReleaseKeeps ==
    ASSUME IInv, NEW p \in Replica, Release(p)
    PROVE  IInv'
  <1> USE ReplicasAssumption DEF IInv
  <1>1. Types'
    BY DEF Release, LoopKept, Types
  <1>2. ASSUME NEW q \in Replica PROVE Control(q)'
    BY Zenon DEF Release, Control, Working, LeaderGone, Stopping
  <1>3. ASSUME NEW q \in Replica PROVE Held(q)'
    BY DEF Release, Types, Held
  <1>4. ASSUME NEW q \in Replica PROVE Beating(q)'
    BY Zenon DEF Release, LoopKept, Beating
  <1> QED
    BY <1>1, <1>2, <1>3, <1>4, Zenon

\* The elector returns and the leader context ends.
LEMMA ElectorReturnsKeeps ==
    ASSUME IInv, NEW p \in Replica, ElectorReturns(p)
    PROVE  IInv'
  <1> USE ReplicasAssumption DEF IInv
  <1>1. Types'
    BY Zenon DEF ElectorReturns, LoopKept, Types, Contexts
  <1>2. ASSUME NEW q \in Replica PROVE Control(q)'
    BY DEF ElectorReturns, Types, Control, Working, LeaderGone, Stopping
  <1>3. ASSUME NEW q \in Replica PROVE Held(q)'
    BY DEF ElectorReturns, Types, Held
  <1>4. ASSUME NEW q \in Replica PROVE Beating(q)'
    BY Zenon DEF ElectorReturns, LoopKept, Beating
  <1> QED
    BY <1>1, <1>2, <1>3, <1>4, Zenon

\* The signal ends an elector that does not lead.
LEMMA StopWaitingKeeps ==
    ASSUME IInv, NEW p \in Replica, StopWaiting(p)
    PROVE  IInv'
  <1> USE ReplicasAssumption DEF IInv
  <1>1. Types'
    BY Zenon DEF StopWaiting, LoopKept, CancelElect, Types, Contexts
  <1>2. ASSUME NEW q \in Replica PROVE Control(q)'
    BY DEF StopWaiting, CancelElect, Control, Working, Leading, LeaderGone, Stopping
  <1>3. ASSUME NEW q \in Replica PROVE Held(q)'
    <2>1. CancelElect(p) \/ gone' = gone
      BY Zenon DEF StopWaiting
    <2> QED
      BY <2>1, CancelElectGrows, HeldKept, Zenon DEF StopWaiting
  <1>4. ASSUME NEW q \in Replica PROVE Beating(q)'
    BY Zenon DEF StopWaiting, LoopKept, Beating
  <1> QED
    BY <1>1, <1>2, <1>3, <1>4, Zenon

\* The callback is admitted or refused.
LEMMA AdmitKeeps ==
    ASSUME IInv, NEW p \in Replica, Admit(p)
    PROVE  IInv'
  <1> USE ReplicasAssumption DEF IInv
  <1>1. Types'
    <2>1. CancelElect(p) \/ gone' = gone
      BY Zenon DEF Admit
    <2>2. gone' \in [Replica -> SUBSET Contexts]
      BY <2>1, CancelElectGrows, Zenon
    <2>3. work' \in {[work EXCEPT ![p] = "refused"], [work EXCEPT ![p] = "admitted"]}
      BY Zenon DEF Admit
    <2>4. work' \in [Replica -> {"none", "spawned", "refused", "admitted", "finished", "lost"}
                                  \cup Looping]
      BY <2>3, Zenon DEF Types
    <2> QED
      BY <2>2, <2>4, Zenon DEF Admit, LoopKept, Types
  <1>2. ASSUME NEW q \in Replica PROVE Control(q)'
    BY DEF Admit, CancelElect, LeaderGone, Stopping, Types, Control, Working, Looping
  <1>3. ASSUME NEW q \in Replica PROVE Held(q)'
    <2>1. CancelElect(p) \/ gone' = gone
      BY Zenon DEF Admit
    <2> QED
      BY <2>1, CancelElectGrows, HeldKept, Zenon DEF Admit
  <1>4. ASSUME NEW q \in Replica PROVE Beating(q)'
    BY DEF Admit, LoopKept, Types, Beating, Looping
  <1> QED
    BY <1>1, <1>2, <1>3, <1>4, Zenon

\* runAsLeader enters its loop or returns at once.
LEMMA StartLoopKeeps ==
    ASSUME IInv, NEW p \in Replica, StartLoop(p)
    PROVE  IInv'
  <1> USE ReplicasAssumption DEF IInv
  <1>0. Outcome(p) \in {"lost", "finished"} /\ 0 \in -1 .. Window + 1
    BY DEF Outcome
  <1>1. Types'
    <2>1. work' \in [Replica -> {"none", "spawned", "refused", "admitted", "finished", "lost"}
                                  \cup Looping]
      <3>1. \E r \in {"lost", "finished", "poll"} : work' = [work EXCEPT ![p] = r]
        BY <1>0, Zenon DEF StartLoop, Return
      <3> QED
        BY <3>1, Zenon DEF Types, Looping
    <2>2. gone' \in [Replica -> SUBSET Contexts]
      <3>1. CancelElect(p) \/ gone' = gone
        BY Zenon DEF StartLoop, Return
      <3> QED
        BY <3>1, CancelElectGrows, Zenon
    <2>3. beat' \in [Replica -> -1 .. Window + 1]
      <3>1. beat' \in {beat, [beat EXCEPT ![p] = 0]}
        BY Zenon DEF StartLoop
      <3> QED
        BY <1>0, <3>1, Zenon DEF Types
    <2> QED
      BY <2>1, <2>2, <2>3, Zenon DEF StartLoop, Types
  <1>2. ASSUME NEW q \in Replica PROVE Control(q)'
    BY DEF StartLoop, Return, Outcome, CancelElect, LeaderGone, Stopping, Types, Control,
       Working, Looping
  <1>3. ASSUME NEW q \in Replica PROVE Held(q)'
    <2>1. CancelElect(p) \/ gone' = gone
      BY Zenon DEF StartLoop, Return
    <2> QED
      BY <2>1, CancelElectGrows, HeldKept, Zenon DEF StartLoop
  <1>4. ASSUME NEW q \in Replica PROVE Beating(q)'
    BY DEF StartLoop, Return, Outcome, Types, Beating, Looping
  <1> QED
    BY <1>1, <1>2, <1>3, <1>4, Zenon

\* The signal cancels the work context.
LEMMA CancelWorkKeeps ==
    ASSUME IInv, NEW p \in Replica, CancelWork(p)
    PROVE  IInv'
  <1> USE ReplicasAssumption DEF IInv
  <1>1. Types'
    BY Zenon DEF CancelWork, LoopKept, Types, Contexts
  <1>2. ASSUME NEW q \in Replica PROVE Control(q)'
    BY DEF CancelWork, Control, Working, LeaderGone, Stopping
  <1>3. ASSUME NEW q \in Replica PROVE Held(q)'
    <2>1. gone[q] \subseteq gone'[q]
      BY DEF CancelWork, Types
    <2> QED
      BY <2>1, HeldKept, Zenon DEF CancelWork
  <1>4. ASSUME NEW q \in Replica PROVE Beating(q)'
    BY Zenon DEF CancelWork, LoopKept, Beating
  <1> QED
    BY <1>1, <1>2, <1>3, <1>4, Zenon

\* RunOrDie has returned.
LEMMA CloseKeeps ==
    ASSUME IInv, NEW p \in Replica, Close(p)
    PROVE  IInv'
  <1> USE ReplicasAssumption DEF IInv
  <1>1. Types'
    BY DEF Close, LoopKept, Types
  <1>2. ASSUME NEW q \in Replica PROVE Control(q)'
    BY DEF Close, Leading, Control, Working, LeaderGone, Stopping
  <1>3. ASSUME NEW q \in Replica PROVE Held(q)'
    BY DEF Close, Held
  <1>4. ASSUME NEW q \in Replica PROVE Beating(q)'
    BY Zenon DEF Close, LoopKept, Beating
  <1> QED
    BY <1>1, <1>2, <1>3, <1>4, Zenon

\* The result of the work arrives.
LEMMA JoinKeeps ==
    ASSUME IInv, NEW p \in Replica, Join(p)
    PROVE  IInv'
  <1> USE ReplicasAssumption DEF IInv
  <1>1. Types'
    BY DEF Join, LoopKept, Types
  <1>2. ASSUME NEW q \in Replica PROVE Control(q)'
    BY Zenon DEF Join, Types, Control, Working, Looping, LeaderGone, Stopping
  <1>3. ASSUME NEW q \in Replica PROVE Held(q)'
    BY DEF Join, Held
  <1>4. ASSUME NEW q \in Replica PROVE Beating(q)'
    BY Zenon DEF Join, LoopKept, Beating
  <1> QED
    BY <1>1, <1>2, <1>3, <1>4, Zenon

\* The process ends in order.
LEMMA ExitKeeps ==
    ASSUME IInv, NEW p \in Replica, Exit(p)
    PROVE  IInv'
  <1> USE ReplicasAssumption DEF IInv
  <1>1. Types'
    BY Zenon DEF Exit, LoopKept, Types
  <1>2. ASSUME NEW q \in Replica PROVE Control(q)'
    BY DEF Exit, Types, Control, Working, LeaderGone, Stopping
  <1>3. ASSUME NEW q \in Replica PROVE Held(q)'
    BY DEF Exit, Held
  <1>4. ASSUME NEW q \in Replica PROVE Beating(q)'
    BY DEF Exit, LoopKept, Beating, Looping, Control, Working
  <1> QED
    BY <1>1, <1>2, <1>3, <1>4, Zenon

\* A cycle whose load failed.
LEMMA PollFailsKeeps ==
    ASSUME IInv, NEW p \in Replica, PollFails(p)
    PROVE  IInv'
  <1> USE ReplicasAssumption DEF IInv
  <1>1. Types'
    BY DEF PollFails, EndCycle, Types, Looping
  <1>2. ASSUME NEW q \in Replica PROVE Control(q)'
    BY Zenon DEF PollFails, EndCycle, Types, Control, Working, LeaderGone, Stopping
  <1>3. ASSUME NEW q \in Replica PROVE Held(q)'
    BY Zenon DEF PollFails, Held
  <1>4. ASSUME NEW q \in Replica PROVE Beating(q)'
    BY DEF PollFails, EndCycle, Types, Beating, Looping, Inactive
  <1> QED
    BY <1>1, <1>2, <1>3, <1>4, Zenon

\* A cycle whose audits are over.
LEMMA FinishAuditsKeeps ==
    ASSUME IInv, NEW p \in Replica, FinishAudits(p)
    PROVE  IInv'
  <1> USE ReplicasAssumption DEF IInv
  <1>0. Delay(p) \in Nat /\ Delay(p) <= Resync
    BY DelayBounded, Zenon
  <1>1. Types'
    BY <1>0 DEF FinishAudits, EndCycle, Types, Looping
  <1>2. ASSUME NEW q \in Replica PROVE Control(q)'
    BY Zenon DEF FinishAudits, EndCycle, Types, Control, Working, LeaderGone, Stopping
  <1>3. ASSUME NEW q \in Replica PROVE Held(q)'
    BY Zenon DEF FinishAudits, Held
  <1>4. ASSUME NEW q \in Replica PROVE Beating(q)'
    BY <1>0 DEF FinishAudits, EndCycle, Types, Beating, Looping, Inactive
  <1> QED
    BY <1>1, <1>2, <1>3, <1>4, Zenon

\* The timer ends the sleep.
LEMMA WakeKeeps ==
    ASSUME IInv, NEW p \in Replica, Wake(p)
    PROVE  IInv'
  <1> USE ReplicasAssumption DEF IInv
  <1>1. Types'
    BY Zenon DEF Wake, Types, Looping
  <1>2. ASSUME NEW q \in Replica PROVE Control(q)'
    BY Zenon DEF Wake, Types, Control, Working, LeaderGone, Stopping
  <1>3. ASSUME NEW q \in Replica PROVE Held(q)'
    BY Zenon DEF Wake, Held
  <1>4. ASSUME NEW q \in Replica PROVE Beating(q)'
    BY DEF Wake, Types, Beating, Looping
  <1> QED
    BY <1>1, <1>2, <1>3, <1>4, Zenon

\* The loop ends with its context.
LEMMA StopLoopKeeps ==
    ASSUME IInv, NEW p \in Replica, StopLoop(p)
    PROVE  IInv'
  <1> USE ReplicasAssumption DEF IInv
  <1>1. Types'
    BY DEF StopLoop, Return, Outcome, CancelElect, LoopOver, NoSchedule, Types, Contexts,
       Inactive
  <1>2. ASSUME NEW q \in Replica PROVE Control(q)'
    BY DEF StopLoop, Return, Outcome, CancelElect, WorkGone, LeaderGone, Stopping, Types,
       Control, Working, Looping
  <1>3. ASSUME NEW q \in Replica PROVE Held(q)'
    <2>1. CancelElect(p) \/ gone' = gone
      BY Zenon DEF StopLoop, Return
    <2> QED
      BY <2>1, CancelElectGrows, HeldKept, Zenon DEF StopLoop
  <1>4. ASSUME NEW q \in Replica PROVE Beating(q)'
    BY Zenon DEF StopLoop, Return, Outcome, LoopOver, Types, Beating, Looping
  <1> QED
    BY <1>1, <1>2, <1>3, <1>4, Zenon

\* SIGTERM.
LEMMA SignalKeeps ==
    ASSUME IInv, NEW p \in Replica, Signal(p)
    PROVE  IInv'
  <1> USE ReplicasAssumption DEF IInv
  <1>1. Types'
    BY Zenon DEF Signal, LoopKept, Types, Contexts
  <1>2. ASSUME NEW q \in Replica PROVE Control(q)'
    BY DEF Signal, Stopping, Control, Working, LeaderGone
  <1>3. ASSUME NEW q \in Replica PROVE Held(q)'
    <2>1. gone[q] \subseteq gone'[q]
      BY DEF Signal, Types
    <2> QED
      BY <2>1, HeldKept, Zenon DEF Signal
  <1>4. ASSUME NEW q \in Replica PROVE Beating(q)'
    BY Zenon DEF Signal, LoopKept, Beating
  <1> QED
    BY <1>1, <1>2, <1>3, <1>4, Zenon

\* The process dies.
LEMMA DeadKeeps ==
    ASSUME IInv, NEW p \in Replica, Dead(p)
    PROVE  IInv'
  <1> USE ReplicasAssumption DEF IInv
  <1>1. Types'
    BY DEF Dead, LoopOver, NoSchedule, Types, Inactive
  <1>2. ASSUME NEW q \in Replica PROVE Control(q)'
    BY DEF Dead, Types, Control, Working, LeaderGone, Stopping
  <1>3. ASSUME NEW q \in Replica PROVE Held(q)'
    <2>1. CASE q = p
      BY <2>1, Zenon DEF Dead, Types, Held
    <2>2. CASE q # p
      <3>1. lease' = lease /\ main'[q] = main[q] /\ gone'[q] = gone[q]
        BY <2>2, Zenon DEF Dead, Types
      <3> QED
        BY <3>1, Zenon DEF Held
    <2> QED
      BY <2>1, <2>2, Zenon
  <1>4. ASSUME NEW q \in Replica PROVE Beating(q)'
    BY ZenonT(60) DEF Dead, LoopOver, Types, Beating, Looping
  <1> QED
    BY <1>1, <1>2, <1>3, <1>4, Zenon

\* The container is started again.
LEMMA RestartKeeps ==
    ASSUME IInv, NEW p \in Replica, Restart(p)
    PROVE  IInv'
  <1> USE ReplicasAssumption DEF IInv
  <1>1. Types'
    BY DEF Restart, LoopKept, Types
  <1>2. ASSUME NEW q \in Replica PROVE Control(q)'
    BY DEF Restart, Control, Working, LeaderGone, Stopping
  <1>3. ASSUME NEW q \in Replica PROVE Held(q)'
    BY DEF Restart, Held
  <1>4. ASSUME NEW q \in Replica PROVE Beating(q)'
    BY Zenon DEF Restart, LoopKept, Beating
  <1> QED
    BY <1>1, <1>2, <1>3, <1>4, Zenon

\* An audit hangs.
LEMMA GetStuckKeeps ==
    ASSUME IInv, NEW p \in Replica, GetStuck(p)
    PROVE  IInv'
  <1> USE ReplicasAssumption DEF IInv
  <1>1. Types'
    BY Zenon DEF GetStuck, Types
  <1>2. ASSUME NEW q \in Replica PROVE Control(q)'
    BY Zenon DEF GetStuck, Control, Working, LeaderGone, Stopping
  <1>3. ASSUME NEW q \in Replica PROVE Held(q)'
    BY Zenon DEF GetStuck, Held
  <1>4. ASSUME NEW q \in Replica PROVE Beating(q)'
    BY Zenon DEF GetStuck, Beating
  <1> QED
    BY <1>1, <1>2, <1>3, <1>4, Zenon

\* The cycle selects its targets; deadlines stay times or none.
LEMMA PollKeeps ==
    ASSUME IInv, NEW p \in Replica, NEW present \in SUBSET Target,
           NEW replaced \in SUBSET present, Poll(p, present, replaced)
    PROVE  IInv'
  <1> USE ReplicasAssumption DEF IInv
  <1>1. Deadlines(p, present, Due(p, present, replaced)) \in [Target -> Nat \cup {NoDeadline}]
    <2>1. \A t \in Target : Cadence(t) \in Nat
      BY Zenon DEF Cadence
    <2> QED
      BY <2>1 DEF Deadlines, Types
  <1>2. Types'
    BY <1>1, Zenon DEF Poll, Types, Looping
  <1>3. ASSUME NEW q \in Replica PROVE Control(q)'
    BY ZenonT(60) DEF Poll, Types, Control, Working, LeaderGone, Stopping
  <1>4. ASSUME NEW q \in Replica PROVE Held(q)'
    BY Zenon DEF Poll, Held
  <1>5. ASSUME NEW q \in Replica PROVE Beating(q)'
    BY DEF Poll, Types, Beating, Looping
  <1> QED
    BY <1>2, <1>3, <1>4, <1>5, Zenon

\* Time passes: a replica that holds the Lease has renewed it in time, and the
\* age of a heartbeat grows by what is taken off the sleep or added to the audits.
LEMMA TickKeeps ==
    ASSUME IInv, Tick
    PROVE  IInv'
  <1> USE ReplicasAssumption DEF IInv
  <1>1. lease' \in [holder : Replica \cup {None}, age : 0 .. LeaseDuration]
    <2>1. lease.age \in 0 .. LeaseDuration /\ 0 \in 0 .. LeaseDuration
      BY DEF Types
    <2>2. Capped(lease.age, LeaseDuration) \in 0 .. LeaseDuration
      BY <2>1 DEF Capped
    <2> QED
      BY <2>1, <2>2, Zenon DEF Tick, Types
  <1>2. next' \in [Replica -> [Target -> Nat \cup {NoDeadline}]]
    <2>1. \A n \in Nat \cup {NoDeadline} : Elapse(n) \in Nat \cup {NoDeadline}
      BY DEF Elapse
    <2> QED
      BY <2>1 DEF Tick, Types
  <1>3. ASSUME NEW q \in Replica
        PROVE  /\ clock'[q] \in Nat
               /\ work[q] = "sleep" => clock[q] > 0 /\ clock'[q] = clock[q] - 1
               /\ work[q] = "audit" /\ q \notin stuck => clock'[q] = clock[q] + 1
    <2>1. clock[q] \in Nat /\ Prompt(q)
      BY Zenon DEF Tick, Types
    <2>2. clock'[q] = CASE work[q] = "sleep" -> Elapse(clock[q])
                        [] work[q] = "audit" -> Capped(clock[q], MaxCycle)
                        [] OTHER -> clock[q]
      BY Zenon DEF Tick
    <2>3. CASE work[q] = "sleep"
      BY <2>1, <2>2, <2>3 DEF Prompt, Elapse
    <2>4. CASE work[q] = "audit"
      BY <2>1, <2>2, <2>4 DEF Prompt, Capped
    <2>5. CASE work[q] \notin {"sleep", "audit"}
      BY <2>1, <2>2, <2>5, Zenon
    <2> QED
      BY <2>3, <2>4, <2>5, Zenon
  <1>4. ASSUME NEW q \in Replica
        PROVE  /\ beat'[q] \in -1 .. Window + 1
               /\ beat[q] = Inactive => beat'[q] = Inactive
               /\ beat[q] >= 0 => beat'[q] >= 0 /\ beat'[q] <= beat[q] + 1
    BY DEF Tick, Types, Capped
  <1>5. Types'
    <2>1. clock' \in [Replica -> Nat] /\ beat' \in [Replica -> -1 .. Window + 1]
      BY <1>3, <1>4, Zenon DEF Tick
    <2> QED
      BY <1>1, <1>2, <2>1, Zenon DEF Tick, Types
  <1>6. ASSUME NEW q \in Replica PROVE Control(q)'
    BY Zenon DEF Tick, Control, Working, LeaderGone, Stopping
  <1>7. ASSUME NEW q \in Replica PROVE Held(q)'
    BY DEF Tick, Prompt, Types, Held, Capped
  <1>8. ASSUME NEW q \in Replica PROVE Beating(q)'
    <2>1. /\ Beating(q) /\ work'[q] = work[q] /\ stuck' = stuck
          /\ work[q] # "poll" /\ clock[q] \in Nat /\ beat[q] \in -1 .. Window + 1
          /\ work[q] = "audit" /\ q \notin stuck => clock[q] < MaxCycle
      BY Zenon DEF Tick, Prompt, Types
    <2> QED
      BY <1>3, <1>4, <2>1 DEF Beating
  <1> QED
    BY <1>5, <1>6, <1>7, <1>8, Zenon

\* The invariant is inductive.
LEMMA InvariantInductive == IInv /\ [Next]_vars => IInv'
  <1> SUFFICES ASSUME IInv, [Next]_vars PROVE IInv'
    OBVIOUS
  <1>1. ASSUME NEW p \in Replica, Main(p) PROVE IInv'
    BY <1>1, AcquireKeeps, RenewKeeps, ElectorCanceledKeeps, ReleaseKeeps, ElectorReturnsKeeps,
       CloseKeeps, JoinKeeps, ExitKeeps, RestartKeeps, Zenon DEF Main
  <1>2. ASSUME NEW p \in Replica, Callback(p) PROVE IInv'
    BY <1>2, AdmitKeeps, StartLoopKeeps, PollKeeps, PollFailsKeeps, FinishAuditsKeeps,
       WakeKeeps, StopLoopKeeps, Zenon DEF Callback
  <1>3. ASSUME NEW p \in Replica, AfterStop(p) PROVE IInv'
    BY <1>3, StopWaitingKeeps, CancelWorkKeeps, Zenon DEF AfterStop
  <1>4. ASSUME NEW p \in Replica, Cluster(p) PROVE IInv'
    BY <1>4, GiveUpKeeps, SignalKeeps, DeadKeeps, GetStuckKeeps, ZenonT(60)
    DEF Cluster, Kill, Crash
  <1>5. CASE UNCHANGED vars
    BY <1>5 DEF vars, IInv, Types, Control, Held, Beating, Working, LeaderGone, Stopping
  <1> QED
    BY <1>1, <1>2, <1>3, <1>4, <1>5, TickKeeps, Zenon DEF Next

\* The invariant holds of every run of the replicas.
THEOREM ReplicasInvariant == Spec => []IInv
  <1>1. Init => IInv
    BY ReplicasAssumption DEF Init, IInv, Types, Control, Held, Beating, Looping, NoSchedule,
       Inactive
  <1> QED
    BY <1>1, InvariantInductive, PTL DEF Spec

-----------------------------------------------------------------------------
\* Only Release frees a Lease, and only one in the name of its own pod.
LEMMA ReleaseFrees ==
    ASSUME IInv, Next, lease.holder # None, lease'.holder = None
    PROVE  \E q \in Replica : Release(q)
  <1>1. ASSUME NEW p \in Replica, Main(p) PROVE Release(p)
    <2>1. ASSUME Acquire(p) PROVE lease'.holder # None
      BY <2>1, ReplicasAssumption DEF Acquire
    <2>2. ASSUME Renew(p) PROVE lease'.holder = lease.holder
      BY <2>2 DEF Renew, IInv, Types
    <2>3. ASSUME \/ ElectorCanceled(p) \/ ElectorReturns(p) \/ Close(p) \/ Join(p)
                 \/ Exit(p) \/ Restart(p)
          PROVE  lease' = lease
      BY <2>3, Zenon DEF ElectorCanceled, ElectorReturns, Close, Join, Exit, Restart
    <2> QED
      BY <1>1, <2>1, <2>2, <2>3, Zenon DEF Main
  <1>2. ASSUME NEW p \in Replica, Callback(p) PROVE lease' = lease
    BY <1>2, Zenon
    DEF Callback, Admit, StartLoop, Poll, PollFails, FinishAudits, Wake, StopLoop
  <1>3. ASSUME NEW p \in Replica, AfterStop(p) PROVE lease' = lease
    BY <1>3, Zenon DEF AfterStop, StopWaiting, CancelWork
  <1>4. ASSUME NEW p \in Replica, Cluster(p) PROVE lease' = lease
    BY <1>4, Zenon DEF Cluster, GiveUp, Signal, Kill, Crash, Dead, GetStuck
  <1>5. ASSUME Tick PROVE lease'.holder = lease.holder
    BY <1>5 DEF Tick, IInv, Types
  <1> QED
    BY <1>1, <1>2, <1>3, <1>4, <1>5, Zenon DEF Next

\* A Lease given back with work under way is one that could not be renewed by
\* the deadline, for any number of replicas and in every order of the signal, the
\* callback and the elector (runWithLeaderElection, runAsLeader).
THEOREM LeaseReleasedAfterWork == Spec => ReleasedAfterWork
  <1>1. IInv /\ [Next]_vars => [ReleaseStep]_vars
    <2> SUFFICES ASSUME IInv, Next, NEW p \in Replica, lease.holder = p,
                        lease'.holder = None, Working(p)
                 PROVE  lease.age >= RenewDeadline
      BY Zenon DEF ReleaseStep
    <2>1. lease.holder # None
      BY ReplicasAssumption, Zenon
    <2>2. PICK q \in Replica : Release(q)
      BY <2>1, ReleaseFrees, Zenon
    <2>3. main[p] = "releasing"
      BY <2>2, Zenon DEF Release
    <2> QED
      BY <2>3, Zenon DEF IInv, Held, Control
  <1> QED
    BY <1>1, ReplicasInvariant, PTL DEF Spec, ReleasedAfterWork

\* Of any number of replicas that work on contexts that are not cancelled, the
\* elector of all but one has given up and not yet returned: the one whose
\* elector has not holds the Lease, which is held once (runAsLeader,
\* runWithLeaderElection).
THEOREM AtMostOneReplicaWorks == Spec => []OneWorkingReplica
  <1>1. IInv => OneWorkingReplica
    <2> SUFFICES ASSUME IInv, NEW p \in Replica, Writing(p), ~HandingOver(p)
                 PROVE  lease.holder = p
      BY Zenon DEF OneWorkingReplica
    <2>1. main[p] = "holding"
      BY Zenon DEF IInv, Types, Control, Writing, WorkGone, Looping, HandingOver
    <2> QED
      BY <2>1, Zenon DEF IInv, Held
  <1> QED
    BY <1>1, ReplicasInvariant, PTL

\* A process leaves with its work joined, and successfully after having worked
\* only when it was told to stop (runWithLeaderElection).
THEOREM ProcessLeavesInOrder == Spec => []LeavesInOrder
  <1>1. IInv => LeavesInOrder
    BY DEF IInv, Control, Working, LeavesInOrder
  <1> QED
    BY <1>1, ReplicasInvariant, PTL

\* The liveness probe fails only a replica whose loop hangs, for every set of
\* targets and intervals and every window of at least the resync interval and
\* the longest cycle (Heartbeat.Healthy, AuditSchedule.Delay).
THEOREM ProbeFailsOnlyStuckLoops == Spec => []OnlyStuckLoopsFail
  <1>1. IInv => OnlyStuckLoopsFail
    BY ReplicasAssumption DEF IInv, Types, Beating, OnlyStuckLoopsFail, Healthy, Looping,
       Inactive
  <1> QED
    BY <1>1, ReplicasInvariant, PTL
=============================================================================
