-------------------------- MODULE ChangePlanProofs --------------------------
(***************************************************************************)
(* Proofs about ChangePlan, for any worlds, any retention and any number   *)
(* of plan objects and interrupted cycles.                                 *)
(*                                                                         *)
(* PlanInv has a part about the stored plans alone, which each kind of     *)
(* write preserves, and a part about where the cycle is.  The lemmas treat *)
(* the writes, the ends of cycles and then the actions, one by one.        *)
(***************************************************************************)
EXTENDS ChangePlan, TLAPS

USE DEF Uid, Hash, Terminal, Phases, Plan, Steps, Planned, Exists, Live

StoreInv ==
  /\ plans \in [Uid -> Plan \cup {NoPlan}]
  /\ last \in 0..MaxPlans
  /\ ended \subseteq Uid
  /\ OnlyNewestIsLive
  /\ EndedStaysEnded
  /\ \A u \in Uid : Exists(u) \/ u \in ended => u <= last

\* There are no plans at first.
LEMMA InitPlanInv == Init => PlanInv
  BY PlanAssumption DEF Init, PlanInv, TypeOK, OnlyNewestIsLive, EndedStaysEnded

\* The invariant contains what it says of the store.
LEMMA StoreOfPlanInv == PlanInv => StoreInv
  BY Zenon DEF PlanInv, TypeOK, StoreInv

\* Writing a phase to a plan that exists - any phase if it is live, otherwise a
\* terminal one - keeps the store in order and makes no plan live (updatePhase).
LEMMA PhaseWritten ==
  ASSUME StoreInv, NEW u \in Uid, Exists(u), NEW phase \in Phases,
         phase \in Terminal \/ Live(u), SetPhase(u, phase), last' = last
  PROVE  /\ StoreInv'
         /\ \A v \in Uid : Live(v)' => Live(v)
         /\ \A v \in Uid \ {u} : plans'[v] = plans[v]
         /\ plans'[u] = [plans[u] EXCEPT !.phase = phase]
         /\ plans'[u] \in Plan
<1>1. plans[u] \in Plan
  BY Zenon DEF StoreInv
<1>2. plans' = [plans EXCEPT ![u] = [plans[u] EXCEPT !.phase = phase]]
  BY Zenon DEF SetPhase, StoreInv
<1>3. /\ plans'[u] = [plans[u] EXCEPT !.phase = phase]
      /\ plans'[u] \in Plan
      /\ \A v \in Uid \ {u} : plans'[v] = plans[v]
      /\ plans' \in [Uid -> Plan \cup {NoPlan}]
  BY <1>1, <1>2, Zenon DEF StoreInv
<1>4. plans'[u].phase = phase
  BY <1>1, <1>3, Zenon
<1>5. \A v \in Uid : Live(v)' => Live(v)
  BY <1>3, <1>4, Zenon
<1>6. ended' \subseteq Uid /\ \A v \in Uid : Exists(v)' \/ v \in ended' => v <= last'
  BY <1>3, Zenon DEF SetPhase, StoreInv
<1>7. EndedStaysEnded'
  BY <1>4, <1>5, Zenon DEF SetPhase, StoreInv, EndedStaysEnded
<1>8. OnlyNewestIsLive'
  BY <1>5, Zenon DEF StoreInv, OnlyNewestIsLive
<1> QED
  BY <1>3, <1>5, <1>6, <1>7, <1>8, Zenon DEF StoreInv

\* The variables that neither the store nor the cycle needs an argument for.
Typed == world \in World /\ approvalRequired \in BOOLEAN /\ aborts \in 0..MaxAborts

\* A cycle may end in any step that leaves the store in order (Stop).
LEMMA CycleEnds ==
  ASSUME StoreInv', Typed', Stop
  PROVE  PlanInv'
<1>1. TypeOK'
  <2>1. /\ pc' \in Steps /\ audit' \in World /\ checked' \in World /\ outcome' \in Terminal
        /\ todo' \subseteq Uid /\ view' \in Plan \cup {NoPlan}
    BY PlanAssumption, Zenon DEF Stop
  <2>2. plan' \in 0..MaxPlans
    BY PlanAssumption DEF Stop
  <2> QED
    BY <2>1, <2>2, Zenon DEF StoreInv, Typed, TypeOK
<1>2. pc' = "idle"
  BY Zenon DEF Stop
<1> QED
  BY <1>1, <1>2, Zenon DEF StoreInv, PlanInv

\* A cycle goes on with the plan it has, if that stays live under its hash unless
\* it is gone.
LEMMA CycleContinues ==
  ASSUME StoreInv', Typed', PlanInv, pc \in Planned, pc' \in Planned, last' = last,
         UNCHANGED <<audit, plan, todo, outcome, checked>>, view' \in Plan \cup {NoPlan},
         pc' # "begin", plan \notin ended',
         Exists(plan)' => Live(plan)' /\ Exists(plan) /\ plans'[plan].hash = plans[plan].hash
  PROVE  PlanInv'
<1>1. TypeOK'
  BY Zenon DEF StoreInv, Typed, PlanInv, TypeOK
<1>2. /\ plan' = last'
      /\ plan' \in Uid
      /\ plan' \notin ended'
      /\ Exists(plan)' => Live(plan)' /\ plans'[plan'].hash = audit'
  BY Zenon DEF PlanInv
<1>3. audit' \in Hash
  BY Zenon DEF PlanInv
<1> QED
  BY <1>1, <1>2, <1>3, Zenon DEF StoreInv, PlanInv

\* Nothing is written and the approval mode stays.
LEMMA StoreUnwritten ==
  ASSUME PlanInv, Unwritten, last' = last
  PROVE  StoreInv'
  BY Zenon DEF PlanInv, TypeOK, Unwritten, StoreInv, OnlyNewestIsLive, EndedStaysEnded

\* Rest keeps the types of what it names.
LEMMA RestTyped == PlanInv /\ Rest => Typed'
  BY Zenon DEF PlanInv, TypeOK, Rest, Typed

\* A cycle that has a plan goes on without a write.
LEMMA PlanKept ==
  ASSUME PlanInv, Unwritten, last' = last, Typed', pc \in Planned, pc' \in Planned,
         UNCHANGED <<audit, plan, view, todo>>, outcome' \in Terminal, checked' \in World,
         pc' = "begin" => checked' = audit
  PROVE  PlanInv'
<1>1. StoreInv'
  BY StoreUnwritten, Zenon
<1>2. TypeOK'
  BY <1>1, ZenonT(60) DEF PlanInv, TypeOK, StoreInv, Typed
<1>3. /\ plan' = last' /\ plan' \in Uid /\ plan' \notin ended' /\ audit' \in Hash
      /\ Exists(plan)' => Live(plan)' /\ plans'[plan'].hash = audit'
  BY Zenon DEF PlanInv, Unwritten
<1> QED
  BY <1>1, <1>2, <1>3, Zenon DEF PlanInv, StoreInv

\* All live plans are to be made stale.
LEMMA StalingBegins ==
  ASSUME PlanInv, Unwritten, Rest, UNCHANGED <<audit, plan, view, outcome, checked>>,
         pc' = "staling", todo' \subseteq Uid, \A u \in Uid : Live(u) => u \in todo'
  PROVE  PlanInv'
<1>1. StoreInv' /\ Typed'
  BY StoreUnwritten, RestTyped, Zenon DEF Rest
<1>2. TypeOK'
  BY <1>1, Zenon DEF PlanInv, TypeOK, StoreInv, Typed
<1>3. \A u \in Uid : Live(u)' => u \in todo'
  BY Zenon DEF Unwritten
<1> QED
  BY <1>1, <1>2, <1>3, Zenon DEF PlanInv, StoreInv

\* The audit of a cycle with something to do is a hash (Prepare).
LEMMA PrepareKeeps == PlanInv /\ Prepare => PlanInv'
<1> SUFFICES ASSUME PlanInv, Prepare PROVE PlanInv'
  OBVIOUS
<1>1. StoreInv' /\ Typed'
  BY StoreUnwritten, RestTyped, Zenon DEF Prepare, Rest
<1>2. pc' \in {"supersede", "persist"} /\ (pc' = "persist" => audit' \in Hash)
  BY Zenon DEF Prepare, PlanInv, TypeOK
<1>3. TypeOK'
  BY <1>1, <1>2, ZenonT(60) DEF Prepare, PlanInv, TypeOK, StoreInv, Typed
<1> QED
  BY <1>1, <1>2, <1>3, Zenon DEF PlanInv, StoreInv

\* All live plans are to be made stale (SupersedeAll).
LEMMA SupersedeAllKeeps == PlanInv /\ SupersedeAll => PlanInv'
  BY StalingBegins, Zenon DEF SupersedeAll

\* The live plan with the hash of the cycle is the newest (PersistReuse).
LEMMA PersistReuseKeeps == PlanInv /\ PersistReuse => PlanInv'
<1> SUFFICES ASSUME PlanInv, PersistReuse PROVE PlanInv'
  OBVIOUS
<1>1. StoreInv' /\ Typed' /\ last' = last
  BY StoreUnwritten, RestTyped, Zenon DEF PersistReuse, Rest
<1>2. PICK u \in Uid : Live(u) /\ plans[u].hash = audit /\ plan' = u /\ view' = plans[u]
  BY Zenon DEF PersistReuse
<1>3. u = last /\ u \notin ended
  BY <1>2, Zenon DEF PlanInv, OnlyNewestIsLive, EndedStaysEnded
<1>4. /\ pc' = "require" /\ plans' = plans /\ ended' = ended
      /\ audit' = audit /\ todo' = todo /\ outcome' = outcome /\ checked' = checked
  BY Zenon DEF PersistReuse, Unwritten
<1>5. plan' \in 0..MaxPlans /\ view' \in Plan \cup {NoPlan}
  BY <1>2, <1>3, Zenon DEF PlanInv, TypeOK
<1>6. TypeOK'
  BY <1>1, <1>4, <1>5, Zenon DEF PlanInv, TypeOK, StoreInv, Typed
<1>7. audit' \in Hash
  BY <1>4, Zenon DEF PlanInv, PersistReuse
<1> QED
  BY <1>1, <1>2, <1>3, <1>4, <1>6, <1>7, Zenon DEF PlanInv, StoreInv

\* No live plan has the hash, so all of them are to be made stale (PersistSupersede).
LEMMA PersistSupersedeKeeps == PlanInv /\ PersistSupersede => PlanInv'
  BY StalingBegins, Zenon DEF PersistSupersede

\* The second Prepare is remembered (Revalidate).
LEMMA RevalidateKeeps == PlanInv /\ Revalidate => PlanInv'
<1> SUFFICES ASSUME PlanInv, Revalidate PROVE PlanInv'
  OBVIOUS
<1>1. Typed' /\ checked' \in World /\ outcome' \in Terminal
  BY RestTyped, Zenon DEF Revalidate, PlanInv, TypeOK
<1> QED
  BY <1>1, PlanKept, Zenon DEF Revalidate, Rest

\* The plan will be made stale (RevalidateFails).
LEMMA RevalidateFailsKeeps == PlanInv /\ RevalidateFails => PlanInv'
<1> SUFFICES ASSUME PlanInv, RevalidateFails PROVE PlanInv'
  OBVIOUS
<1>1. Typed' /\ checked' \in World /\ outcome' \in Terminal
  BY RestTyped, Zenon DEF RevalidateFails, Continue, PlanInv, TypeOK
<1> QED
  BY <1>1, PlanKept, Zenon DEF RevalidateFails, Continue, Rest

\* The plan is kept or will be made stale (BeforeMutation).
LEMMA BeforeMutationKeeps == PlanInv /\ BeforeMutation => PlanInv'
<1> SUFFICES ASSUME PlanInv, BeforeMutation PROVE PlanInv'
  OBVIOUS
<1>1. Typed' /\ checked' \in World /\ outcome' \in Terminal
  BY RestTyped, Zenon DEF BeforeMutation, Continue, PlanInv, TypeOK
<1> QED
  BY <1>1, PlanKept, Zenon DEF BeforeMutation, Continue, Rest

\* The requests change the world only (Apply).
LEMMA ApplyKeeps == PlanInv /\ Apply => PlanInv'
<1> SUFFICES ASSUME PlanInv, Apply PROVE PlanInv'
  OBVIOUS
<1>1. Typed' /\ checked' \in World /\ outcome' \in Terminal
  BY Zenon DEF Apply, Outcomes, PlanInv, TypeOK, Typed
<1> QED
  BY <1>1, PlanKept, Zenon DEF Apply

\* One plan less is live and to be made stale, or the cycle ends (StaleNext).
LEMMA StaleNextKeeps == PlanInv /\ StaleNext => PlanInv'
<1> SUFFICES ASSUME PlanInv, StaleNext PROVE PlanInv'
  OBVIOUS
<1>1. StoreInv /\ Typed' /\ last' = last
  BY StoreOfPlanInv, RestTyped, Zenon DEF StaleNext, Rest
<1>2. PICK u \in todo :
        IF Exists(u)
        THEN /\ SetPhase(u, "Stale")
             /\ todo' = todo \ {u}
             /\ UNCHANGED <<pc, audit, plan, view, outcome, checked>>
        ELSE Stop /\ Unwritten
  BY Zenon DEF StaleNext
<1>3. u \in Uid /\ pc = "staling"
  BY Zenon DEF PlanInv, TypeOK, StaleNext
<1>4. CASE Exists(u)
  <2>1. SetPhase(u, "Stale")
    BY <1>2, <1>4, Zenon
  <2>2. /\ StoreInv'
        /\ \A v \in Uid : Live(v)' => Live(v)
        /\ plans'[u] = [plans[u] EXCEPT !.phase = "Stale"]
    BY <1>1, <1>3, <1>4, <2>1, PhaseWritten, Zenon
  <2>3. ~Live(u)'
    BY <1>1, <1>3, <1>4, <2>2, ZenonT(60) DEF StoreInv
  <2>4. \A v \in Uid : Live(v)' => v \in todo'
    BY <1>2, <1>3, <1>4, <2>2, <2>3, Zenon DEF PlanInv
  <2>5. pc' = "staling" /\ TypeOK'
    BY <1>1, <1>2, <1>3, <1>4, <2>2, ZenonT(60) DEF PlanInv, TypeOK, StoreInv, Typed
  <2> QED
    BY <2>2, <2>4, <2>5, Zenon DEF PlanInv, StoreInv
<1>5. CASE ~Exists(u)
  BY <1>1, <1>2, <1>5, StoreUnwritten, CycleEnds, Zenon
<1> QED
  BY <1>4, <1>5, Zenon

\* With nothing left to be made stale no plan is live (StaleDone).
LEMMA StaleDoneKeeps == PlanInv /\ StaleDone => PlanInv'
<1> SUFFICES ASSUME PlanInv, StaleDone PROVE PlanInv'
  OBVIOUS
<1>1. StoreInv' /\ Typed'
  BY StoreUnwritten, RestTyped, Zenon DEF StaleDone, Rest
<1>2. CASE audit = Quiet
  BY <1>1, <1>2, CycleEnds, Zenon DEF StaleDone
<1>3. CASE audit # Quiet
  <2>1. Continue("create") /\ Unwritten
    BY <1>3, Zenon DEF StaleDone
  <2>2. TypeOK'
    BY <1>1, <2>1, ZenonT(60) DEF Continue, PlanInv, TypeOK, StoreInv, Typed
  <2>3. audit' \in Hash /\ pc' = "create"
    BY <1>3, <2>1, Zenon DEF Continue, PlanInv, TypeOK
  <2>4. \A u \in Uid : ~Live(u)'
    BY <2>1, Zenon DEF StaleDone, Unwritten, PlanInv
  <2> QED
    BY <1>1, <2>2, <2>3, <2>4, Zenon DEF PlanInv, StoreInv
<1> QED
  BY <1>2, <1>3, Zenon

\* The new plan is the newest, and the only live one (CreatePlan).
LEMMA CreatePlanKeeps == PlanInv /\ CreatePlan => PlanInv'
<1> SUFFICES ASSUME PlanInv, CreatePlan PROVE PlanInv'
  OBVIOUS
<1> DEFINE new == [hash |-> audit, phase |-> "", approval |-> NoHash]
<1>1. /\ last' = last + 1 /\ plan' = last' /\ pc' = "pend" /\ ended' = ended
      /\ audit' = audit
  BY Zenon DEF CreatePlan
<1>2. last \in 0..MaxPlans /\ last < MaxPlans /\ ended \subseteq Uid
  BY Zenon DEF CreatePlan, PlanInv, TypeOK
<1>3. last \in Nat /\ last + 1 \in Uid /\ last + 1 \in 0..MaxPlans /\ ~(last + 1 <= last)
  BY <1>2, PlanAssumption
<1>4. new \in Plan
  BY Zenon DEF PlanInv, CreatePlan
<1>5. /\ plans' \in [Uid -> Plan \cup {NoPlan}]
      /\ plans'[last + 1] = new
      /\ \A u \in Uid \ {last + 1} : plans'[u] = plans[u]
  BY <1>3, <1>4, Zenon DEF CreatePlan, PlanInv, TypeOK
<1>6. \A u \in Uid : Live(u)' => u = last'
  BY <1>1, <1>5, Zenon DEF CreatePlan, PlanInv
<1>7. last + 1 \notin ended
  BY <1>3, Zenon DEF PlanInv
<1>8. EndedStaysEnded'
  BY <1>1, <1>2, <1>5, <1>7, Zenon DEF PlanInv, EndedStaysEnded
<1>9. \A u \in Uid : Exists(u)' \/ u \in ended' => u <= last'
  <2> TAKE u \in Uid
  <2>1. CASE u = last + 1
    BY <2>1, <1>1, <1>3
  <2>2. CASE u # last + 1
    <3>1. Exists(u)' \/ u \in ended' => u <= last
      BY <2>2, <1>1, <1>5, Zenon DEF PlanInv
    <3>2. u <= last => u <= last + 1
      BY <1>3
    <3> QED
      BY <1>1, <3>1, <3>2, Zenon
  <2> QED
    BY <2>1, <2>2, Zenon
<1>10. TypeOK'
  <2>1. last' \in 0..MaxPlans /\ plan' \in 0..MaxPlans /\ pc' \in Steps
    BY <1>1, <1>3, Zenon
  <2> QED
    BY <2>1, <1>5, ZenonT(60) DEF CreatePlan, PlanInv, TypeOK
<1>11. plan' \in Uid /\ (Exists(plan)' => Live(plan)' /\ plans'[plan'].hash = audit')
  <2>1. plan' = last + 1 /\ plans'[plan'] = new /\ audit' = audit
    BY <1>1, <1>5, Zenon
  <2>2. new.phase = "" /\ new.hash = audit
    OBVIOUS
  <2> HIDE DEF new
  <2> QED
    BY <1>3, <2>1, <2>2, Zenon
<1> QED
  BY <1>1, <1>6, <1>7, <1>8, <1>9, <1>10, <1>11, ZenonT(60)
  DEF PlanInv, OnlyNewestIsLive, CreatePlan

\* Any phase may be written to the plan of a cycle; if it is not a terminal one
\* the plan stays as CycleContinues needs it.
LEMMA PlanPhaseWritten ==
  ASSUME PlanInv, pc \in Planned, Exists(plan), NEW phase \in Phases, SetPhase(plan, phase),
         last' = last
  PROVE  /\ StoreInv'
         /\ plans'[plan] \in Plan
         /\ phase \notin Terminal =>
              /\ plan \notin ended'
              /\ UNCHANGED plan => (Exists(plan)' => /\ Live(plan)'
                                                    /\ plans'[plan].hash = plans[plan].hash)
<1>1. plan \in Uid /\ Live(plan) /\ plan \notin ended /\ plans[plan] \in Plan
  BY Zenon DEF PlanInv, TypeOK
<1>2. /\ StoreInv'
      /\ plans'[plan] = [plans[plan] EXCEPT !.phase = phase]
      /\ plans'[plan] \in Plan
  BY <1>1, StoreOfPlanInv, PhaseWritten, Zenon
<1>3. plans'[plan].phase = phase /\ plans'[plan].hash = plans[plan].hash
  BY <1>1, <1>2, Zenon
<1>4. phase \notin Terminal => ended' = ended
  BY Zenon DEF SetPhase
<1> QED
  BY <1>1, <1>2, <1>3, <1>4, Zenon

\* The new plan gets its first phase, or was deleted (MarkPending).
LEMMA MarkPendingKeeps == PlanInv /\ MarkPending => PlanInv'
<1> SUFFICES ASSUME PlanInv, MarkPending PROVE PlanInv'
  OBVIOUS
<1>1. Typed' /\ last' = last /\ pc \in Planned
  BY RestTyped, Zenon DEF MarkPending, Rest
<1>2. CASE Exists(plan)
  <2>1. /\ SetPhase(plan, "PendingApproval") /\ view' = plans'[plan] /\ pc' = "prune"
        /\ UNCHANGED <<audit, plan, todo, outcome, checked>>
    BY <1>2, Zenon DEF MarkPending
  <2>2. "PendingApproval" \in Phases \ Terminal /\ SetPhase(plan, "PendingApproval")
    BY <1>2, <2>1, Zenon
  <2>3. /\ StoreInv' /\ plans'[plan] \in Plan /\ plan \notin ended'
        /\ Exists(plan)' => Live(plan)' /\ plans'[plan].hash = plans[plan].hash
    BY <1>1, <1>2, <2>1, <2>2, PlanPhaseWritten, Zenon
  <2> QED
    BY <1>1, <1>2, <2>1, <2>3, CycleContinues, Zenon
<1>3. CASE ~Exists(plan)
  BY <1>1, <1>3, StoreUnwritten, CycleEnds, Zenon DEF MarkPending
<1> QED
  BY <1>2, <1>3, Zenon

\* Live plans are not pruned, and pruning makes none live (Prune).
LEMMA PruneKeeps == PlanInv /\ Prune => PlanInv'
<1> SUFFICES ASSUME PlanInv, Prune PROVE PlanInv'
  OBVIOUS
<1>1. /\ Typed' /\ last' = last /\ ended' = ended /\ pc \in Planned /\ pc' = "require"
      /\ UNCHANGED <<audit, plan, view, todo, outcome, checked>>
  BY RestTyped, Zenon DEF Prune, Rest, Continue
<1>2. \A u \in Prunable : u \in Uid /\ ~Live(u)
  BY Zenon DEF Prunable
<1>3. plans' = [u \in Uid |-> IF u \in Prunable THEN NoPlan ELSE plans[u]]
  BY Zenon DEF Prune
<1>4. plans' \in [Uid -> Plan \cup {NoPlan}]
  BY <1>3, Zenon DEF PlanInv, TypeOK
<1>5. \A u \in Uid : plans'[u] = NoPlan \/ plans'[u] = plans[u]
  BY <1>3, Zenon
<1>6. StoreInv'
  BY <1>1, <1>4, <1>5, ZenonT(60) DEF PlanInv, TypeOK, StoreInv, OnlyNewestIsLive, EndedStaysEnded
<1>7. Exists(plan)' => Live(plan)' /\ Exists(plan) /\ plans'[plan].hash = plans[plan].hash
  BY <1>1, <1>5, ZenonT(60) DEF PlanInv
<1>8. view' \in Plan \cup {NoPlan} /\ plan \notin ended'
  BY <1>1, Zenon DEF PlanInv, TypeOK
<1> QED
  BY <1>1, <1>6, <1>7, <1>8, CycleContinues, Zenon

\* The approval is only read (RequireExactApproval).
LEMMA RequireExactApprovalKeeps == PlanInv /\ RequireExactApproval => PlanInv'
<1> SUFFICES ASSUME PlanInv, RequireExactApproval PROVE PlanInv'
  OBVIOUS
<1>1. StoreInv' /\ Typed' /\ last' = last /\ pc \in Planned /\ UNCHANGED <<plans, ended>>
  BY StoreUnwritten, RestTyped, Zenon DEF RequireExactApproval, Rest, Unwritten
<1>2. CASE Stop
  BY <1>1, <1>2, CycleEnds, Zenon
<1>3. CASE Continue("mark") \/ Continue("revalidate")
  <2>1. /\ pc' \in Planned /\ pc' # "begin"
        /\ UNCHANGED <<audit, plan, view, todo, outcome, checked>>
    BY <1>3, Zenon DEF Continue
  <2>2. view' \in Plan \cup {NoPlan} /\ plan \notin ended'
    BY <1>1, <2>1, ZenonT(60) DEF PlanInv, TypeOK
  <2>3. Exists(plan)' => Live(plan)' /\ Exists(plan) /\ plans'[plan].hash = plans[plan].hash
    BY <1>1, <2>1, Zenon DEF PlanInv
  <2> QED
    BY <1>1, <2>1, <2>2, <2>3, CycleContinues, Zenon
<1> QED
  BY <1>2, <1>3, Zenon DEF RequireExactApproval

\* The approval is confirmed on the stored plan, or the cycle ends (MarkApproved).
LEMMA MarkApprovedKeeps == PlanInv /\ MarkApproved => PlanInv'
<1> SUFFICES ASSUME PlanInv, MarkApproved PROVE PlanInv'
  OBVIOUS
<1>1. Typed' /\ last' = last /\ pc \in Planned
  BY RestTyped, Zenon DEF MarkApproved, Rest
<1>2. CASE Exists(plan) /\ SetPhase(plan, "Approved") /\ Continue("revalidate")
  <2>1. /\ pc' = "revalidate"
        /\ UNCHANGED <<audit, plan, todo, outcome, checked>>
        /\ view' \in Plan \cup {NoPlan}
    BY <1>2, Zenon DEF Continue, PlanInv, TypeOK
  <2>2. "Approved" \in Phases \ Terminal /\ SetPhase(plan, "Approved")
    BY <1>2, <2>1, Zenon
  <2>3. /\ StoreInv' /\ plans'[plan] \in Plan /\ plan \notin ended'
        /\ Exists(plan)' => Live(plan)' /\ plans'[plan].hash = plans[plan].hash
    BY <1>1, <1>2, <2>1, <2>2, PlanPhaseWritten, Zenon
  <2> QED
    BY <1>1, <1>2, <2>1, <2>3, CycleContinues, Zenon
<1>3. CASE Unwritten /\ Stop
  BY <1>1, <1>3, StoreUnwritten, CycleEnds, Zenon
<1> QED
  BY <1>2, <1>3, Zenon DEF MarkApproved

\* The plan begins to be applied, or the cycle ends (BeginApply).
LEMMA BeginApplyKeeps == PlanInv /\ BeginApply => PlanInv'
<1> SUFFICES ASSUME PlanInv, BeginApply PROVE PlanInv'
  OBVIOUS
<1>1. Typed' /\ last' = last /\ pc \in Planned
  BY RestTyped, Zenon DEF BeginApply, Rest
<1>2. CASE Exists(plan) /\ SetPhase(plan, "Applying") /\ Continue("before")
  <2>1. /\ pc' = "before"
        /\ UNCHANGED <<audit, plan, todo, outcome, checked>>
        /\ view' \in Plan \cup {NoPlan}
    BY <1>2, Zenon DEF Continue, PlanInv, TypeOK
  <2>2. "Applying" \in Phases \ Terminal /\ SetPhase(plan, "Applying")
    BY <1>2, <2>1, Zenon
  <2>3. /\ StoreInv' /\ plans'[plan] \in Plan /\ plan \notin ended'
        /\ Exists(plan)' => Live(plan)' /\ plans'[plan].hash = plans[plan].hash
    BY <1>1, <1>2, <2>1, <2>2, PlanPhaseWritten, Zenon
  <2> QED
    BY <1>1, <1>2, <2>1, <2>3, CycleContinues, Zenon
<1>3. CASE Unwritten /\ Stop
  BY <1>1, <1>3, StoreUnwritten, CycleEnds, Zenon
<1> QED
  BY <1>2, <1>3, Zenon DEF BeginApply

\* The outcome is recorded and the cycle ends (writeTerminalPhase).
LEMMA WritePhaseKeeps ==
  ASSUME PlanInv, pc \in Planned, NEW phase \in Terminal, WritePhase(phase)
  PROVE  PlanInv'
<1>1. Typed' /\ last' = last /\ Stop /\ phase \in Phases
  BY RestTyped, Zenon DEF WritePhase, Rest
<1>2. StoreInv'
  <2>1. CASE Exists(plan)
    BY <1>1, <2>1, PlanPhaseWritten, Zenon DEF WritePhase
  <2>2. CASE ~Exists(plan)
    BY <1>1, <2>2, StoreUnwritten, Zenon DEF WritePhase
  <2> QED
    BY <2>1, <2>2, Zenon
<1> QED
  BY <1>1, <1>2, CycleEnds, Zenon

\* Finish and WriteStale are such ends.
LEMMA FinishKeeps == PlanInv /\ (Finish \/ WriteStale) => PlanInv'
<1> SUFFICES ASSUME PlanInv, Finish \/ WriteStale PROVE PlanInv'
  OBVIOUS
<1>1. pc \in Planned /\ outcome \in Terminal /\ "Stale" \in Terminal
  BY Zenon DEF PlanInv, TypeOK, Finish, WriteStale
<1>2. WritePhase(outcome) \/ WritePhase("Stale")
  BY Zenon DEF Finish, WriteStale
<1> QED
  BY <1>1, <1>2, WritePhaseKeeps, Zenon

\* A cycle may be cut short anywhere (Abort).
LEMMA AbortKeeps == PlanInv /\ Abort => PlanInv'
<1> SUFFICES ASSUME PlanInv, Abort PROVE PlanInv'
  OBVIOUS
<1>1. aborts' \in 0..MaxAborts
  <2>1. aborts \in 0..MaxAborts /\ aborts < MaxAborts /\ aborts' = aborts + 1
    BY Zenon DEF Abort, PlanInv, TypeOK
  <2> QED
    BY <2>1, PlanAssumption
<1>2. Typed'
  BY <1>1, ZenonT(60) DEF Abort, PlanInv, TypeOK, Typed
<1> QED
  BY <1>2, StoreUnwritten, CycleEnds, Zenon DEF Abort

\* A plan that is changed in nothing but its approval, or removed, is no more
\* live than before (Approve, OperatorDeletes).
LEMMA OperatorKeeps ==
  ASSUME PlanInv, NEW u \in Uid, NEW p \in Plan \cup {NoPlan},
         p = NoPlan \/ (plans[u] # NoPlan /\ p.phase = plans[u].phase /\ p.hash = plans[u].hash),
         plans' = [plans EXCEPT ![u] = p],
         UNCHANGED <<last, world, approvalRequired, ended, Local>>
  PROVE  PlanInv'
<1>1. /\ plans' \in [Uid -> Plan \cup {NoPlan}]
      /\ plans'[u] = p
      /\ \A v \in Uid \ {u} : plans'[v] = plans[v]
  BY Zenon DEF PlanInv, TypeOK
<1>2. \A v \in Uid : plans'[v] # NoPlan =>
        /\ plans[v] # NoPlan
        /\ plans'[v].phase = plans[v].phase
        /\ plans'[v].hash = plans[v].hash
  BY <1>1, Zenon
<1>3. \A v \in Uid : Live(v)' => Live(v)
  BY <1>2, Zenon
<1>4. /\ UNCHANGED <<last, world, approvalRequired, ended>>
      /\ UNCHANGED <<pc, audit, plan, view, todo, outcome, aborts, checked>>
  BY Zenon DEF Local
<1>5. TypeOK'
  <2> HIDE DEF Plan, Uid, Steps, Terminal
  <2> QED
    BY <1>1, <1>4, ZenonT(60) DEF PlanInv, TypeOK
<1>6. OnlyNewestIsLive' /\ EndedStaysEnded'
  BY <1>3, <1>4, ZenonT(60) DEF PlanInv, TypeOK, OnlyNewestIsLive, EndedStaysEnded
<1>7. pc' \in Planned => (Exists(plan)' => Live(plan)' /\ plans'[plan'].hash = audit')
  BY <1>2, <1>4, ZenonT(60) DEF PlanInv
<1>8. /\ \A v \in Uid : Exists(v)' \/ v \in ended' => v <= last'
      /\ pc' = "staling" => \A v \in Uid : Live(v)' => v \in todo'
      /\ pc' = "create" => \A v \in Uid : ~Live(v)'
  BY <1>2, <1>3, <1>4, ZenonT(60) DEF PlanInv
<1> QED
  BY <1>4, <1>5, <1>6, <1>7, <1>8, ZenonT(60) DEF PlanInv

\* An approval is written or taken back.
LEMMA ApproveKeeps ==
  ASSUME PlanInv, NEW u \in Uid, NEW h \in Hash \cup {NoHash}, Approve(u, h)
  PROVE  PlanInv'
<1>1. plans[u] \in Plan /\ plans[u] # NoPlan
  BY Zenon DEF PlanInv, TypeOK, Approve
<1> DEFINE p == [plans[u] EXCEPT !.approval = h]
<1>2. /\ p \in Plan
      /\ p.phase = plans[u].phase
      /\ p.hash = plans[u].hash
  BY <1>1, Zenon
<1>3. plans' = [plans EXCEPT ![u] = p]
  BY Zenon DEF Approve, PlanInv, TypeOK
<1>4. UNCHANGED <<last, world, approvalRequired, ended, Local>>
  BY Zenon DEF Approve
<1> HIDE DEF p
<1> QED
  BY <1>1, <1>2, <1>3, <1>4, OperatorKeeps, Zenon

\* A plan object is deleted.
LEMMA OperatorDeletesKeeps ==
  ASSUME PlanInv, NEW u \in Uid, OperatorDeletes(u)
  PROVE  PlanInv'
<1>1. plans' = [plans EXCEPT ![u] = NoPlan]
  BY Zenon DEF OperatorDeletes
<1>2. UNCHANGED <<last, world, approvalRequired, ended, Local>>
  BY Zenon DEF OperatorDeletes
<1>3. NoPlan \in Plan \cup {NoPlan}
  OBVIOUS
<1> QED
  BY <1>1, <1>2, <1>3, OperatorKeeps, Zenon

\* The world drifts, or nothing happens.
LEMMA DriftKeeps == PlanInv /\ (Drift \/ UNCHANGED vars) => PlanInv'
<1> SUFFICES ASSUME PlanInv, Drift \/ UNCHANGED vars PROVE PlanInv'
  OBVIOUS
<1>1. /\ UNCHANGED <<plans, last, approvalRequired, ended>>
      /\ UNCHANGED <<pc, audit, plan, view, todo, outcome, aborts, checked>>
      /\ world' \in World
  BY ZenonT(60) DEF Drift, Local, vars, PlanInv, TypeOK
<1>2. TypeOK'
  <2> HIDE DEF Plan, Uid, Steps, Terminal
  <2> QED
    BY <1>1, ZenonT(60) DEF PlanInv, TypeOK
<1> QED
  BY <1>1, <1>2, ZenonT(60) DEF PlanInv, OnlyNewestIsLive, EndedStaysEnded

\* Every step keeps the invariant.
LEMMA NextPlanInv == PlanInv /\ [Next]_vars => PlanInv'
<1> SUFFICES ASSUME PlanInv, [Next]_vars PROVE PlanInv'
  OBVIOUS
<1>1. CASE Cycle
  BY <1>1, PrepareKeeps, SupersedeAllKeeps, PersistReuseKeeps, PersistSupersedeKeeps,
     StaleNextKeeps, StaleDoneKeeps, CreatePlanKeeps, MarkPendingKeeps, PruneKeeps,
     RequireExactApprovalKeeps, MarkApprovedKeeps, RevalidateKeeps, RevalidateFailsKeeps,
     BeginApplyKeeps, BeforeMutationKeeps, ApplyKeeps, FinishKeeps, Zenon DEF Cycle
<1>2. CASE Abort \/ Drift \/ UNCHANGED vars
  BY <1>2, AbortKeeps, DriftKeeps, Zenon
<1>3. CASE \E u \in Uid, h \in Hash \cup {NoHash} : Approve(u, h)
  BY <1>3, ApproveKeeps, Zenon
<1>4. CASE \E u \in Uid : OperatorDeletes(u)
  BY <1>4, OperatorDeletesKeeps, Zenon
<1> QED
  BY <1>1, <1>2, <1>3, <1>4, Zenon DEF Next, Environment

\* PlanInv holds in every reachable state.
THEOREM PlanInvariance == Spec => []PlanInv
  BY InitPlanInv, NextPlanInv, PTL DEF Spec

\* The variables keep their types, for every value of the constants.
THEOREM PlanTypes == Spec => []TypeOK
<1>1. PlanInv => TypeOK
  BY Zenon DEF PlanInv
<1> QED
  BY <1>1, PlanInvariance, PTL

\* PersistCurrent never leaves two live plans behind, wherever it is interrupted.
THEOREM OnlyNewestLives == Spec => []OnlyNewestIsLive
<1>1. PlanInv => OnlyNewestIsLive
  BY Zenon DEF PlanInv
<1> QED
  BY <1>1, PlanInvariance, PTL

\* A plan with an outcome never becomes live again.
THEOREM OutcomesAreFinal == Spec => []EndedStaysEnded
<1>1. PlanInv => EndedStaysEnded
  BY Zenon DEF PlanInv
<1> QED
  BY <1>1, PlanInvariance, PTL

\* Applying begins only with the newest, live plan this cycle prepared twice, and
\* only under an approval of its hash where one is required (BeginApprovedApply).
THEOREM AppliesApprovedOnly == Spec => AppliesApprovedPlanOnly
<1>1. PlanInv /\ [Next]_vars => [BeginStep]_vars
  <2> SUFFICES ASSUME PlanInv, Next, pc = "begin", pc' = "before"
               PROVE  /\ Live(plan)
                      /\ plan = last
                      /\ plan \notin ended
                      /\ plans[plan].hash = audit
                      /\ checked = audit
                      /\ approvalRequired => plans[plan].approval = audit
    BY Zenon DEF BeginStep
  <2>1. BeginApply
    BY Zenon DEF Next, Cycle, Environment, Local, Prepare, SupersedeAll, PersistReuse,
       PersistSupersede, StaleNext, StaleDone, CreatePlan, MarkPending, Prune,
       RequireExactApproval, MarkApproved, Revalidate, RevalidateFails, BeforeMutation,
       Apply, Finish, WriteStale, Abort, Stop, Approve, OperatorDeletes, Drift
  <2>2. Exists(plan) /\ (approvalRequired => ExactApproval(plans[plan]))
    BY <2>1, Zenon DEF BeginApply, Stop
  <2> QED
    BY <2>2, Zenon DEF PlanInv, ExactApproval
<1> QED
  BY <1>1, PlanInvariance, PTL DEF Spec, AppliesApprovedPlanOnly
=============================================================================
