------------------------------ MODULE ChangePlan ------------------------------
(***************************************************************************)
(* The approval lifecycle of a target's change plans: Runner.applyPrepared *)
(* (internal/controller/runner.go) over ChangePlanStore                    *)
(* (internal/plan/store.go).                                               *)
(*                                                                         *)
(* A canonical plan is a function of everything Prepare reads - sources,   *)
(* policies, provider rows, ownership claims - so its hash is represented  *)
(* by the state of the world it was built from.  Quiet is a world in which *)
(* nothing is to be done.  One runner works on the target at a time (the   *)
(* work queue and leader election see to that); it may be stopped between  *)
(* any two calls.  Operators approve, revoke and delete plan objects, and  *)
(* the world drifts, whenever they like.                                   *)
(***************************************************************************)
EXTENDS Naturals, FiniteSets

CONSTANTS
  World,      \* what Prepare can find: a plan hash for each
  Quiet,      \* the world without an actionable operation
  NoPlan,     \* the plan object does not exist
  NoHash,     \* no approval annotation
  Retention,  \* terminal plans kept by Prune
  MaxPlans,   \* bound on plan objects created
  MaxAborts   \* bound on cycles cut short

ASSUME PlanAssumption ==
  /\ Quiet \in World
  /\ NoHash \notin World
  /\ Retention \in Nat
  /\ MaxPlans \in Nat
  /\ MaxAborts \in Nat

VARIABLES
  plans,             \* plan objects, in creation order
  last,              \* number of plan objects created so far
  world,             \* what Prepare would find now
  approvalRequired,  \* the target's approval mode
  pc,                \* where the runner's cycle is
  audit,             \* the hash this cycle prepared
  plan,              \* the plan object of this cycle
  view,              \* that object as PersistCurrent returned it
  todo,              \* superseded plans still to be marked stale
  outcome,           \* the phase the apply call earned
  aborts,            \* cycles cut short so far
  ended,             \* history: plans that have had a terminal phase
  checked            \* history: the world Prepare last found in this cycle

vars == <<plans, last, world, approvalRequired, pc, audit, plan, view, todo, outcome,
          aborts, ended, checked>>

Uid == 1..MaxPlans
Hash == World \ {Quiet}
Terminal == {"Succeeded", "Failed", "Stale", "Interrupted"}
Phases == {"", "PendingApproval", "Approved", "Applying"} \cup Terminal
Plan == [hash : Hash, phase : Phases, approval : World \cup {NoHash}]
Steps == {"idle", "persist", "supersede", "staling", "create", "pend", "prune", "require",
          "mark", "revalidate", "begin", "before", "apply", "finish", "stale"}

\* The variables hold values of the types the code declares.
TypeOK ==
  /\ plans \in [Uid -> Plan \cup {NoPlan}]
  /\ last \in 0..MaxPlans
  /\ world \in World
  /\ approvalRequired \in BOOLEAN
  /\ pc \in Steps
  /\ audit \in World
  /\ plan \in 0..MaxPlans
  /\ view \in Plan \cup {NoPlan}
  /\ todo \subseteq Uid
  /\ outcome \in Terminal
  /\ aborts \in 0..MaxAborts
  /\ ended \subseteq Uid
  /\ checked \in World

Init ==
  /\ plans = [u \in Uid |-> NoPlan]
  /\ last = 0
  /\ world \in World
  /\ approvalRequired \in BOOLEAN
  /\ pc = "idle"
  /\ audit = Quiet
  /\ plan = 0
  /\ view = NoPlan
  /\ todo = {}
  /\ outcome = "Succeeded"
  /\ aborts = 0
  /\ ended = {}
  /\ checked = Quiet

-----------------------------------------------------------------------------
Exists(u) == u \in Uid /\ plans[u] # NoPlan
Live(u) == Exists(u) /\ plans[u].phase \notin Terminal

\* ChangePlanStore.RequireExactApproval.
ExactApproval(p) == p.phase \notin Terminal /\ p.approval = p.hash

\* ChangePlanStore.updatePhase: read, validate and write under one
\* resourceVersion, retried on conflict.
SetPhase(u, phase) ==
  /\ plans' = [plans EXCEPT ![u].phase = phase]
  /\ ended' = IF phase \in Terminal THEN ended \cup {u} ELSE ended

Unwritten == UNCHANGED <<plans, ended>>

\* The end of a cycle: nothing local to it is read again.
Stop ==
  /\ pc' = "idle"
  /\ audit' = Quiet /\ plan' = 0 /\ view' = NoPlan /\ todo' = {} /\ outcome' = "Succeeded"
  /\ checked' = Quiet

Continue(l) == pc' = l /\ UNCHANGED <<audit, plan, view, todo, outcome, checked>>

Rest == UNCHANGED <<last, world, approvalRequired, aborts>>

-----------------------------------------------------------------------------
(***************************************************************************)
(* Runner.Prepare, then applyPrepared.                                     *)
(***************************************************************************)
Prepare ==
  /\ pc = "idle"
  /\ audit' = world
  /\ checked' = world
  /\ pc' = IF world = Quiet THEN "supersede" ELSE "persist"
  /\ Rest /\ Unwritten /\ UNCHANGED <<plan, view, todo, outcome>>

\* Nothing to do: every live plan is superseded.
SupersedeAll ==
  /\ pc = "supersede"
  /\ todo' = {u \in Uid : Live(u)}
  /\ pc' = "staling"
  /\ Rest /\ Unwritten /\ UNCHANGED <<audit, plan, view, outcome, checked>>

\* Mutant: a finished plan with the same hash is taken up again.
PersistReuseFinished ==
  /\ pc = "persist"
  /\ \E u \in Uid :
       /\ Exists(u) /\ plans[u].hash = audit
       /\ plan' = u
       /\ view' = plans[u]
  /\ pc' = "require"
  /\ Rest /\ Unwritten /\ UNCHANGED <<audit, todo, outcome, checked>>

\* PersistCurrent finds the live plan with this hash and reuses it ...
PersistReuse ==
  /\ pc = "persist"
  /\ \E u \in Uid :
       /\ Live(u) /\ plans[u].hash = audit
       /\ plan' = u
       /\ view' = plans[u]
  /\ pc' = "require"
  /\ Rest /\ Unwritten /\ UNCHANGED <<audit, todo, outcome, checked>>

\* Mutant: superseded plans are not marked stale.
PersistSupersedeNothing ==
  /\ pc = "persist"
  /\ ~ \E u \in Uid : Live(u) /\ plans[u].hash = audit
  /\ todo' = {}
  /\ pc' = "staling"
  /\ Rest /\ Unwritten /\ UNCHANGED <<audit, plan, view, outcome, checked>>

\* ... or goes on to StaleSuperseded and a new object.
PersistSupersede ==
  /\ pc = "persist"
  /\ ~ \E u \in Uid : Live(u) /\ plans[u].hash = audit
  /\ todo' = {u \in Uid : Live(u) /\ plans[u].hash # audit}
  /\ pc' = "staling"
  /\ Rest /\ Unwritten /\ UNCHANGED <<audit, plan, view, outcome, checked>>

\* StaleSuperseded, one plan at a time; a plan deleted meanwhile is an error.
StaleNext ==
  /\ pc = "staling"
  /\ \E u \in todo :
       IF Exists(u)
       THEN /\ SetPhase(u, "Stale")
            /\ todo' = todo \ {u}
            /\ UNCHANGED <<pc, audit, plan, view, outcome, checked>>
       ELSE Stop /\ Unwritten
  /\ Rest

StaleDone ==
  /\ pc = "staling"
  /\ todo = {}
  /\ IF audit = Quiet THEN Stop ELSE Continue("create")
  /\ Rest /\ Unwritten

\* The API server drops the status of an object being created.
CreatePlan ==
  /\ pc = "create"
  /\ last < MaxPlans
  /\ last' = last + 1
  /\ plans' = [plans EXCEPT ![last + 1] = [hash |-> audit, phase |-> "", approval |-> NoHash]]
  /\ plan' = last + 1
  /\ pc' = "pend"
  /\ UNCHANGED <<world, approvalRequired, aborts, ended, audit, view, todo, outcome, checked>>

MarkPending ==
  /\ pc = "pend"
  /\ IF Exists(plan)
     THEN /\ SetPhase(plan, "PendingApproval")
          /\ view' = plans'[plan]
          /\ pc' = "prune"
          /\ UNCHANGED <<audit, plan, todo, outcome, checked>>
     ELSE Stop /\ Unwritten
  /\ Rest

\* ChangePlanStore.Prune: the newest Retention terminal plans stay.
Prunable ==
  LET done == {u \in Uid : Exists(u) /\ plans[u].phase \in Terminal}
  IN  {u \in done : Cardinality({v \in done : v > u}) >= Retention}

Prune ==
  /\ pc = "prune"
  /\ plans' = [u \in Uid |-> IF u \in Prunable THEN NoPlan ELSE plans[u]]
  /\ Continue("require")
  /\ Rest /\ UNCHANGED ended

RequireExactApproval ==
  /\ pc = "require"
  /\ IF ~approvalRequired THEN Continue("revalidate")
     ELSE IF ExactApproval(view) THEN Continue("mark") ELSE Stop
  /\ Rest /\ Unwritten

\* Mutant: the cycle ends once the plan is marked approved.
MarkApprovedAndWait ==
  /\ pc = "mark"
  /\ IF Exists(plan) /\ ExactApproval(plans[plan])
     THEN SetPhase(plan, "Approved")
     ELSE Unwritten
  /\ Stop /\ Rest

MarkApproved ==
  /\ pc = "mark"
  /\ IF Exists(plan) /\ ExactApproval(plans[plan])
     THEN SetPhase(plan, "Approved") /\ Continue("revalidate")
     ELSE Unwritten /\ Stop
  /\ Rest

\* The plan is rebuilt from fresh state; any difference makes it stale.
Revalidate ==
  /\ pc = "revalidate"
  /\ checked' = world
  /\ pc' = IF world = audit THEN "begin" ELSE "stale"
  /\ Rest /\ Unwritten /\ UNCHANGED <<audit, plan, view, todo, outcome>>

RevalidateFails ==
  /\ pc = "revalidate"
  /\ Continue("stale")
  /\ Rest /\ Unwritten

\* Mutant: the approval is not looked at again.
BeginApplyUnconditionally ==
  /\ pc = "begin"
  /\ IF Exists(plan)
     THEN SetPhase(plan, "Applying") /\ Continue("before")
     ELSE Unwritten /\ Stop
  /\ Rest

\* BeginApprovedApply, or a plain UpdatePhase when no approval is required.
BeginApply ==
  /\ pc = "begin"
  /\ IF Exists(plan) /\ (approvalRequired => ExactApproval(plans[plan]))
     THEN SetPhase(plan, "Applying") /\ Continue("before")
     ELSE Unwritten /\ Stop
  /\ Rest

\* Runner.BeforeMutation: the target runtime is still authorized, or not.
BeforeMutation ==
  /\ pc = "before"
  /\ Continue("apply") \/ Continue("stale")
  /\ Rest /\ Unwritten

\* Mutant: a cancelled apply is recorded under a phase of its own.
ApplyCanceled ==
  /\ pc = "apply"
  /\ world' \in World
  /\ outcome' \in {"Succeeded", "Failed", "Canceled"}
  /\ pc' = "finish"
  /\ Unwritten
  /\ UNCHANGED <<last, approvalRequired, aborts, audit, plan, view, todo, checked>>

\* validateOperationOutcomes and operationExecutionSucceeded sum up the results.
Outcomes == {"Succeeded", "Failed", "Interrupted"}

\* The provider requests; their outcome is classified afterwards.
Apply ==
  /\ pc = "apply"
  /\ world' \in World
  /\ outcome' \in Outcomes
  /\ pc' = "finish"
  /\ Unwritten
  /\ UNCHANGED <<last, approvalRequired, aborts, audit, plan, view, todo, checked>>

\* Runner.writeTerminalPhase.
WritePhase(phase) ==
  /\ IF Exists(plan) THEN SetPhase(plan, phase) ELSE Unwritten
  /\ Stop /\ Rest

Finish == pc = "finish" /\ WritePhase(outcome)
WriteStale == pc = "stale" /\ WritePhase("Stale")

-----------------------------------------------------------------------------
(***************************************************************************)
(* The environment.                                                        *)
(***************************************************************************)
\* An error return, shutdown or lost leadership: no terminal phase is written.
Abort ==
  /\ pc # "idle"
  /\ aborts < MaxAborts
  /\ aborts' = aborts + 1
  /\ Stop /\ Unwritten
  /\ UNCHANGED <<last, world, approvalRequired>>

Local == <<pc, audit, plan, view, todo, outcome, aborts, checked>>

Approve(u, h) ==
  /\ Exists(u)
  /\ plans[u].approval # h
  /\ plans' = [plans EXCEPT ![u].approval = h]
  /\ UNCHANGED <<last, world, approvalRequired, ended, Local>>

OperatorDeletes(u) ==
  /\ Exists(u)
  /\ plans' = [plans EXCEPT ![u] = NoPlan]
  /\ UNCHANGED <<last, world, approvalRequired, ended, Local>>

Drift ==
  /\ world' \in World \ {world}
  /\ UNCHANGED <<plans, last, approvalRequired, ended, Local>>

Cycle ==
  \/ Prepare \/ SupersedeAll \/ PersistReuse \/ PersistSupersede \/ StaleNext \/ StaleDone
  \/ CreatePlan \/ MarkPending \/ Prune \/ RequireExactApproval \/ MarkApproved
  \/ Revalidate \/ RevalidateFails \/ BeginApply \/ BeforeMutation \/ Apply \/ Finish
  \/ WriteStale

Environment ==
  \/ Abort
  \/ \E u \in Uid, h \in Hash \cup {NoHash} : Approve(u, h)
  \/ \E u \in Uid : OperatorDeletes(u)
  \/ Drift

Next == Cycle \/ Environment

Spec == Init /\ [][Next]_vars

\* The target is audited again and again, and its calls return.
FairSpec == Spec /\ WF_vars(Cycle)

-----------------------------------------------------------------------------
(***************************************************************************)
(* Properties.                                                             *)
(***************************************************************************)
\* Only the newest plan object can still be approved and applied: whatever is
\* interrupted, PersistCurrent never leaves two live plans behind.
OnlyNewestIsLive == \A u \in Uid : Live(u) => u = last

\* A plan that has had its outcome recorded, or has been made stale, is never
\* live again: an approval is not good for a second application.
EndedStaysEnded == \A u \in ended : ~Live(u)

\* Applying begins only with the exact plan this cycle prepared, still live,
\* approved for its very hash when approval is required, and confirmed by a
\* second Prepare (BeginApprovedApply).
BeginStep ==
  (pc = "begin" /\ pc' = "before") =>
    /\ Live(plan)
    /\ plan = last
    /\ plan \notin ended
    /\ plans[plan].hash = audit
    /\ checked = audit
    /\ approvalRequired => plans[plan].approval = audit
AppliesApprovedPlanOnly == [][BeginStep]_vars

\* The strengthening that is inductive.  A plan that is live is in todo while
\* older plans are made stale (StaleSuperseded), so none is when PersistCurrent
\* creates the next; and the plan of a cycle is the newest, has no outcome yet
\* and, unless an operator deletes it, stays live under the hash of the cycle.
Planned == {"pend", "prune", "require", "mark", "revalidate", "begin", "before", "apply",
            "finish", "stale"}
PlanInv ==
  /\ TypeOK
  /\ OnlyNewestIsLive
  /\ EndedStaysEnded
  /\ \A u \in Uid : Exists(u) \/ u \in ended => u <= last
  /\ pc \in Planned \cup {"persist", "create"} => audit \in Hash
  /\ pc = "staling" => \A u \in Uid : Live(u) => u \in todo
  /\ pc = "create" => \A u \in Uid : ~Live(u)
  /\ pc \in Planned =>
       /\ plan = last
       /\ plan \in Uid
       /\ plan \notin ended
       /\ Exists(plan) => Live(plan) /\ plans[plan].hash = audit
  /\ pc = "begin" => checked = audit

\* An operator who approves the current plan and leaves it alone sees it
\* through: it cannot stay approved and current for ever without an outcome.
Waiting == \E u \in Uid : Live(u) /\ plans[u].hash = world /\ plans[u].approval = world
ApprovedPlanIsSettled == []<>~Waiting

=============================================================================
