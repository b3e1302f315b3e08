----------------------------- MODULE Reconcile -----------------------------
(***************************************************************************)
(* Planning and applying the records of one DNS owner name: the ownership  *)
(* rules of the runner (internal/controller/runner.go), the planner        *)
(* (internal/plan/plan.go) and the ordered apply with dependent cleanup    *)
(* (internal/fortigate/client.go and the shared client of cmd).            *)
(*                                                                         *)
(* The planner treats the names of a zone (its mutation groups)            *)
(* independently of each other, so one name shows all of it.  What couples *)
(* names is modelled by free choices: the mass-cleanup guard may refuse    *)
(* any cycle with cleanup, discovery may be incomplete in any cycle, and   *)
(* other names may use up the quotas of the DNS policies.  Every device    *)
(* state and every desired state is an initial state; from then on only    *)
(* the controller writes, requests may fail, and quotas and the validity   *)
(* of policies may change from cycle to cycle.                             *)
(***************************************************************************)
EXTENDS Integers, FiniteSets, FiniteSetsExt, Policy

CONSTANTS
    Id,           \* provider IDs (dns-entry mkeys)
    Taken,        \* provider IDs that rows may have at first
    Record,       \* records of the name: [type, target, ttl, disabled]
    Found,        \* records that the device may hold at first
    Desires,      \* sets of records that the sources may ask for
    Denials,      \* sets of policies that refuse records
    Snapshots,    \* what else the policies may be in a cycle: see Policy
    NoPolicy,     \* the one of them that rejects nothing
    NoRow,        \* no row under a provider ID
    NoRecord,     \* operation without a desired record
    NoId,         \* operation without a current row
    MaxFaults     \* requests that fail, and cycles that are cut short

Adoptable == {"A", "AAAA", "CNAME"}
Policies == {"delete", "deactivate", "keep"}
Modes == {"exclusive", "restricted", "shared"}

\* endpoint.Key and LogicalKey within one zone and name.
KeyOf(e) == <<e.type, e.target>>
KeysOf(es) == {KeyOf(e) : e \in es}

\* The copy of a row that deactivation writes.
Disabled(e) == [type |-> e.type, target |-> e.target, ttl |-> e.ttl, disabled |-> TRUE]

\* Provider IDs are integers, and any set of rows has a first one in their order.
ASSUME IdAssumption ==
    /\ Id \subseteq Int
    /\ \A S \in SUBSET Id : S # {} => \E i \in S : \A j \in S : i <= j

\* Denials are the policies that refuse records of this name; the others only
\* have quotas or do not compile.
ASSUME ReconcileAssumption ==
    /\ Taken \subseteq Id
    /\ Found \subseteq Record
    /\ Desires \subseteq SUBSET Record
    /\ \A e \in Record : Disabled(e) \in Record
    /\ \A D \in Desires :
          /\ \A d \in D : d.type \in Adoptable /\ ~d.disabled
          /\ \A d, e \in D : KeyOf(d) = KeyOf(e) => d = e
    /\ \A s \in Snapshots : \A p \in s.policies : p.refuses = {}
    /\ NoPolicy \in Snapshots
    /\ NoRow \notin Record /\ NoRecord \notin Record /\ NoId \notin Id
    /\ MaxFaults \in Nat

VARIABLES
    mode,      \* exclusive, restricted exclusive, or shared zone
    cleanup,   \* cleanup policy
    desired,   \* what the sources ask for
    denying,   \* the policies that refuse records
    zone,      \* rows of the device
    claimed,   \* shared mode: rows that the running cycle, or the next one, takes
               \* for bound to a Confirmed claim
    confirmed, \* shared mode: rows that are bound to one
    ops,       \* operations of the running cycle not yet attempted
    failed,    \* a prerequisite of the running cycle has failed
    clean,     \* history: the running cycle is complete and undisturbed
    busy,      \* a cycle is applying
    calm,      \* history: clean cycles in a row, up to 2
    faults     \* failed requests and cut cycles so far

vars == <<mode, cleanup, desired, denying, zone, claimed, confirmed, ops, failed,
          clean, busy, calm, faults>>

Kinds == {"conflict", "replace", "update", "create", "delete", "deactivate"}
Operation == [kind : Kinds, id : Id \cup {NoId}, want : Record \cup {NoRecord}]

TypeOK ==
    /\ mode \in Modes
    /\ cleanup \in Policies
    /\ desired \in Desires
    /\ denying \in Denials
    /\ zone \in [Id -> Record \cup {NoRow}]
    /\ claimed \subseteq Id /\ confirmed \subseteq Id
    /\ ops \subseteq Operation
    /\ failed \in BOOLEAN /\ clean \in BOOLEAN /\ busy \in BOOLEAN
    /\ calm \in 0 .. 2
    /\ faults \in 0 .. MaxFaults

-----------------------------------------------------------------------------
(* Ownership of rows. *)

Rows == {i \in Id : zone[i] # NoRow}
AdoptableRows == {i \in Rows : zone[i].type \in Adoptable}

\* Mutant: an exclusive zone adopts every row.
OwnedEverything(D) ==
    CASE mode = "exclusive"  -> Rows
      [] mode = "restricted" -> {i \in AdoptableRows : zone[i] \in D}
      [] mode = "shared"     -> claimed

\* Which rows the planner may treat as its own.  Restricted discovery adopts
\* only a row that equals the desired record in every field.
Owned(D) ==
    CASE mode = "exclusive"  -> AdoptableRows
      [] mode = "restricted" -> {i \in AdoptableRows : zone[i] \in D}
      [] mode = "shared"     -> claimed

Unowned(D) == Rows \ Owned(D)

\* The rows of the name are exactly the desired records, one row each.
RestrictedRecordSetsEqual(D) ==
    /\ Cardinality(AdoptableRows) = Cardinality(D)
    /\ {zone[i] : i \in AdoptableRows} = D

\* Restricted discovery may touch a name only when it is absent or exact.
RestrictedConflict(D) ==
    /\ mode = "restricted"
    /\ D # {}
    /\ AdoptableRows # {}
    /\ ~RestrictedRecordSetsEqual(D)

-----------------------------------------------------------------------------
(* The planner.  D is the desired set and scope tells whether cleanup is     *)
(* allowed for the name in this cycle.                                       *)

CnameTypesConflict(t, u) == t # u /\ "CNAME" \in {t, u}

\* Several types with a CNAME among them, or several CNAME targets.
DesiredSetConflict(D) ==
    \/ \E d, e \in D : CnameTypesConflict(d.type, e.type)
    \/ \E d, e \in D : d # e /\ d.type = "CNAME" /\ e.type = "CNAME"

UnownedCnameConflict(D) ==
    \E d \in D, i \in Unowned(D) : CnameTypesConflict(d.type, zone[i].type)

\* A single desired CNAME that no owned row has, over an owned CNAME.
NeedsCnameTargetReplacement(D) ==
    /\ \E d \in D : /\ D = {d}
                    /\ d.type = "CNAME"
                    /\ \A i \in Owned(D) : KeyOf(zone[i]) # KeyOf(d)
    /\ \E i \in Owned(D) : zone[i].type = "CNAME"

HasCnameTypeTransition(D) ==
    \E d \in D, i \in Owned(D) : CnameTypesConflict(d.type, zone[i].type)

\* Mutant: a change between a CNAME and an address is not a transition.
CnameTransitionSameType(D) == NeedsCnameTargetReplacement(D)

CnameTransition(D) == NeedsCnameTargetReplacement(D) \/ HasCnameTypeTransition(D)

LogicalUnowned(D, t) == {i \in Unowned(D) : zone[i].type = t}

\* The transition is one row to one record, and may be done with a keyed PUT.
CnameReplaceable(D, scope) ==
    /\ \E d \in D : D = {d} /\ LogicalUnowned(D, d.type) = {}
    /\ \E i \in Owned(D) : Owned(D) = {i}
    /\ scope
    /\ NeedsCnameTargetReplacement(D) => cleanup = "delete"

\* The whole name is in conflict and nothing of it is mutated.
MutationConflict(D, scope) ==
    \/ DesiredSetConflict(D)
    \/ UnownedCnameConflict(D)
    \/ CnameTransition(D) /\ ~CnameReplaceable(D, scope)

Conflict(d) == [kind |-> "conflict", id |-> NoId, want |-> d]
Create(d) == [kind |-> "create", id |-> NoId, want |-> d]
Put(kind, i, d) == [kind |-> kind, id |-> i, want |-> d]
Delete(i) == [kind |-> "delete", id |-> i, want |-> NoRecord]

\* Desired records of a type that an unowned row also has.
Contested(D) == {d \in D : LogicalUnowned(D, d.type) # {}}

\* The owned rows of a desired record: the lowest ID is kept.
Matches(D, d) == {i \in Owned(D) : KeyOf(zone[i]) = KeyOf(d)}
Match(D, d) == Min(Matches(D, d))

Missing(D) == {d \in D \ Contested(D) : Matches(D, d) = {}}
Present(D) == (D \ Contested(D)) \ Missing(D)

Updates(D) ==
    {Put("update", Match(D, d), d) : d \in {p \in Present(D) : zone[Match(D, p)] # p}}

\* Surplus copies of desired records, and owned rows nobody asks for.
Stale(D, scope) ==
    IF ~scope THEN {}
    ELSE (UNION {Matches(D, d) \ {Match(D, d)} : d \in Present(D)})
           \cup {i \in Owned(D) : /\ KeyOf(zone[i]) \notin KeysOf(D)
                                  /\ \A d \in Contested(D) : d.type # zone[i].type}

\* One missing record and one stale row of its type are paired in one PUT.
Pairs(D, scope) ==
    IF cleanup # "delete" THEN {}
    ELSE {p \in Stale(D, scope) \X Missing(D) :
            /\ {j \in Stale(D, scope) : zone[j].type = p[2].type} = {p[1]}
            /\ {e \in Missing(D) : e.type = p[2].type} = {p[2]}}

Creates(D, scope) == Missing(D) \ {p[2] : p \in Pairs(D, scope)}

\* Mutant: rows that are already disabled are deactivated again.
CleanupsRepeated(D, scope) ==
    LET rest == Stale(D, scope) \ {p[1] : p \in Pairs(D, scope)}
    IN  IF Creates(D, scope) # {} THEN {}
        ELSE CASE cleanup = "delete" -> {Delete(i) : i \in rest}
               [] cleanup = "deactivate" ->
                     {Put("deactivate", i, Disabled(zone[i])) : i \in rest}
               [] cleanup = "keep" -> {}

\* Stale rows go only when nothing of the name remains to be created.
Cleanups(D, scope) ==
    LET rest == Stale(D, scope) \ {p[1] : p \in Pairs(D, scope)}
    IN  IF Creates(D, scope) # {} THEN {}
        ELSE CASE cleanup = "delete" -> {Delete(i) : i \in rest}
               [] cleanup = "deactivate" ->
                     {Put("deactivate", i, Disabled(zone[i])) :
                         i \in {j \in rest : ~zone[j].disabled}}
               [] cleanup = "keep" -> {}

\* Conflicts are identified by what is desired: which row is shown with them
\* does not matter.
BuildWithCleanupScope(D, scope) ==
    IF MutationConflict(D, scope)
    THEN {Conflict(CHOOSE d \in D : TRUE)}
    ELSE IF CnameTransition(D)
    THEN {Put("replace", i, d) : i \in Owned(D), d \in D}
    ELSE {Conflict(d) : d \in Contested(D)}
           \cup Updates(D)
           \cup {Put("replace", p[1], p[2]) : p \in Pairs(D, scope)}
           \cup {Create(d) : d \in Creates(D, scope)}
           \cup Cleanups(D, scope)

EnforceRestrictedOwnershipConflicts(D, scope) ==
    IF RestrictedConflict(D)
    THEN {Conflict(CHOOSE d \in D : TRUE)}
    ELSE BuildWithCleanupScope(D, scope)

IsCleanup(op) == op.kind \in {"delete", "deactivate"}

\* The mass-cleanup guard, when it trips.
GuardCleanup(os, refused) == IF refused THEN {o \in os : ~IsCleanup(o)} ELSE os

\* Mutant: operations are ordered by the name of their kind.
RankByName(op) == CASE op.kind = "conflict" -> 0
                    [] op.kind = "create"   -> 1
                    [] IsCleanup(op)        -> 2
                    [] op.kind = "replace"  -> 3
                    [] op.kind = "update"   -> 4

\* Order of apply: the phase rank, and within a phase the name of the kind.
Rank(op) == CASE op.kind = "conflict" -> 0
              [] op.kind = "replace"  -> 1
              [] op.kind = "update"   -> 2
              [] op.kind = "create"   -> 3
              [] IsCleanup(op)        -> 4

-----------------------------------------------------------------------------
(* Cycles. *)

\* What the sources ask for and no policy refuses.
Wanted ==
    {d \in desired : ~\E p \in denying :
        p.namespace = NamespaceOf(d) /\ d \in p.selects /\ d \in p.refuses}

\* Any device and any sources.  Restricted discovery requires policy keep, and
\* a claim binds a row of an adoptable type.  Policies that refuse nothing here
\* are as good as none.
Init ==
    /\ mode \in Modes
    /\ cleanup \in IF mode = "restricted" THEN {"keep"} ELSE Policies
    /\ desired \in Desires
    /\ denying \in Denials
    /\ denying # {} => Wanted # desired
    /\ \E rows \in [Taken -> Found \cup {NoRow}] :
          zone = [i \in Id |-> IF i \in Taken THEN rows[i] ELSE NoRow]
    /\ claimed \in IF mode = "shared" THEN SUBSET AdoptableRows ELSE {{}}
    /\ confirmed = claimed
    /\ ops = {}
    /\ failed = FALSE
    /\ clean = TRUE
    /\ busy = FALSE
    /\ calm = 0
    /\ faults = 0

\* Mutant: a record over quota is cleaned up like any other.
CleanupScopeOverQuota(complete, snapshot, verdict) ==
    complete /\ InvalidNamespaces(snapshot) = {}

\* Cleanup of the name is suppressed while a source is incomplete, any policy
\* is invalid, or a quota has rejected a record of the name.  The name and the
\* origin of its rows are within the filters that cleanupAllowed asks.
CleanupScope(complete, snapshot, verdict) ==
    complete /\ InvalidNamespaces(snapshot) = {} /\ verdict.overQuota = {}

\* Discovery, policies, listing and planning.  With an incomplete source only a
\* part of the desired records is seen.
Prepare(complete, seen, snapshot, refused) ==
    LET policies == [policies |-> snapshot.policies \cup denying,
                     ahead |-> snapshot.ahead]
        verdict == Evaluate(seen, policies)
        scope == CleanupScope(complete, policies, verdict)
        plan == EnforceRestrictedOwnershipConflicts(verdict.allowed, scope)
    IN  /\ ~busy
        /\ complete => seen = desired
        /\ refused => \E op \in plan : IsCleanup(op)
        /\ busy' = TRUE
        /\ ops' = GuardCleanup(plan, refused)
        /\ clean' = (scope /\ ~refused)
        /\ calm' = IF scope /\ ~refused THEN calm ELSE 0
        /\ UNCHANGED <<mode, cleanup, desired, denying, zone, claimed, confirmed,
                       failed, faults>>

\* The next operation in the order of the plan.
Head(op) == op \in ops /\ \A o \in ops : Rank(op) <= Rank(o)

Attempted(op) == ops' = ops \ {op}

\* Cleanup is skipped once a prerequisite of the name has failed.
Attemptable(op) ==
    /\ Head(op)
    /\ op.kind # "conflict"
    /\ ~(IsCleanup(op) /\ failed)

\* The device picks an unused ID for a new row (the bound Id leaves one); which
\* one makes no difference, as a created row has no copies.
NewId == Min(Id \ Rows)

\* The claims S once an operation is done: that of a new row is confirmed, that of
\* a deleted one released, that of a changed one bound to its new contents.
Claims(S, op) ==
    IF op.kind = "create" THEN IF mode = "shared" THEN S \cup {NewId} ELSE S
    ELSE IF op.kind = "delete" THEN S \ {op.id}
    ELSE S

\* The request reaches the device and takes effect.
Effect(op) ==
    /\ IF op.kind = "create"
       THEN Id \ Rows # {} /\ zone' = [zone EXCEPT ![NewId] = op.want]
       ELSE IF op.kind = "delete"
       THEN zone' = [zone EXCEPT ![op.id] = NoRow]
       ELSE zone' = [zone EXCEPT ![op.id] = op.want]
    /\ claimed' = Claims(claimed, op)

\* A shared zone refuses every replacement.
Refused(op) == mode = "shared" /\ op.kind = "replace"

ApplyOne(op) ==
    /\ busy
    /\ Attemptable(op)
    /\ ~Refused(op)
    /\ Effect(op)
    /\ confirmed' = Claims(confirmed, op)
    /\ Attempted(op)
    /\ UNCHANGED <<mode, cleanup, desired, denying, failed, clean, busy, calm, faults>>

\* The attempt ends in an error and the rest of the plan goes on.
Failure(op) ==
    /\ Attempted(op)
    /\ failed' = (failed \/ ~IsCleanup(op))
    /\ clean' = FALSE

ApplyRefused(op) ==
    /\ busy
    /\ Attemptable(op)
    /\ Refused(op)
    /\ Attempted(op)
    /\ failed' = TRUE
    /\ UNCHANGED <<mode, cleanup, desired, denying, zone, claimed, confirmed, clean,
                   busy, calm, faults>>

ApplyFails(op) ==
    /\ busy
    /\ Attemptable(op)
    /\ ~Refused(op)
    /\ faults < MaxFaults
    /\ faults' = faults + 1
    /\ Failure(op)
    /\ UNCHANGED <<mode, cleanup, desired, denying, zone, claimed, confirmed, busy,
                   calm>>

\* The device took the request and the answer was lost, or what follows in a
\* shared zone failed: then the claim of a new row is not confirmed, or the claim
\* of a changed one not bound to its new contents.
ApplyResponseLost(op) ==
    /\ busy
    /\ Attemptable(op)
    /\ ~Refused(op)
    /\ faults < MaxFaults
    /\ faults' = faults + 1
    /\ Effect(op)
    /\ confirmed' \in {Claims(confirmed, op), confirmed \ {op.id}}
    /\ Failure(op)
    /\ UNCHANGED <<mode, cleanup, desired, denying, busy, calm>>

\* A conflict, or a cleanup behind a failed prerequisite, is reported.
Block(op) ==
    /\ busy
    /\ Head(op)
    /\ ~Attemptable(op)
    /\ Attempted(op)
    /\ UNCHANGED <<mode, cleanup, desired, denying, zone, claimed, confirmed, failed,
                   clean, busy, calm, faults>>

\* recoverInterruptedClaim: a conflict of a shared zone over a row that equals the
\* desired record may be an earlier change whose claim was not confirmed.  Which
\* rows have such a claim is a free choice.  It is bound now; the cycle stays as
\* planned and the next one sees the row as its own.
RecoverInterruptedClaim(op) ==
    /\ busy
    /\ Head(op)
    /\ op.kind = "conflict"
    /\ mode = "shared"
    /\ \E i \in Rows \ confirmed :
          /\ zone[i] = op.want
          /\ confirmed' = confirmed \cup {i}
    /\ clean' = FALSE
    /\ Attempted(op)
    /\ UNCHANGED <<mode, cleanup, desired, denying, zone, claimed, failed, busy, calm,
                   faults>>

\* What a cycle keeps for itself ends with it, and the next one reads the claims.
Rest ==
    /\ busy' = FALSE /\ failed' = FALSE /\ clean' = TRUE
    /\ claimed' = confirmed

EndCycle ==
    /\ busy
    /\ ops = {}
    /\ calm' = IF ~clean THEN 0 ELSE IF calm < 2 THEN calm + 1 ELSE calm
    /\ Rest
    /\ UNCHANGED <<mode, cleanup, desired, denying, zone, confirmed, ops, faults>>

\* The context is cancelled or the authorization revoked between operations.
Interrupt ==
    /\ busy
    /\ ops # {}
    /\ faults < MaxFaults
    /\ faults' = faults + 1
    /\ ops' = {}
    /\ calm' = 0
    /\ Rest
    /\ UNCHANGED <<mode, cleanup, desired, denying, zone, confirmed>>

Apply(op) ==
    \/ ApplyOne(op)
    \/ ApplyRefused(op)
    \/ ApplyFails(op)
    \/ ApplyResponseLost(op)
    \/ Block(op)
    \/ RecoverInterruptedClaim(op)

Next ==
    \/ \E snapshot \in Snapshots, refused \in BOOLEAN :
          Prepare(TRUE, desired, snapshot, refused)
    \/ \E seen \in SUBSET desired, refused \in BOOLEAN :
          Prepare(FALSE, seen, NoPolicy, refused)
    \/ \E op \in ops : Apply(op)
    \/ EndCycle
    \/ Interrupt

Spec == Init /\ [][Next]_vars

-----------------------------------------------------------------------------
(* Properties. *)

\* A desired record is served by an enabled row.
Served(d) == \E i \in Rows : KeyOf(zone[i]) = KeyOf(d) /\ ~zone[i].disabled
ServedNext(d) == \E i \in Id : /\ zone'[i] # NoRow
                               /\ KeyOf(zone'[i]) = KeyOf(d)
                               /\ ~zone'[i].disabled

NameStep == (\E d \in Wanted : Served(d)) => (\E d \in Wanted : ServedNext(d))

\* While sources and refusals stay the same, a name that answers with something wanted
\* never goes dark: not in the middle of a cycle, not when requests fail or
\* their answers are lost, not when discovery is incomplete, and not when a
\* policy becomes invalid or a quota rejects what is already served.
NameStaysUp == [][NameStep]_vars

RemovalStep ==
    \A i \in Rows : zone'[i] = NoRow =>
        \A d \in Wanted : ServedNext(d) \/ LogicalUnowned(Wanted, d.type) # {}

\* A row is removed only when every desired record of the name is served,
\* save for the records withheld because someone else has rows of their type.
RemovedLast == [][RemovalStep]_vars

\* A CNAME stands alone at its name, and the rows agree on it.
CnameAlone ==
    \A i, j \in Rows :
        /\ ~CnameTypesConflict(zone[i].type, zone[j].type)
        /\ zone[i].type = "CNAME" /\ zone[j].type = "CNAME" =>
                zone[i].target = zone[j].target

\* No operation puts a CNAME beside another type or another CNAME target,
\* whatever order the operations of a cycle end up in.
CnameStaysAlone == [][CnameAlone => CnameAlone']_vars

ForeignStep ==
    \A i \in Rows :
        \/ zone'[i] = zone[i]
        \/ /\ zone[i].type \in Adoptable
           /\ mode # "restricted"
           /\ mode = "shared" => i \in claimed

\* Rows of other types are never touched, restricted discovery touches no
\* existing row, and a shared zone only rows bound to a claim.
ForeignRowsUntouched == [][ForeignStep]_vars

\* Whatever the device held, two undisturbed cycles reach a state in which the
\* planner has nothing left to do but report conflicts.  A cycle that recovers a
\* claim is not one of them: it changes what the next one may plan.  In a shared zone a
\* replacement, and the cleanup that depends on it, may wait for a person.
TwoCyclesSuffice ==
    calm = 2 =>
        LET left == EnforceRestrictedOwnershipConflicts(Wanted, TRUE)
        IN  \A op \in left :
                \/ op.kind = "conflict"
                \/ Refused(op)
                \/ IsCleanup(op) /\ \E o \in left : Refused(o)

=============================================================================
