-------------------------- MODULE ReconcileProofs --------------------------
(***************************************************************************)
(* Proofs about Reconcile: what a cycle does to the rows of a name, for    *)
(* any number of rows, records, policies and faults.                       *)
(***************************************************************************)
EXTENDS Reconcile, TLAPS

\* The rows that operations may change.
Mine == CASE mode = "exclusive"  -> AdoptableRows
          [] mode = "restricted" -> {}
          [] mode = "shared"     -> claimed

\* Operations on a row, and operations that write a desired record.
Bound == {"replace", "update", "delete", "deactivate"}
Writing == {"replace", "update", "create"}
Adding == {"replace", "create"}

\* Two records may stand at one name.
Compatible(e, d) ==
    /\ ~CnameTypesConflict(e.type, d.type)
    /\ e.type = "CNAME" /\ d.type = "CNAME" => e.target = d.target

\* An operation of the running cycle still does what it was planned for.
OpSound(op) ==
    /\ op \in Operation
    /\ op.kind \in Writing => op.want \in Wanted
    /\ op.kind = "conflict" => op.want \in Wanted
    /\ op.kind \in Bound => op.id \in Mine
    /\ op.kind \in {"conflict", "create"} => op.id = NoId
    /\ op.kind = "update" => KeyOf(zone[op.id]) = KeyOf(op.want)
    /\ op.kind \in Adding =>
          \A j \in Rows \ {op.id} : Compatible(zone[j], op.want)
    /\ op.kind = "deactivate" => op.want = Disabled(zone[op.id])

\* Two operations of one cycle do not get in each other's way.
Together(o, p) ==
    /\ o.kind \in Bound /\ p.kind \in Bound /\ o.id = p.id => o = p
    /\ o.kind \in Writing /\ p.kind \in Writing => Compatible(o.want, p.want)
    /\ ~(IsCleanup(o) /\ p.kind = "create")

\* The operations os may be attempted in the order of the plan.
Sound(os) ==
    /\ \A o \in os : OpSound(o)
    /\ \A o, p \in os : Together(o, p)

\* The record d is served by a row that the operations os leave in place.
Kept(os, d) ==
    \E i \in Rows : /\ KeyOf(zone[i]) = KeyOf(d)
                    /\ ~zone[i].disabled
                    /\ \A x \in os : x.id = i => x.kind = "update"

\* When the cleanup o is reached, d is served or withheld.
CoveredBy(os, o, d) ==
    \/ \E x \in os : x.kind \in {"update", "replace"} /\ x.want = d
    \/ Kept(os, d)
    \/ LogicalUnowned(Wanted, d.type) # {} /\ KeyOf(zone[o.id]) # KeyOf(d)

\* No cleanup among os takes a name down.
Covered(os) ==
    \A o \in os : IsCleanup(o) => \A d \in Wanted : CoveredBy(os, o, d)

\* What holds of the settings and of the rows whatever the cycle does.
Base ==
    /\ TypeOK
    /\ mode = "restricted" => cleanup = "keep"
    /\ mode = "shared" => claimed \subseteq AdoptableRows

\* Claims bind rows of the types the controller manages.
ClaimsBindRows == mode = "shared" => confirmed \subseteq AdoptableRows

\* The inductive invariant of a cycle.
SafetyInv ==
    /\ Base
    /\ ClaimsBindRows
    /\ Sound(ops)
    /\ failed \/ Covered(ops)
    /\ ~busy => ops = {} /\ failed = FALSE

-----------------------------------------------------------------------------
(* Desired records, policies and matches. *)

\* A non-empty set of provider IDs has a lowest one, which Min returns.
LEMMA LowestId ==
    ASSUME NEW S \in SUBSET Id, S # {}
    PROVE  Min(S) \in S /\ \A y \in S : Min(S) <= y
  BY IdAssumption, Zenon DEF Min

\* Wanted records are enabled, of an adoptable type, and one per key.
LEMMA WantedFacts ==
    ASSUME TypeOK
    PROVE  /\ Wanted \subseteq desired
           /\ \A d \in Wanted : d \in Record /\ d.type \in Adoptable /\ ~d.disabled
           /\ \A d, e \in Wanted : KeyOf(d) = KeyOf(e) => d = e
<1>1. Wanted \subseteq desired
  BY Zenon DEF Wanted
<1>2. desired \in Desires
  BY Zenon DEF TypeOK
<1> QED
  BY <1>1, <1>2, ReconcileAssumption, Zenon

\* What the policies allow of what the sources were seen to ask for.
LEMMA AllowedIsWanted ==
    ASSUME NEW seen \in SUBSET desired, NEW snapshot,
           NEW policies,
           policies = [policies |-> snapshot.policies \cup denying, ahead |-> snapshot.ahead]
    PROVE  Evaluate(seen, policies).allowed \subseteq Wanted
<1> DEFINE valid == {c \in seen : NamespaceOf(c) \notin InvalidNamespaces(policies)}
           accepted == {c \in valid : ~EvaluateConstraints(c, Constraints(c, policies))}
<1>1. Evaluate(seen, policies).allowed \subseteq accepted
  BY Zenon DEF Evaluate
<1>2. ASSUME NEW c \in accepted
      PROVE  c \in Wanted
  <2>1. policies.policies = snapshot.policies \cup denying
    OBVIOUS
  <2>2. SUFFICES ASSUME NEW p \in denying, p.namespace = NamespaceOf(c),
                        c \in p.selects, c \in p.refuses
                 PROVE  FALSE
    BY Zenon DEF Wanted
  <2>3. p.compiles
    BY <2>1, <2>2, Zenon DEF InvalidNamespaces
  <2>4. p \in Constraints(c, policies)
    BY <2>1, <2>2, <2>3, Zenon DEF Constraints
  <2> QED
    BY <2>2, <2>4, Zenon DEF EvaluateConstraints
<1> QED
  BY <1>1, <1>2, Zenon

\* A cycle with cleanup acts on everything that is wanted.
LEMMA ScopeIsWanted ==
    ASSUME NEW snapshot \in Snapshots, NEW policies,
           policies = [policies |-> snapshot.policies \cup denying, ahead |-> snapshot.ahead],
           CleanupScope(TRUE, policies, Evaluate(desired, policies))
    PROVE  Evaluate(desired, policies).allowed = Wanted
<1> DEFINE valid == {c \in desired : NamespaceOf(c) \notin InvalidNamespaces(policies)}
           accepted == {c \in valid : ~EvaluateConstraints(c, Constraints(c, policies))}
           allowed == Evaluate(desired, policies).allowed
<1>1. allowed \subseteq Wanted
  BY AllowedIsWanted, Zenon
<1>2. Evaluate(desired, policies).overQuota = accepted \ allowed
  BY Zenon DEF Evaluate
<1>3. accepted \subseteq allowed
  BY <1>2, Zenon DEF CleanupScope
<1>4. ASSUME NEW c \in Wanted
      PROVE  c \in accepted
  <2>1. policies.policies = snapshot.policies \cup denying
    OBVIOUS
  <2>2. c \in valid
    BY Zenon DEF CleanupScope, Wanted
  <2>3. SUFFICES ASSUME NEW p \in Constraints(c, policies), c \in p.refuses
                 PROVE  FALSE
    BY <2>2, Zenon DEF EvaluateConstraints
  <2>4. CASE p \in snapshot.policies
    BY <2>3, <2>4, ReconcileAssumption, Zenon
  <2>5. CASE p \in denying
    BY <2>3, <2>5, Zenon DEF Constraints, Wanted
  <2> QED
    BY <2>1, <2>4, <2>5, Zenon DEF Constraints
<1> QED
  BY <1>1, <1>3, <1>4, Zenon

-----------------------------------------------------------------------------
(* The planner. *)

\* The planner owns rows of adoptable types only; outside restricted discovery
\* they do not depend on what is desired.
LEMMA OwnedFacts ==
    ASSUME Base, NEW D
    PROVE  /\ Owned(D) \subseteq AdoptableRows
           /\ AdoptableRows \subseteq Rows
           /\ Rows \subseteq Id
           /\ \A i \in Rows : zone[i] \in Record
           /\ mode # "restricted" => Owned(D) = Mine
           /\ mode = "restricted" => Owned(D) = {i \in AdoptableRows : zone[i] \in D}
<1>1. mode \in {"exclusive", "restricted", "shared"}
  BY Zenon DEF Base, TypeOK, Modes
<1>2. mode = "shared" => claimed \subseteq AdoptableRows
  BY Zenon DEF Base
<1>3. /\ mode = "exclusive" => Owned(D) = AdoptableRows /\ Mine = AdoptableRows
      /\ mode = "restricted" => Owned(D) = {i \in AdoptableRows : zone[i] \in D}
      /\ mode = "shared" => Owned(D) = claimed /\ Mine = claimed
  BY Zenon DEF Owned, Mine
<1>4. Owned(D) \subseteq AdoptableRows
  BY <1>1, <1>2, <1>3, Zenon
<1>5. AdoptableRows \subseteq Rows /\ Rows \subseteq Id
  BY Zenon DEF AdoptableRows, Rows
<1>6. \A i \in Rows : zone[i] \in Record
  BY Zenon DEF Rows, Base, TypeOK
<1> QED
  BY <1>1, <1>3, <1>4, <1>5, <1>6, Zenon

\* The match of a desired record is one of its rows.
LEMMA MatchFacts ==
    ASSUME Base, NEW D, NEW d, Matches(D, d) # {}
    PROVE  /\ Match(D, d) \in Matches(D, d)
           /\ \A i \in Matches(D, d) : Match(D, d) <= i
<1>1. Matches(D, d) \in SUBSET Id
  BY OwnedFacts, ReconcileAssumption, Zenon DEF Matches
<1> QED
  BY <1>1, LowestId, Zenon DEF Match

\* Records that are present have a match.
LEMMA PresentFacts ==
    ASSUME Base, NEW D, NEW d \in Present(D)
    PROVE  /\ d \in D
           /\ Match(D, d) \in Owned(D)
           /\ KeyOf(zone[Match(D, d)]) = KeyOf(d)
           /\ \A i \in Matches(D, d) : Match(D, d) <= i
<1>1. d \in D /\ Matches(D, d) # {}
  BY Zenon DEF Present, Missing
<1> QED
  BY <1>1, MatchFacts, Zenon DEF Matches

\* Stale rows are owned, and none of them is kept as a match.
LEMMA StaleFacts ==
    ASSUME Base, NEW D \in SUBSET Wanted, NEW scope, NEW i \in Stale(D, scope)
    PROVE  /\ scope
           /\ i \in Owned(D)
           /\ \A d \in Present(D) : i # Match(D, d)
           /\ \A d \in D : KeyOf(zone[i]) = KeyOf(d) => d \in Present(D)
<1>1. scope
  BY Zenon DEF Stale
<1>2. CASE \E e \in Present(D) : i \in Matches(D, e) \ {Match(D, e)}
  <2>1. PICK e \in Present(D) : i \in Matches(D, e) /\ i # Match(D, e)
    BY <1>2, Zenon
  <2>2. \A d \in D : KeyOf(d) = KeyOf(e) => d = e
    BY <2>1, PresentFacts, WantedFacts, Zenon DEF Base
  <2>3. i \in Owned(D) /\ KeyOf(zone[i]) = KeyOf(e)
    BY <2>1, Zenon DEF Matches
  <2> QED
    BY <1>1, <2>1, <2>2, <2>3, PresentFacts
<1>3. CASE i \in Owned(D) /\ KeyOf(zone[i]) \notin KeysOf(D)
  <2>1. \A d \in D : KeyOf(d) \in KeysOf(D)
    BY Zenon DEF KeysOf
  <2> QED
    BY <1>1, <1>3, <2>1, PresentFacts
<1> DEFINE U == UNION {Matches(D, e) \ {Match(D, e)} : e \in Present(D)}
           V == {j \in Owned(D) : /\ KeyOf(zone[j]) \notin KeysOf(D)
                                  /\ \A e \in Contested(D) : e.type # zone[j].type}
<1>4. i \in U \cup V
  BY <1>1, Zenon DEF Stale
<1>5. i \in U => \E e \in Present(D) : i \in Matches(D, e) \ {Match(D, e)}
  OBVIOUS
<1> QED
  BY <1>2, <1>3, <1>4, <1>5, Zenon

\* The kinds of operations of a plan without a conflict of the whole name.
PlannedAs(D, scope, op) ==
    \/ op.kind = "conflict" /\ op = Conflict(op.want) /\ op.want \in D
    \/ /\ op.kind = "update" /\ op = Put("update", op.id, op.want)
       /\ op.want \in Present(D) /\ op.id = Match(D, op.want)
       /\ zone[op.id] # op.want
    \/ /\ op.kind = "replace" /\ op = Put("replace", op.id, op.want)
       /\ <<op.id, op.want>> \in Pairs(D, scope)
    \/ op.kind = "create" /\ op = Create(op.want) /\ op.want \in Creates(D, scope)
    \/ /\ IsCleanup(op)
       /\ \/ op = Delete(op.id) /\ cleanup = "delete"
          \/ /\ op = Put("deactivate", op.id, Disabled(zone[op.id]))
             /\ cleanup = "deactivate"
             /\ ~zone[op.id].disabled
       /\ op.id \in Stale(D, scope) \ {p[1] : p \in Pairs(D, scope)}
       /\ Creates(D, scope) = {}

\* Every operation of the plan is one of the forms PlannedAs lists.
LEMMA PlannedOps ==
    ASSUME TypeOK, NEW D, NEW scope,
           ~MutationConflict(D, scope), ~CnameTransition(D),
           NEW op \in BuildWithCleanupScope(D, scope)
    PROVE  PlannedAs(D, scope, op)
<1>1. CASE op \in {Conflict(d) : d \in Contested(D)}
  BY <1>1 DEF PlannedAs, Conflict, Contested
<1>2. CASE op \in Updates(D)
  BY <1>2 DEF PlannedAs, Updates, Put
<1>3. CASE op \in {Put("replace", p[1], p[2]) : p \in Pairs(D, scope)}
  <2>1. PICK p \in Pairs(D, scope) : op = Put("replace", p[1], p[2])
    BY <1>3, Zenon
  <2>2. p = <<p[1], p[2]>>
    BY DEF Pairs
  <2> QED
    BY <2>1, <2>2, Zenon DEF PlannedAs, Put
<1>4. CASE op \in {Create(d) : d \in Creates(D, scope)}
  BY <1>4 DEF PlannedAs, Create
<1>5. CASE op \in Cleanups(D, scope)
  <2> DEFINE rest == Stale(D, scope) \ {p[1] : p \in Pairs(D, scope)}
  <2>1. /\ Creates(D, scope) = {}
        /\ \/ cleanup = "delete" /\ op \in {Delete(i) : i \in rest}
           \/ /\ cleanup = "deactivate"
              /\ op \in {Put("deactivate", i, Disabled(zone[i])) :
                            i \in {j \in rest : ~zone[j].disabled}}
    <3>1. Creates(D, scope) = {}
      BY <1>5, Zenon DEF Cleanups
    <3>2. CASE cleanup = "delete"
      BY <1>5, <3>1, <3>2, Zenon DEF Cleanups
    <3>3. CASE cleanup = "deactivate"
      BY <1>5, <3>1, <3>3, Zenon DEF Cleanups
    <3>4. CASE cleanup = "keep"
      BY <1>5, <3>1, <3>4, Zenon DEF Cleanups
    <3> QED
      BY <3>1, <3>2, <3>3, <3>4, Zenon DEF TypeOK, Policies
  <2> HIDE DEF rest
  <2>2. CASE cleanup = "delete" /\ op \in {Delete(i) : i \in rest}
    <3>1. op = Delete(op.id) /\ op.id \in rest /\ IsCleanup(op)
      BY <2>2 DEF Delete, IsCleanup
    <3> QED
      BY <2>1, <2>2, <3>1, Zenon DEF PlannedAs, rest
  <2>3. CASE /\ cleanup = "deactivate"
             /\ op \in {Put("deactivate", i, Disabled(zone[i])) :
                            i \in {j \in rest : ~zone[j].disabled}}
    <3>1. /\ op = Put("deactivate", op.id, Disabled(zone[op.id]))
          /\ op.id \in rest /\ ~zone[op.id].disabled /\ IsCleanup(op)
      BY <2>3 DEF Put, IsCleanup
    <3> QED
      BY <2>1, <2>3, <3>1, Zenon DEF PlannedAs, rest
  <2> QED
    BY <2>1, <2>2, <2>3, Zenon
<1> QED
  BY <1>1, <1>2, <1>3, <1>4, <1>5 DEF BuildWithCleanupScope

\* A pair is a stale row and the missing record of its type, each the only one.
LEMMA PairFacts ==
    ASSUME NEW D, NEW scope, NEW i, NEW d, <<i, d>> \in Pairs(D, scope)
    PROVE  /\ cleanup = "delete"
           /\ i \in Stale(D, scope) /\ d \in Missing(D)
           /\ zone[i].type = d.type
           /\ \A j \in Stale(D, scope) : zone[j].type = d.type => j = i
           /\ \A e \in Missing(D) : e.type = d.type => e = d
<1> DEFINE P == {p \in Stale(D, scope) \X Missing(D) :
                    /\ {j \in Stale(D, scope) : zone[j].type = p[2].type} = {p[1]}
                    /\ {e \in Missing(D) : e.type = p[2].type} = {p[2]}}
<1>1. cleanup = "delete" /\ <<i, d>> \in P
  BY Zenon DEF Pairs
<1>2. /\ i \in Stale(D, scope) /\ d \in Missing(D)
      /\ {j \in Stale(D, scope) : zone[j].type = d.type} = {i}
      /\ {e \in Missing(D) : e.type = d.type} = {d}
  BY <1>1, Zenon
<1> HIDE DEF P
<1> QED
  BY <1>1, <1>2, Zenon

\* A missing record may stand beside every row of the name.
LEMMA MissingCompatible ==
    ASSUME Base, NEW D \in SUBSET Wanted, NEW scope,
           ~MutationConflict(D, scope), ~CnameTransition(D),
           NEW d \in Missing(D), NEW j \in Rows
    PROVE  Compatible(zone[j], d)
<1>1. d \in D /\ d \notin Contested(D) /\ Matches(D, d) = {}
  BY Zenon DEF Missing
<1>2. ~CnameTypesConflict(d.type, zone[j].type)
  BY <1>1, Zenon DEF MutationConflict, UnownedCnameConflict, CnameTransition,
              HasCnameTypeTransition, Unowned
<1>3. ASSUME d.type = "CNAME", zone[j].type = "CNAME"
      PROVE  FALSE
  <2>1. j \in Owned(D)
    BY <1>1, <1>3, Zenon DEF Contested, LogicalUnowned, Unowned
  <2>2. ASSUME NEW e \in D
        PROVE  e = d
    BY <1>1, <1>3, Zenon DEF MutationConflict, DesiredSetConflict, CnameTypesConflict
  <2>3. D = {d}
    BY <1>1, <2>2, Zenon
  <2>4. \A i \in Owned(D) : KeyOf(zone[i]) # KeyOf(d)
    BY <1>1, Zenon DEF Matches
  <2> QED
    BY <1>1, <1>3, <2>1, <2>3, <2>4, Zenon DEF CnameTransition, NeedsCnameTargetReplacement
<1> QED
  BY <1>2, <1>3, Zenon DEF Compatible, CnameTypesConflict

\* Desired records that do not conflict may stand beside each other.
LEMMA DesiredCompatible ==
    ASSUME NEW D, NEW scope, ~MutationConflict(D, scope), NEW d \in D, NEW e \in D
    PROVE  Compatible(d, e)
BY Zenon DEF MutationConflict, DesiredSetConflict, Compatible

\* A transition replaces the only owned row by the only desired record, which
\* may stand beside every other row.
LEMMA TransitionFacts ==
    ASSUME Base, NEW D, NEW scope, ~MutationConflict(D, scope), CnameTransition(D)
    PROVE  \E i \in Owned(D), d \in D :
              /\ Owned(D) = {i} /\ D = {d}
              /\ LogicalUnowned(D, d.type) = {}
              /\ BuildWithCleanupScope(D, scope) = {Put("replace", i, d)}
              /\ \A j \in Rows \ {i} : Compatible(zone[j], d)
<1>1. CnameReplaceable(D, scope)
  BY Zenon DEF MutationConflict
<1>2. PICK d \in D : D = {d} /\ LogicalUnowned(D, d.type) = {}
  BY <1>1, Zenon DEF CnameReplaceable
<1>3. PICK i \in Owned(D) : Owned(D) = {i}
  BY <1>1, Zenon DEF CnameReplaceable
<1>4. BuildWithCleanupScope(D, scope) = {Put("replace", k, e) : k \in Owned(D), e \in D}
  BY DEF BuildWithCleanupScope
<1>5. BuildWithCleanupScope(D, scope) = {Put("replace", i, d)}
  BY <1>2, <1>3, <1>4
<1>6. ASSUME NEW j \in Rows \ {i}
      PROVE  Compatible(zone[j], d)
  <2>1. j \in Unowned(D)
    BY <1>3, Zenon DEF Unowned
  <2>2. ~CnameTypesConflict(d.type, zone[j].type)
    BY <2>1, Zenon DEF MutationConflict, UnownedCnameConflict
  <2>3. zone[j].type # d.type
    BY <1>2, <2>1, Zenon DEF LogicalUnowned
  <2> QED
    BY <2>2, <2>3, Zenon DEF Compatible, CnameTypesConflict
<1> QED
  BY <1>2, <1>3, <1>5, <1>6, Zenon

\* Restricted discovery changes no row.
LEMMA RestrictedPlan ==
    ASSUME Base, mode = "restricted", NEW D \in SUBSET Wanted, NEW scope,
           ~MutationConflict(D, scope)
    PROVE  /\ ~CnameTransition(D)
           /\ \A op : PlannedAs(D, scope, op) => op.kind \in {"conflict", "create"}
<1>1. /\ \A i \in Owned(D) : zone[i] \in D
      /\ cleanup = "keep"
  BY OwnedFacts, Zenon DEF Base
<1>2. ~CnameTransition(D)
  BY <1>1, Zenon DEF CnameTransition, NeedsCnameTargetReplacement, HasCnameTypeTransition,
              MutationConflict, DesiredSetConflict
<1>3. ASSUME NEW d \in Present(D)
      PROVE  zone[Match(D, d)] = d
  BY <1>1, PresentFacts, WantedFacts DEF Base
<1>4. Pairs(D, scope) = {}
  BY <1>1, Zenon DEF Pairs
<1> QED
  BY <1>1, <1>2, <1>3, <1>4, Zenon DEF PlannedAs

\* What the planner proposes may be carried out.
LEMMA PlannedIsSound ==
    ASSUME Base, NEW D \in SUBSET Wanted, NEW scope,
           ~MutationConflict(D, scope), ~CnameTransition(D),
           NEW op, PlannedAs(D, scope, op)
    PROVE  OpSound(op)
<1>1. \A d \in Wanted : d \in Record
  BY WantedFacts, Zenon DEF Base
<1>2. mode = "restricted" => op.kind \in {"conflict", "create"}
  BY RestrictedPlan, Zenon
<1>3. /\ mode # "restricted" => Owned(D) = Mine
      /\ Owned(D) \subseteq Id
      /\ \A i \in Owned(D) : zone[i] \in Record
  BY OwnedFacts, Zenon
<1>4. CASE op.kind = "conflict" /\ op = Conflict(op.want) /\ op.want \in D
  BY <1>1, <1>4 DEF OpSound, Operation, Kinds, Conflict, Writing, Bound, Adding
<1>5. CASE /\ op.kind = "update" /\ op = Put("update", op.id, op.want)
           /\ op.want \in Present(D) /\ op.id = Match(D, op.want)
  <2>1. op.want \in D /\ op.id \in Owned(D) /\ KeyOf(zone[op.id]) = KeyOf(op.want)
    BY <1>5, PresentFacts
  <2>2. op \in Operation
    BY <1>1, <1>3, <1>5, <2>1, Zenon DEF Operation, Kinds, Put
  <2> QED
    BY <1>2, <1>3, <1>5, <2>1, <2>2, Zenon DEF OpSound, Writing, Bound, Adding
<1>6. CASE /\ op.kind = "replace" /\ op = Put("replace", op.id, op.want)
           /\ <<op.id, op.want>> \in Pairs(D, scope)
  <2>1. op.id \in Stale(D, scope) /\ op.want \in Missing(D)
    BY <1>6, PairFacts
  <2>2. op.id \in Owned(D) /\ op.want \in D
    BY <2>1, StaleFacts, Zenon DEF Missing
  <2>3. op \in Operation
    BY <1>1, <1>3, <1>6, <2>2, Zenon DEF Operation, Kinds, Put
  <2>4. \A j \in Rows : Compatible(zone[j], op.want)
    BY <2>1, MissingCompatible, Zenon
  <2> QED
    BY <1>2, <1>3, <1>6, <2>2, <2>3, <2>4, Zenon DEF OpSound, Writing, Bound, Adding
<1>7. CASE op.kind = "create" /\ op = Create(op.want) /\ op.want \in Creates(D, scope)
  <2>1. op.want \in Missing(D) /\ op.want \in D
    BY <1>7, Zenon DEF Creates, Missing
  <2>2. op \in Operation /\ op.id = NoId
    BY <1>1, <1>7, <2>1 DEF Operation, Kinds, Create
  <2>3. \A j \in Rows : Compatible(zone[j], op.want)
    BY <2>1, MissingCompatible, Zenon
  <2> QED
    BY <1>7, <2>1, <2>2, <2>3, Zenon DEF OpSound, Writing, Bound, Adding
<1>8. CASE /\ \/ op = Delete(op.id)
              \/ op = Put("deactivate", op.id, Disabled(zone[op.id]))
           /\ op.id \in Stale(D, scope)
  <2>1. op.id \in Owned(D)
    BY <1>8, StaleFacts, Zenon
  <2>2. Disabled(zone[op.id]) \in Record
    BY <1>3, <2>1, ReconcileAssumption, Zenon
  <2>3. op \in Operation /\ op.kind \in {"delete", "deactivate"}
    BY <1>3, <1>8, <2>1, <2>2 DEF Operation, Kinds, Put, Delete
  <2>4. op.kind = "deactivate" => op.want = Disabled(zone[op.id])
    BY <1>8 DEF Put, Delete
  <2> QED
    BY <1>2, <1>3, <2>1, <2>3, <2>4, Zenon DEF OpSound, Writing, Bound, Adding
<1> QED
  BY <1>4, <1>5, <1>6, <1>7, <1>8, Zenon DEF PlannedAs

\* No two operations of a plan are on the same row, their records may stand
\* beside each other, and cleanup waits for creation.
LEMMA PlannedTogether ==
    ASSUME Base, NEW D \in SUBSET Wanted, NEW scope,
           ~MutationConflict(D, scope), ~CnameTransition(D),
           NEW o, NEW p, PlannedAs(D, scope, o), PlannedAs(D, scope, p)
    PROVE  Together(o, p)
<1> DEFINE Of(op) ==
              /\ op.kind \in Writing => op.want \in D
              /\ op.kind = "update" => /\ op = Put("update", op.id, op.want)
                                       /\ op.want \in Present(D)
                                       /\ op.id = Match(D, op.want)
              /\ op.kind = "replace" => /\ op = Put("replace", op.id, op.want)
                                        /\ <<op.id, op.want>> \in Pairs(D, scope)
              /\ op.kind \in {"replace", "delete", "deactivate"} => op.id \in Stale(D, scope)
              /\ IsCleanup(op) => /\ Creates(D, scope) = {}
                                  /\ op.id \notin {q[1] : q \in Pairs(D, scope)}
                                  /\ \/ op = Delete(op.id) /\ cleanup = "delete"
                                     \/ /\ op = Put("deactivate", op.id, Disabled(zone[op.id]))
                                        /\ cleanup = "deactivate"
              /\ op.kind = "create" => op.want \in Creates(D, scope)
<1> HIDE DEF Of
<1>1. ASSUME NEW op, PlannedAs(D, scope, op)
      PROVE  Of(op)
  <2>1. op.kind = "update" => op.want \in D
    BY <1>1, PresentFacts, Zenon DEF PlannedAs, IsCleanup
  <2>2. op.kind = "replace" => op.id \in Stale(D, scope) /\ op.want \in D
    BY <1>1, PairFacts DEF PlannedAs, IsCleanup, Missing
  <2>3. op.kind = "create" => op.want \in D /\ op.want \in Creates(D, scope)
    BY <1>1, Zenon DEF PlannedAs, IsCleanup, Creates, Missing
  <2>4. op.kind \in Writing => op.want \in D
    BY <2>1, <2>2, <2>3, Zenon DEF Writing
  <2>5. op.kind \in {"delete", "deactivate"} => op.id \in Stale(D, scope)
    BY <1>1, Zenon DEF PlannedAs, IsCleanup
  <2>6. IsCleanup(op) => /\ Creates(D, scope) = {}
                         /\ op.id \notin {q[1] : q \in Pairs(D, scope)}
                         /\ \/ op = Delete(op.id) /\ cleanup = "delete"
                            \/ /\ op = Put("deactivate", op.id, Disabled(zone[op.id]))
                               /\ cleanup = "deactivate"
    BY <1>1, Zenon DEF PlannedAs, IsCleanup
  <2>7. op.kind = "update" => /\ op = Put("update", op.id, op.want)
                              /\ op.want \in Present(D)
                              /\ op.id = Match(D, op.want)
    BY <1>1, Zenon DEF PlannedAs, IsCleanup
  <2>8. op.kind = "replace" => /\ op = Put("replace", op.id, op.want)
                               /\ <<op.id, op.want>> \in Pairs(D, scope)
    BY <1>1, Zenon DEF PlannedAs, IsCleanup
  <2> QED
    BY <2>2, <2>3, <2>4, <2>5, <2>6, <2>7, <2>8, Zenon DEF Of
<1>2. Of(o) /\ Of(p)
  BY <1>1, Zenon
<1>3. ASSUME NEW x, NEW y, Of(x), Of(y), x.kind = "update", y.kind \in Bound, x.id = y.id
      PROVE  x = y
  <2>1. y.kind = "update"
    BY <1>3, StaleFacts, Zenon DEF Bound, Of
  <2>2. KeyOf(x.want) = KeyOf(y.want) /\ x.want \in D /\ y.want \in D
    BY <1>3, <2>1, PresentFacts DEF Of
  <2>3. x.want = y.want
    BY <2>2, WantedFacts, Zenon DEF Base
  <2> QED
    BY <1>3, <2>1, <2>3, Zenon DEF Of
<1>4. ASSUME NEW x, NEW y, Of(x), Of(y), x.kind = "replace", y.kind \in Bound \ {"update"},
             x.id = y.id
      PROVE  x = y
  <2>1. <<x.id, x.want>>[1] = x.id
    OBVIOUS
  <2>2. x.id \in {q[1] : q \in Pairs(D, scope)}
    BY <1>4, <2>1, Zenon DEF Of
  <2>3. y.kind = "replace"
    BY <1>4, <2>2, Zenon DEF Bound, IsCleanup, Of
  <2>4. x.want \in Missing(D) /\ y.want \in Missing(D) /\ x.want.type = y.want.type
    BY <1>4, <2>3, PairFacts DEF Of
  <2>5. x.want = y.want
    BY <1>4, <2>4, PairFacts DEF Of
  <2> QED
    BY <1>4, <2>3, <2>5, Zenon DEF Of
<1>5. ASSUME NEW x, NEW y, Of(x), Of(y), IsCleanup(x), IsCleanup(y), x.id = y.id
      PROVE  x = y
  BY <1>5, Zenon DEF Of
<1>6. o.kind \in Bound /\ p.kind \in Bound /\ o.id = p.id => o = p
  BY <1>2, <1>3, <1>4, <1>5, Zenon DEF Bound, IsCleanup
<1>7. o.kind \in Writing /\ p.kind \in Writing => Compatible(o.want, p.want)
  BY <1>2, DesiredCompatible, Zenon DEF Of
<1>8. ~(IsCleanup(o) /\ p.kind = "create")
  BY <1>2, Zenon DEF Of
<1> QED
  BY <1>6, <1>7, <1>8, Zenon DEF Together

\* The parts of a plan without a conflict of the whole name.
LEMMA PlanParts ==
    ASSUME NEW D, NEW scope, ~MutationConflict(D, scope), ~CnameTransition(D)
    PROVE  LET os == BuildWithCleanupScope(D, scope)
           IN  /\ Updates(D) \subseteq os
               /\ \A p \in Pairs(D, scope) : Put("replace", p[1], p[2]) \in os
               /\ \A d \in Creates(D, scope) : Create(d) \in os
               /\ Cleanups(D, scope) \subseteq os
<1> DEFINE C == {Conflict(d) : d \in Contested(D)}
           R == {Put("replace", p[1], p[2]) : p \in Pairs(D, scope)}
           N == {Create(d) : d \in Creates(D, scope)}
<1>1. BuildWithCleanupScope(D, scope)
        = C \cup Updates(D) \cup R \cup N \cup Cleanups(D, scope)
  BY DEF BuildWithCleanupScope
<1>2. /\ \A p \in Pairs(D, scope) : Put("replace", p[1], p[2]) \in R
      /\ \A d \in Creates(D, scope) : Create(d) \in N
  OBVIOUS
<1> HIDE DEF C, R, N
<1> QED
  BY <1>1, <1>2, Zenon

\* The shape of a plan: a conflict of the whole name, the replacement of a
\* transition, or operations that are planned one by one.
LEMMA PlanShape ==
    ASSUME Base, NEW D \in SUBSET Wanted, NEW scope, NEW os,
           os = EnforceRestrictedOwnershipConflicts(D, scope)
    PROVE  \/ \E d \in D : os = {Conflict(d)}
           \/ /\ ~MutationConflict(D, scope) /\ CnameTransition(D)
              /\ mode # "restricted"
              /\ os = BuildWithCleanupScope(D, scope)
              /\ \E i \in Owned(D), d \in D : os = {Put("replace", i, d)}
           \/ /\ ~MutationConflict(D, scope) /\ ~CnameTransition(D)
              /\ os = BuildWithCleanupScope(D, scope)
<1>1. CASE RestrictedConflict(D)
  <2>1. D # {} /\ os = {Conflict(CHOOSE d \in D : TRUE)}
    BY <1>1, Zenon DEF RestrictedConflict, EnforceRestrictedOwnershipConflicts
  <2> QED
    BY <2>1, Zenon
<1>2. CASE ~RestrictedConflict(D) /\ MutationConflict(D, scope)
  <2>1. D # {}
    BY <1>2, Zenon DEF MutationConflict, DesiredSetConflict, UnownedCnameConflict,
                CnameTransition, NeedsCnameTargetReplacement, HasCnameTypeTransition
  <2>2. os = {Conflict(CHOOSE d \in D : TRUE)}
    BY <1>2 DEF EnforceRestrictedOwnershipConflicts, BuildWithCleanupScope
  <2> QED
    BY <2>1, <2>2, Zenon
<1>3. CASE ~RestrictedConflict(D) /\ ~MutationConflict(D, scope)
  <2>1. os = BuildWithCleanupScope(D, scope)
    BY <1>3, Zenon DEF EnforceRestrictedOwnershipConflicts
  <2>2. mode = "restricted" => ~CnameTransition(D)
    BY <1>3, RestrictedPlan, Zenon
  <2>3. CnameTransition(D) => \E i \in Owned(D), d \in D : os = {Put("replace", i, d)}
    BY <1>3, <2>1, TransitionFacts
  <2> QED
    BY <1>3, <2>1, <2>2, <2>3, Zenon
<1> QED
  BY <1>1, <1>2, <1>3, Zenon

\* The plan is sound when it is made.
LEMMA PlanSound ==
    ASSUME Base, NEW D \in SUBSET Wanted, NEW scope, NEW os,
           os = EnforceRestrictedOwnershipConflicts(D, scope)
    PROVE  Sound(os)
<1>1. \A d \in Wanted : d \in Record
  BY WantedFacts, Zenon DEF Base
<1>2. CASE \E d \in D : os = {Conflict(d)}
  <2>1. PICK d \in D : os = {Conflict(d)}
    BY <1>2, Zenon
  <2>2. Conflict(d).kind = "conflict"
    BY Zenon DEF Conflict
  <2>3. OpSound(Conflict(d))
    BY <1>1, <2>1, Zenon DEF OpSound, Operation, Kinds, Conflict, Writing, Bound, Adding
  <2>4. Together(Conflict(d), Conflict(d))
    BY <2>2, Zenon DEF Together, IsCleanup, Writing, Bound
  <2> QED
    BY <2>1, <2>3, <2>4, Zenon DEF Sound
<1>3. CASE /\ ~MutationConflict(D, scope) /\ CnameTransition(D)
           /\ mode # "restricted"
           /\ os = BuildWithCleanupScope(D, scope)
  <2>1. PICK i \in Owned(D), d \in D :
              /\ os = {Put("replace", i, d)}
              /\ \A j \in Rows \ {i} : Compatible(zone[j], d)
    BY <1>3, TransitionFacts
  <2> DEFINE op == Put("replace", i, d)
  <2>2. op.kind = "replace" /\ op.id = i /\ op.want = d
    BY Zenon DEF Put
  <2>3. i \in Id /\ i \in Mine /\ d \in Wanted
    BY <1>3, OwnedFacts, Zenon
  <2>4. op \in Operation
    BY <1>1, <2>3, Zenon DEF Operation, Kinds, Put
  <2> HIDE DEF op
  <2>5. OpSound(op)
    BY <2>1, <2>2, <2>3, <2>4, Zenon DEF OpSound, Writing, Bound, Adding
  <2>6. Together(op, op)
    BY <1>3, <2>2, DesiredCompatible, Zenon DEF Together, IsCleanup
  <2> QED
    BY <2>1, <2>5, <2>6, Zenon DEF Sound, op
<1>4. CASE /\ ~MutationConflict(D, scope) /\ ~CnameTransition(D)
           /\ os = BuildWithCleanupScope(D, scope)
  <2>1. \A op \in os : PlannedAs(D, scope, op)
    BY <1>4, PlannedOps, Zenon DEF Base
  <2> QED
    BY <1>4, <2>1, PlannedIsSound, PlannedTogether, Zenon DEF Sound
<1> QED
  BY <1>2, <1>3, <1>4, PlanShape, Zenon

\* Cleanup is planned when every wanted record is served, about to be written,
\* or withheld.
LEMMA PlanCovered ==
    ASSUME Base, NEW scope, NEW os,
           os = EnforceRestrictedOwnershipConflicts(Wanted, scope)
    PROVE  Covered(os)
<1> SUFFICES ASSUME NEW o \in os, IsCleanup(o), NEW d \in Wanted
             PROVE  CoveredBy(os, o, d)
  BY Zenon DEF Covered
<1>1. /\ ~MutationConflict(Wanted, scope) /\ ~CnameTransition(Wanted)
      /\ os = BuildWithCleanupScope(Wanted, scope)
  <2>1. ~\E e \in Wanted : os = {Conflict(e)}
    <3> SUFFICES ASSUME NEW e \in Wanted, os = {Conflict(e)}
                 PROVE  FALSE
      OBVIOUS
    <3>1. o = Conflict(e)
      OBVIOUS
    <3> QED
      BY <3>1, Zenon DEF Conflict, IsCleanup
  <2>2. ~\E i \in Owned(Wanted), e \in Wanted : os = {Put("replace", i, e)}
    <3> SUFFICES ASSUME NEW i \in Owned(Wanted), NEW e \in Wanted, os = {Put("replace", i, e)}
                 PROVE  FALSE
      OBVIOUS
    <3>1. o = Put("replace", i, e)
      OBVIOUS
    <3> QED
      BY <3>1, Zenon DEF Put, IsCleanup
  <2> QED
    BY <2>1, <2>2, PlanShape
<1>2. \A x \in os : PlannedAs(Wanted, scope, x)
  BY <1>1, PlannedOps, Zenon DEF Base
<1>3. /\ o.id \in Stale(Wanted, scope)
      /\ Creates(Wanted, scope) = {}
  BY <1>2, Zenon DEF PlannedAs, IsCleanup
<1>4. CASE d \in Contested(Wanted)
  <2>1. d \notin Present(Wanted)
    BY <1>4, Zenon DEF Present
  <2>2. KeyOf(zone[o.id]) # KeyOf(d)
    BY <1>3, <2>1, StaleFacts, Zenon
  <2> QED
    BY <1>4, <2>2, Zenon DEF CoveredBy, Contested
<1>5. CASE d \in Missing(Wanted)
  <2>1. PICK p \in Pairs(Wanted, scope) : p[2] = d
    BY <1>3, <1>5, Zenon DEF Creates
  <2>2. Put("replace", p[1], p[2]) \in os
    BY <1>1, PlanParts, Zenon
  <2> QED
    BY <2>1, <2>2, Zenon DEF CoveredBy, Put
<1>6. CASE d \in Present(Wanted)
  <2> DEFINE i == Match(Wanted, d)
  <2>1. i \in Owned(Wanted) /\ KeyOf(zone[i]) = KeyOf(d)
    BY <1>6, PresentFacts, Zenon
  <2>2. i \in Rows /\ i \in Id
    BY <2>1, OwnedFacts, Zenon
  <2>3. CASE zone[i] # d
    <3>1. Put("update", i, d) \in Updates(Wanted)
      BY <1>6, <2>3, Zenon DEF Updates
    <3>2. Put("update", i, d) \in os
      BY <1>1, <3>1, PlanParts, Zenon
    <3> QED
      BY <3>2, Zenon DEF CoveredBy, Put
  <2>4. CASE zone[i] = d
    <3>1. ~d.disabled
      BY WantedFacts, Zenon DEF Base
    <3>2. ASSUME NEW x \in os, x.id = i
          PROVE  x.kind = "update"
      <4>1. OpSound(x)
        BY PlanSound, Zenon DEF Sound
      <4>2. x.kind \notin {"conflict", "create"}
        BY <2>2, <3>2, <4>1, ReconcileAssumption, Zenon DEF OpSound
      <4>3. x.id \notin Stale(Wanted, scope)
        BY <1>6, <3>2, StaleFacts, Zenon
      <4>4. x.kind \notin {"delete", "deactivate"}
        BY <1>2, <4>3, Zenon DEF PlannedAs, IsCleanup
      <4>5. x.kind # "replace"
        BY <1>2, <4>3, PairFacts, Zenon DEF PlannedAs, IsCleanup
      <4> QED
        BY <4>1, <4>2, <4>4, <4>5, Zenon DEF OpSound, Operation, Kinds
    <3> QED
      BY <2>1, <2>2, <2>4, <3>1, <3>2, Zenon DEF CoveredBy, Kept
  <2> QED
    BY <2>3, <2>4, Zenon
<1> QED
  BY <1>4, <1>5, <1>6, Zenon DEF Present

-----------------------------------------------------------------------------
(* Steps of a cycle. *)

\* A request changes the row i to v and no other.
Written(i, v) ==
    /\ zone' \in [Id -> Record \cup {NoRow}]
    /\ zone'[i] = v
    /\ \A j \in Id \ {i} : zone'[j] = zone[j]

\* What the settings of a run are.
Settings == <<mode, cleanup, desired, denying>>

\* The operation writes v to the row i: an unused one when it creates, else its own.
Affects(op, i, v) ==
    /\ op.kind \in {"create", "update", "replace", "delete", "deactivate"}
    /\ Written(i, v)
    /\ op.kind = "create" =>
          /\ i = NewId /\ i \notin Rows /\ v = op.want /\ v \in Wanted
          /\ claimed' = IF mode = "shared" THEN claimed \cup {i} ELSE claimed
    /\ op.kind # "create" => i = op.id /\ i \in Mine
    /\ op.kind = "delete" => v = NoRow /\ claimed' = claimed \ {i}
    /\ op.kind \in {"update", "replace", "deactivate"} => v = op.want /\ claimed' = claimed
    /\ v # NoRow => v.type \in Adoptable
    /\ op.kind # "delete" => v \in Record

\* A sound operation that takes effect writes a row it may write.
LEMMA EffectFacts ==
    ASSUME Base, Sound(ops), NEW op \in ops, op.kind # "conflict", Effect(op)
    PROVE  \E i \in Id, v \in Record \cup {NoRow} : Affects(op, i, v)
<1>1. OpSound(op)
  BY Zenon DEF Sound
<1>2. zone \in [Id -> Record \cup {NoRow}]
  BY Zenon DEF Base, TypeOK
<1>3. \A d \in Wanted : d \in Record /\ d.type \in Adoptable
  BY WantedFacts, Zenon DEF Base
<1>4. Mine \subseteq AdoptableRows /\ AdoptableRows \subseteq Id
  BY Zenon DEF Mine, AdoptableRows, Rows, Base, TypeOK, Modes
<1>5. \A i \in AdoptableRows : zone[i] \in Record /\ zone[i].type \in Adoptable
  BY <1>2, Zenon DEF AdoptableRows, Rows
<1>6. CASE op.kind = "create"
  <2> DEFINE i == NewId
  <2>1. Id \ Rows # {} /\ zone' = [zone EXCEPT ![i] = op.want]
    BY <1>6, Zenon DEF Effect
  <2>2. i \in Id \ Rows
    BY <2>1, LowestId, Zenon DEF NewId
  <2>3. claimed' = IF mode = "shared" THEN claimed \cup {i} ELSE claimed
    BY <1>6, Zenon DEF Effect, Claims
  <2>4. op.want \in Wanted
    BY <1>1, <1>6, Zenon DEF OpSound, Writing
  <2>7. i = NewId
    OBVIOUS
  <2> HIDE DEF i
  <2>5. Written(i, op.want)
    BY <1>2, <1>3, <2>1, <2>2, <2>4, Zenon DEF Written
  <2>6. Affects(op, i, op.want)
    BY <1>3, <1>6, <2>2, <2>3, <2>4, <2>5, <2>7, Zenon DEF Affects
  <2> QED
    BY <1>3, <2>2, <2>4, <2>6, Zenon
<1>7. CASE op.kind = "delete"
  <2>1. op.id \in Mine /\ op.id \in Id
    BY <1>1, <1>4, <1>7, Zenon DEF OpSound, Bound
  <2>2. zone' = [zone EXCEPT ![op.id] = NoRow] /\ claimed' = claimed \ {op.id}
    BY <1>7, Zenon DEF Effect, Claims
  <2>3. Written(op.id, NoRow)
    BY <1>2, <2>1, <2>2, Zenon DEF Written
  <2>4. Affects(op, op.id, NoRow)
    BY <1>7, <2>1, <2>2, <2>3, Zenon DEF Affects
  <2> QED
    BY <2>1, <2>4, Zenon
<1>8. CASE op.kind \in {"update", "replace", "deactivate"}
  <2>1. op.id \in Mine /\ op.id \in Id
    BY <1>1, <1>4, <1>8, Zenon DEF OpSound, Bound
  <2>2. zone' = [zone EXCEPT ![op.id] = op.want] /\ claimed' = claimed
    BY <1>8, Zenon DEF Effect, Claims
  <2>3. op.want \in Record /\ op.want.type \in Adoptable
    <3>1. CASE op.kind \in {"update", "replace"}
      BY <1>1, <1>3, <3>1, Zenon DEF OpSound, Writing
    <3>2. CASE op.kind = "deactivate"
      <4>1. op.want = Disabled(zone[op.id])
        BY <1>1, <3>2, Zenon DEF OpSound
      <4>2. zone[op.id] \in Record /\ zone[op.id].type \in Adoptable
        BY <1>4, <1>5, <2>1, Zenon
      <4> QED
        BY <4>1, <4>2, ReconcileAssumption DEF Disabled
    <3> QED
      BY <1>8, <3>1, <3>2, Zenon
  <2>4. Written(op.id, op.want)
    BY <1>2, <2>1, <2>2, <2>3, Zenon DEF Written
  <2>5. Affects(op, op.id, op.want)
    BY <1>8, <2>1, <2>2, <2>3, <2>4, Zenon DEF Affects
  <2> QED
    BY <2>1, <2>3, <2>5, Zenon
<1> QED
  BY <1>1, <1>6, <1>7, <1>8, Zenon DEF OpSound, Operation, Kinds

\* A request keeps the rest of the plan sound and its cleanup covered.
LEMMA EffectKeeps ==
    ASSUME Base, Sound(ops), failed \/ Covered(ops), NEW op \in ops,
           op.kind # "conflict", Effect(op), Attempted(op),
           UNCHANGED Settings, failed => failed'
    PROVE  /\ zone' \in [Id -> Record \cup {NoRow}]
           /\ claimed' \subseteq Id
           /\ mode' = "shared" => claimed' \subseteq AdoptableRows'
           /\ Sound(ops)'
           /\ (failed \/ Covered(ops))'
<1>1. PICK i \in Id, v \in Record \cup {NoRow} : Affects(op, i, v)
  BY EffectFacts, Zenon
<1>2. /\ mode' = mode /\ cleanup' = cleanup /\ Wanted' = Wanted
      /\ ops' = ops \ {op}
  BY Zenon DEF Settings, Wanted, Attempted
<1>3. /\ op \in Operation
      /\ op.kind \in {"create", "update", "replace", "delete", "deactivate"}
  BY <1>1, Zenon DEF Sound, OpSound, Affects
<1>4. /\ zone \in [Id -> Record \cup {NoRow}]
      /\ zone' \in [Id -> Record \cup {NoRow}]
      /\ zone'[i] = v
      /\ \A j \in Id \ {i} : zone'[j] = zone[j]
  BY <1>1, Zenon DEF Base, TypeOK, Written, Affects
<1>5. mode \in {"exclusive", "restricted", "shared"}
  BY Zenon DEF Base, TypeOK, Modes
<1>6. Mine \subseteq AdoptableRows /\ AdoptableRows \subseteq Rows /\ Rows \subseteq Id
  BY <1>5, Zenon DEF Mine, AdoptableRows, Rows, Base
<1>7. /\ Rows' \subseteq Id
      /\ \A j \in Id \ {i} : /\ j \in Rows' <=> j \in Rows
                             /\ j \in AdoptableRows' <=> j \in AdoptableRows
                             /\ j \in claimed' <=> j \in claimed
      /\ i \in Rows' <=> v # NoRow
      /\ i \in AdoptableRows' <=> v # NoRow
  BY <1>1, <1>3, <1>4, ReconcileAssumption, Zenon DEF Rows, AdoptableRows, Affects
<1>8. claimed' \subseteq Id
  BY <1>1, <1>3, Zenon DEF Base, TypeOK, Affects
<1>9. mode' = "shared" => claimed' \subseteq AdoptableRows'
  <2>1. mode = "shared" => claimed \subseteq AdoptableRows
    BY Zenon DEF Base
  <2>2. op.kind # "delete" => v # NoRow
    BY <1>1, ReconcileAssumption, Zenon DEF Affects
  <2>3. op.kind = "delete" => i \notin claimed'
    BY <1>1, Zenon DEF Affects
  <2> QED
    BY <1>2, <1>7, <1>8, <2>1, <2>2, <2>3, Zenon
<1>10. \A j \in Id \ {i} : j \in Mine' <=> j \in Mine
  BY <1>2, <1>5, <1>7, Zenon DEF Mine
<1>11. ASSUME NEW o \in ops \ {op}
       PROVE  /\ OpSound(o) /\ o.id # i
              /\ o.kind \in Bound => o.id \in Id /\ o.id \in Rows
  <2>1. OpSound(o) /\ OpSound(op) /\ Together(o, op)
    BY Zenon DEF Sound
  <2>2. o.kind \in Bound => o.id \in Id /\ o.id \in Rows
    BY <1>6, <2>1, Zenon DEF OpSound
  <2>3. o.kind \notin Bound => o.id = NoId
    BY <2>1, Zenon DEF OpSound, Operation, Kinds, Bound
  <2>4. o.id # i
    BY <1>1, <1>3, <2>1, <2>2, <2>3, ReconcileAssumption, Zenon DEF Together, Bound, Affects
  <2> QED
    BY <2>1, <2>2, <2>4, Zenon
<1>12. ASSUME NEW o \in ops \ {op}
       PROVE  OpSound(o)'
  <2>1. o.kind \in Bound => o.id \in Mine' /\ zone'[o.id] = zone[o.id]
    BY <1>4, <1>10, <1>11, Zenon DEF OpSound
  <2>2. ASSUME o.kind \in Adding, NEW j \in Rows' \ {o.id}
        PROVE  Compatible(zone'[j], o.want)
    <3>1. CASE j # i
      BY <1>4, <1>7, <1>11, <2>2, <3>1, Zenon DEF OpSound
    <3>2. CASE j = i /\ op.kind \in Writing
      <4>1. v = op.want
        BY <1>1, <3>2, Zenon DEF Writing, Affects
      <4>2. Together(op, o) /\ o.kind \in Writing
        BY <2>2, Zenon DEF Sound, Writing, Adding
      <4> QED
        BY <1>4, <3>2, <4>1, <4>2, Zenon DEF Together
    <3>3. CASE j = i /\ op.kind = "deactivate"
      <4>1. v = Disabled(zone[i]) /\ i \in Rows /\ i # o.id
        BY <1>1, <1>6, <1>11, <3>3, Zenon DEF Sound, OpSound, Affects
      <4>2. v.type = zone[i].type /\ v.target = zone[i].target
        BY <4>1, Zenon DEF Disabled
      <4>3. Compatible(zone[i], o.want)
        BY <1>11, <2>2, <4>1, Zenon DEF OpSound
      <4> QED
        BY <1>4, <3>3, <4>2, <4>3, Zenon DEF Compatible
    <3>4. CASE j = i /\ op.kind = "delete"
      BY <1>1, <1>7, <2>2, <3>4, Zenon DEF Affects
    <3> QED
      BY <1>3, <3>1, <3>2, <3>3, <3>4, Zenon DEF Writing
  <2>3. OpSound(o)
    BY <1>11, Zenon
  <2>4. /\ o.kind \in Writing => o.want \in Wanted'
        /\ o.kind = "conflict" => o.want \in Wanted'
    BY <1>2, <2>3, Zenon DEF OpSound
  <2>5. o.kind = "update" => KeyOf(zone'[o.id]) = KeyOf(o.want)
    BY <2>1, <2>3, Zenon DEF OpSound, Bound
  <2>6. o.kind = "deactivate" => o.want = Disabled(zone'[o.id])
    BY <2>1, <2>3, Zenon DEF OpSound, Bound
  <2>7. o \in Operation /\ (o.kind \in {"conflict", "create"} => o.id = NoId)
    BY <2>3, Zenon DEF OpSound
  <2> QED
    BY <2>1, <2>2, <2>4, <2>5, <2>6, <2>7, Zenon DEF OpSound
<1>13. Sound(ops)'
  BY <1>2, <1>12, Zenon DEF Sound, Together
<1>14. ASSUME ~failed', NEW o \in ops \ {op}, IsCleanup(o), NEW d \in Wanted
       PROVE  CoveredBy(ops, o, d)'
  <2>1. CoveredBy(ops, o, d) /\ ~failed
    BY <1>14, Zenon DEF Covered
  <2>2. \A e \in Wanted : ~e.disabled /\ e \in Record
    BY WantedFacts, Zenon DEF Base
  <2>3. CASE \E x \in ops \ {op} : x.kind \in {"update", "replace"} /\ x.want = d
    BY <1>2, <2>3, Zenon DEF CoveredBy
  <2>4. CASE op.kind \in {"update", "replace"} /\ op.want = d
    <3>1. zone'[i] = d /\ i \in Rows'
      BY <1>1, <1>4, <1>7, <2>2, <2>4, ReconcileAssumption, Zenon DEF Affects
    <3>2. \A x \in ops' : x.id # i
      BY <1>2, <1>11, Zenon
    <3> QED
      BY <2>2, <3>1, <3>2, Zenon DEF CoveredBy, Kept
  <2>5. CASE Kept(ops, d)
    <3>1. PICK r \in Rows : /\ KeyOf(zone[r]) = KeyOf(d) /\ ~zone[r].disabled
                            /\ \A x \in ops : x.id = r => x.kind = "update"
      BY <2>5, Zenon DEF Kept
    <3>2. CASE r # i
      <4>1. r \in Rows' /\ zone'[r] = zone[r]
        BY <1>4, <1>6, <1>7, <3>2, Zenon
      <4> QED
        BY <1>2, <3>1, <4>1, ZenonT(60) DEF CoveredBy, Kept
    <3>3. CASE r = i
      <4>1. op.kind = "update" /\ v = op.want
        BY <1>1, <1>3, <3>1, <3>3, Zenon DEF Affects
      <4>2. op.want \in Wanted /\ KeyOf(zone[i]) = KeyOf(op.want)
        BY <1>1, <4>1, Zenon DEF Sound, OpSound, Writing, Affects
      <4>3. op.want = d
        BY <3>1, <3>3, <4>2, WantedFacts, Zenon DEF Base
      <4> QED
        BY <2>4, <4>1, <4>3, Zenon
    <3> QED
      BY <3>2, <3>3, Zenon
  <2>6. CASE LogicalUnowned(Wanted, d.type) # {} /\ KeyOf(zone[o.id]) # KeyOf(d)
    <3>1. o.kind \in Bound
      BY <1>14, Zenon DEF IsCleanup, Bound
    <3>2. o.id \in Mine
      BY <1>11, <3>1, Zenon DEF OpSound
    <3>3. mode # "restricted"
      BY <3>2, Zenon DEF Mine
    <3>4. PICK k \in Rows \ Owned(Wanted) : zone[k].type = d.type
      BY <2>6, Zenon DEF LogicalUnowned, Unowned
    <3>5. Owned(Wanted) = Mine /\ Owned(Wanted)' = Mine'
      BY <1>2, <1>5, <3>3, Zenon DEF Owned, Mine
    <3>6. k # i
      BY <1>1, <3>4, <3>5, Zenon DEF Affects
    <3>7. k \in Rows' /\ k \notin Owned(Wanted)' /\ zone'[k] = zone[k]
      BY <1>4, <1>6, <1>7, <1>10, <3>4, <3>5, <3>6, Zenon
    <3>8. LogicalUnowned(Wanted, d.type)' # {}
      BY <1>2, <3>4, <3>7, Zenon DEF LogicalUnowned, Unowned
    <3>9. zone'[o.id] = zone[o.id]
      BY <1>4, <1>11, <3>1, Zenon
    <3> QED
      BY <1>2, <2>6, <3>8, <3>9, Zenon DEF CoveredBy
  <2> QED
    BY <2>1, <2>3, <2>4, <2>5, <2>6, Zenon DEF CoveredBy
<1>15. (failed \/ Covered(ops))'
  BY <1>2, <1>14, Zenon DEF Covered
<1> QED
  BY <1>4, <1>8, <1>9, <1>13, <1>15, Zenon

\* Planning makes a sound and covered plan from what it was allowed to see.
LEMMA PrepareKeeps ==
    ASSUME SafetyInv, NEW complete, NEW seen \in SUBSET desired, NEW snapshot \in Snapshots,
           NEW refused \in BOOLEAN, Prepare(complete, seen, snapshot, refused)
    PROVE  SafetyInv'
<1> DEFINE policies == [policies |-> snapshot.policies \cup denying,
                        ahead |-> snapshot.ahead]
           verdict == Evaluate(seen, policies)
           D == verdict.allowed
           scope == CleanupScope(complete, policies, verdict)
           plan == EnforceRestrictedOwnershipConflicts(D, scope)
<1>1. /\ ~busy /\ (complete => seen = desired)
      /\ ops' = GuardCleanup(plan, refused)
      /\ busy' = TRUE /\ clean' \in BOOLEAN
      /\ calm' \in {calm, 0}
      /\ UNCHANGED <<mode, cleanup, desired, denying, zone, claimed, confirmed, failed,
                     faults>>
  BY Zenon DEF Prepare
<1>2. D \in SUBSET Wanted
  BY AllowedIsWanted, Zenon
<1>3. ASSUME scope
      PROVE  D = Wanted
  <2>1. complete /\ seen = desired
    BY <1>1, <1>3, Zenon DEF CleanupScope
  <2>2. CleanupScope(TRUE, policies, Evaluate(desired, policies))
    BY <1>3, <2>1, Zenon DEF CleanupScope
  <2>3. Evaluate(desired, policies).allowed = Wanted
    BY <2>2, ScopeIsWanted, Zenon
  <2> QED
    BY <2>1, <2>3, Zenon
<1> HIDE DEF D, scope, plan
<1>4. Base
  BY Zenon DEF SafetyInv
<1>5. Sound(plan)
  BY <1>2, <1>4, PlanSound, Zenon DEF plan
<1>6. Covered(plan)
  <2>1. CASE D = Wanted
    BY <1>4, <2>1, PlanCovered, Zenon DEF plan
  <2>2. CASE D # Wanted
    <3>1. ASSUME NEW o \in plan
          PROVE  ~IsCleanup(o)
      <4>1. CASE \E d \in D : plan = {Conflict(d)}
        BY <3>1, <4>1 DEF Conflict, IsCleanup
      <4>2. CASE \E i \in Owned(D), d \in D : plan = {Put("replace", i, d)}
        BY <3>1, <4>2, SMTT(60) DEF Put, IsCleanup
      <4>3. CASE /\ ~MutationConflict(D, scope) /\ ~CnameTransition(D)
                 /\ plan = BuildWithCleanupScope(D, scope)
        <5>1. PlannedAs(D, scope, o)
          BY <1>4, <3>1, <4>3, PlannedOps, Zenon DEF Base
        <5>2. Stale(D, scope) = {}
          BY <1>3, <2>2, Zenon DEF Stale
        <5> QED
          BY <5>1, <5>2, Zenon DEF PlannedAs, IsCleanup
      <4> QED
        BY <1>2, <1>4, <4>1, <4>2, <4>3, PlanShape, Zenon DEF plan
    <3> QED
      BY <3>1, Zenon DEF Covered
  <2> QED
    BY <2>1, <2>2, Zenon
<1>7. ops' \subseteq plan /\ (\A o \in ops' : IsCleanup(o) => ops' = plan)
  BY <1>1, Zenon DEF GuardCleanup
<1>8. Base'
  <2>1. \A o \in ops' : o \in Operation
    BY <1>5, <1>7, Zenon DEF Sound, OpSound
  <2>2. TypeOK'
    BY <1>1, <1>4, <2>1 DEF Base, TypeOK
  <2>3. AdoptableRows' = AdoptableRows
    BY <1>1, Zenon DEF AdoptableRows, Rows
  <2> QED
    BY <1>1, <1>4, <2>2, <2>3, Zenon DEF Base
<1>11. ClaimsBindRows'
  BY <1>1, Zenon DEF SafetyInv, ClaimsBindRows, AdoptableRows, Rows
<1>9. Sound(ops)'
  <2>1. /\ Wanted' = Wanted /\ Mine' = Mine /\ Rows' = Rows /\ zone' = zone
    BY <1>1, Zenon DEF Wanted, Mine, Rows, AdoptableRows
  <2>2. \A o \in ops' : OpSound(o)'
    BY <1>5, <1>7, <2>1, Zenon DEF Sound, OpSound
  <2> QED
    BY <1>5, <1>7, <2>2, Zenon DEF Sound
<1>10. Covered(ops)'
  <2>1. ASSUME NEW o \in ops', IsCleanup(o)
        PROVE  ops' = plan
    BY <1>7, <2>1, Zenon
  <2>2. Wanted' = Wanted /\ Rows' = Rows /\ zone' = zone
    BY <1>1, Zenon DEF Wanted, Rows
  <2>3. \A t : LogicalUnowned(Wanted, t)' = LogicalUnowned(Wanted, t)
    BY <1>1, <2>2, Zenon DEF LogicalUnowned, Unowned, Owned, AdoptableRows
  <2>4. ASSUME NEW o \in ops', IsCleanup(o), NEW d \in Wanted'
        PROVE  CoveredBy(ops, o, d)'
    <3>1. CoveredBy(plan, o, d)
      BY <1>6, <1>7, <2>2, <2>4, Zenon DEF Covered
    <3>2. LogicalUnowned(Wanted, d.type)' = LogicalUnowned(Wanted, d.type)
      BY <2>3, Zenon
    <3> QED
      BY <2>1, <2>2, <2>4, <3>1, <3>2, Zenon DEF CoveredBy, Kept
  <2> QED
    BY <2>4, Zenon DEF Covered
<1> QED
  BY <1>1, <1>8, <1>9, <1>10, <1>11, Zenon DEF SafetyInv

\* An attempt without effect on the device leaves the rest of the plan as it is.
LEMMA SkipKeeps ==
    ASSUME SafetyInv, NEW op \in ops, Attempted(op),
           UNCHANGED Settings, UNCHANGED <<zone, claimed>>, failed => failed',
           failed' \/ op.kind \notin {"update", "replace"}
    PROVE  /\ Sound(ops)'
           /\ (failed \/ Covered(ops))'
           /\ mode' = "shared" => claimed' \subseteq AdoptableRows'
<1>1. /\ mode' = mode /\ Wanted' = Wanted /\ Mine' = Mine /\ Rows' = Rows /\ zone' = zone
      /\ AdoptableRows' = AdoptableRows /\ claimed' = claimed
      /\ ops' = ops \ {op}
  BY Zenon DEF Settings, Wanted, Mine, Rows, AdoptableRows, Attempted
<1>2. \A t : LogicalUnowned(Wanted, t)' = LogicalUnowned(Wanted, t)
  BY <1>1, Zenon DEF LogicalUnowned, Unowned, Owned
<1>3. Sound(ops)'
  <2>1. \A o \in ops' : OpSound(o)'
    BY <1>1, Zenon DEF SafetyInv, Sound, OpSound
  <2> QED
    BY <1>1, <2>1, Zenon DEF SafetyInv, Sound
<1>4. ASSUME ~failed', NEW o \in ops', IsCleanup(o), NEW d \in Wanted'
      PROVE  CoveredBy(ops, o, d)'
  <2>1. CoveredBy(ops, o, d)
    BY <1>1, <1>4, Zenon DEF SafetyInv, Covered
  <2>2. LogicalUnowned(Wanted, d.type)' = LogicalUnowned(Wanted, d.type)
    BY <1>2, Zenon
  <2> QED
    BY <1>1, <1>4, <2>1, <2>2 DEF CoveredBy, Kept
<1> QED
  BY <1>1, <1>3, <1>4, Zenon DEF Covered, SafetyInv, Base

\* Whatever an operation confirms, releases or recovers, claims bind such rows.
LEMMA ClaimsKept ==
    ASSUME SafetyInv, NEW op \in ops, Apply(op)
    PROVE  confirmed' \subseteq Id /\ ClaimsBindRows'
<1>1. /\ mode' = mode /\ confirmed \subseteq Id /\ Base /\ Sound(ops)
      /\ zone \in [Id -> Record \cup {NoRow}]
  BY Zenon DEF Apply, ApplyOne, ApplyRefused, ApplyFails, ApplyResponseLost, Block,
     RecoverInterruptedClaim, SafetyInv, Base, TypeOK
<1>2. mode = "shared" => confirmed \subseteq AdoptableRows
  BY Zenon DEF SafetyInv, ClaimsBindRows
<1>3. CASE /\ op.kind # "conflict" /\ Effect(op)
           /\ confirmed' \in {Claims(confirmed, op), confirmed \ {op.id}}
  <2>1. PICK i \in Id, v \in Record \cup {NoRow} : Affects(op, i, v)
    BY <1>1, <1>3, EffectFacts, Zenon
  <2>2. confirmed' \subseteq confirmed \cup {i}
    BY <1>3, <2>1, Zenon DEF Claims, Affects
  <2>3. op.kind = "delete" => i \notin confirmed'
    BY <1>3, <2>1, Zenon DEF Claims, Affects
  <2>4. op.kind # "delete" => i \in AdoptableRows'
    BY <2>1, ReconcileAssumption, Zenon DEF Affects, Written, AdoptableRows, Rows
  <2>5. \A j \in AdoptableRows : j # i => j \in AdoptableRows'
    BY <2>1, Zenon DEF Affects, Written, AdoptableRows, Rows
  <2> QED
    BY <1>1, <1>2, <2>2, <2>3, <2>4, <2>5, Zenon DEF ClaimsBindRows
<1>4. CASE zone' = zone /\ confirmed' = confirmed
  BY <1>1, <1>2, <1>4, Zenon DEF ClaimsBindRows, AdoptableRows, Rows
<1>5. CASE RecoverInterruptedClaim(op)
  <2>1. PICK i \in Rows : zone[i] = op.want /\ confirmed' = confirmed \cup {i}
    BY <1>5, Zenon DEF RecoverInterruptedClaim
  <2>2. /\ zone' = zone /\ op.kind = "conflict"
        /\ i \in Id /\ zone[i] # NoRow
    BY <1>5, Zenon DEF RecoverInterruptedClaim, Rows
  <2>3. op.want \in Wanted
    BY <1>1, <2>2, Zenon DEF Sound, OpSound
  <2>4. i \in AdoptableRows
    BY <1>1, <2>1, <2>3, WantedFacts, Zenon DEF AdoptableRows, Base
  <2> QED
    BY <1>1, <1>2, <2>1, <2>2, <2>4, Zenon DEF ClaimsBindRows, AdoptableRows, Rows
<1> QED
  BY <1>3, <1>4, <1>5, Zenon DEF Apply, ApplyOne, ApplyRefused, ApplyFails, ApplyResponseLost,
     Block, Attemptable

\* One operation of the plan, with any outcome.
LEMMA ApplyKeeps ==
    ASSUME SafetyInv, NEW op \in ops, Apply(op)
    PROVE  SafetyInv'
<1>1. /\ UNCHANGED Settings /\ busy /\ busy' = busy
      /\ Attempted(op) /\ (failed => failed')
      /\ failed' \in BOOLEAN /\ clean' \in BOOLEAN
      /\ calm' = calm
      /\ faults' \in 0 .. MaxFaults
  <2>1. faults \in 0 .. MaxFaults /\ failed \in BOOLEAN /\ clean \in BOOLEAN /\ MaxFaults \in Nat
    BY ReconcileAssumption, Zenon DEF SafetyInv, Base, TypeOK
  <2>2. \/ faults' = faults
        \/ faults < MaxFaults /\ faults' = faults + 1
    BY Zenon DEF Apply, ApplyOne, ApplyRefused, ApplyFails, ApplyResponseLost, Block,
       RecoverInterruptedClaim
  <2>3. /\ busy /\ busy' = busy /\ Attempted(op) /\ calm' = calm
        /\ \/ failed' = failed /\ clean' = clean
           \/ failed' = TRUE /\ clean' = clean
           \/ failed' = failed /\ clean' = FALSE
           \/ failed' = (failed \/ ~IsCleanup(op)) /\ clean' = FALSE
    BY Zenon DEF Apply, ApplyOne, ApplyRefused, ApplyFails, ApplyResponseLost, Block, Failure,
       RecoverInterruptedClaim
  <2>4. UNCHANGED Settings
    BY Zenon DEF Apply, ApplyOne, ApplyRefused, ApplyFails, ApplyResponseLost, Block, Settings,
       RecoverInterruptedClaim
  <2>5. faults' \in 0 .. MaxFaults
    BY <2>1, <2>2
  <2>6. (failed => failed') /\ failed' \in BOOLEAN /\ clean' \in BOOLEAN
    <3>1. CASE failed' = failed /\ clean' = clean
      BY <2>1, <3>1, Zenon
    <3>2. CASE failed' = TRUE /\ clean' = clean
      BY <2>1, <3>2, Zenon
    <3>3. CASE failed' = (failed \/ ~IsCleanup(op)) /\ clean' = FALSE
      BY <3>3, Zenon
    <3>4. CASE failed' = failed /\ clean' = FALSE
      BY <2>1, <3>4, Zenon
    <3> QED
      BY <2>3, <3>1, <3>2, <3>3, <3>4, Zenon
  <2> QED
    BY <2>3, <2>4, <2>5, <2>6, Zenon
<1>2. /\ zone' \in [Id -> Record \cup {NoRow}] /\ claimed' \subseteq Id
      /\ mode' = "shared" => claimed' \subseteq AdoptableRows'
      /\ Sound(ops)'
      /\ (failed \/ Covered(ops))'
  <2>1. CASE op.kind # "conflict" /\ Effect(op)
    BY <1>1, <2>1, EffectKeeps, Zenon DEF SafetyInv
  <2>2. CASE /\ UNCHANGED <<zone, claimed>>
             /\ failed' \/ op.kind \notin {"update", "replace"}
    BY <1>1, <2>2, SkipKeeps, Zenon DEF SafetyInv, Base, TypeOK
  <2> QED
    BY <2>1, <2>2, Zenon DEF Apply, ApplyOne, ApplyRefused, ApplyFails, ApplyResponseLost, Block,
       RecoverInterruptedClaim, Failure, Attemptable, IsCleanup
<1>3. ops' \subseteq Operation
  BY <1>1, Zenon DEF Attempted, SafetyInv, Base, TypeOK
<1>4. Base'
  BY <1>1, <1>2, <1>3, ClaimsKept, Zenon DEF Settings, SafetyInv, Base, TypeOK
<1> QED
  BY <1>1, <1>2, <1>4, ClaimsKept, Zenon DEF SafetyInv

\* Steps that leave the rows alone and end or keep the cycle.
LEMMA RestKeeps ==
    ASSUME SafetyInv, EndCycle \/ Interrupt \/ UNCHANGED vars
    PROVE  SafetyInv'
<1>1. /\ UNCHANGED Settings /\ UNCHANGED <<zone, confirmed>>
      /\ claimed' \in {claimed, confirmed}
      /\ calm' \in 0 .. 2 /\ faults' \in 0 .. MaxFaults
      /\ failed' \in BOOLEAN /\ clean' \in BOOLEAN /\ busy' \in BOOLEAN
  <2>1. /\ faults \in 0 .. MaxFaults /\ MaxFaults \in Nat /\ calm \in 0 .. 2
        /\ failed \in BOOLEAN /\ clean \in BOOLEAN /\ busy \in BOOLEAN
    BY ReconcileAssumption, Zenon DEF SafetyInv, Base, TypeOK
  <2>2. /\ faults' = faults \/ (faults < MaxFaults /\ faults' = faults + 1)
        /\ calm' = calm \/ calm' = 0 \/ (calm < 2 /\ calm' = calm + 1)
    BY Zenon DEF EndCycle, Interrupt, vars
  <2>3. \/ failed' = failed /\ clean' = clean /\ busy' = busy
        \/ failed' = FALSE /\ clean' = TRUE /\ busy' = FALSE
    BY Zenon DEF EndCycle, Interrupt, Rest, vars
  <2>4. /\ UNCHANGED Settings /\ UNCHANGED <<zone, confirmed>>
        /\ claimed' \in {claimed, confirmed}
    BY Zenon DEF EndCycle, Interrupt, Rest, vars, Settings
  <2>5. calm' \in 0 .. 2 /\ faults' \in 0 .. MaxFaults
    BY <2>1, <2>2
  <2>6. failed' \in BOOLEAN /\ clean' \in BOOLEAN /\ busy' \in BOOLEAN
    BY <2>1, <2>3, Zenon
  <2> QED
    BY <2>4, <2>5, <2>6, Zenon
<1>2. /\ mode' = mode /\ Wanted' = Wanted /\ Rows' = Rows /\ zone' = zone
      /\ AdoptableRows' = AdoptableRows
  BY <1>1, Zenon DEF Settings, Wanted, Rows, AdoptableRows
<1>3. \/ ops' = {} /\ busy' = FALSE /\ failed' = FALSE
      \/ ops' = ops /\ busy' = busy /\ failed' = failed /\ claimed' = claimed
  BY Zenon DEF EndCycle, Interrupt, Rest, vars
<1>4. Base'
  <2>1. claimed' \subseteq Id /\ (mode = "shared" => claimed' \subseteq AdoptableRows)
    BY <1>1, Zenon DEF SafetyInv, ClaimsBindRows, Base, TypeOK
  <2> QED
    BY <1>1, <1>2, <1>3, <2>1, Zenon DEF Settings, SafetyInv, Base, TypeOK
<1>7. ClaimsBindRows'
  BY <1>1, <1>2, Zenon DEF SafetyInv, ClaimsBindRows
<1>5. CASE ops' = {} /\ busy' = FALSE /\ failed' = FALSE
  BY <1>4, <1>5, <1>7, Zenon DEF SafetyInv, Sound, Covered
<1>6. CASE ops' = ops /\ busy' = busy /\ failed' = failed /\ claimed' = claimed
  <2>6. Mine' = Mine
    BY <1>2, <1>6, Zenon DEF Mine
  <2>1. \A t : LogicalUnowned(Wanted, t)' = LogicalUnowned(Wanted, t)
    BY <1>2, <1>6, Zenon DEF LogicalUnowned, Unowned, Owned
  <2>2. \A o \in ops' : OpSound(o)'
    BY <1>2, <1>6, <2>6, Zenon DEF SafetyInv, Sound, OpSound
  <2>3. Sound(ops)'
    BY <1>6, <2>2, Zenon DEF SafetyInv, Sound
  <2>4. ASSUME ~failed', NEW o \in ops', IsCleanup(o), NEW d \in Wanted'
        PROVE  CoveredBy(ops, o, d)'
    <3>1. CoveredBy(ops, o, d)
      BY <1>2, <1>6, <2>4, Zenon DEF SafetyInv, Covered
    <3>2. LogicalUnowned(Wanted, d.type)' = LogicalUnowned(Wanted, d.type)
      BY <2>1, Zenon
    <3> QED
      BY <1>2, <1>6, <3>1, <3>2, Zenon DEF CoveredBy, Kept
  <2>5. (failed \/ Covered(ops))'
    BY <2>4, Zenon DEF Covered
  <2> QED
    BY <1>4, <1>6, <1>7, <2>3, <2>5, Zenon DEF SafetyInv
<1> QED
  BY <1>3, <1>5, <1>6, Zenon

\* The invariant holds of every device the program may start on.
LEMMA InitSafe == Init => SafetyInv
<1> SUFFICES ASSUME Init PROVE SafetyInv
  OBVIOUS
<1>1. PICK rows \in [Taken -> Found \cup {NoRow}] :
          zone = [i \in Id |-> IF i \in Taken THEN rows[i] ELSE NoRow]
  BY Zenon DEF Init
<1>2. zone \in [Id -> Record \cup {NoRow}]
  BY <1>1, ReconcileAssumption, Zenon
<1>3. /\ claimed \subseteq AdoptableRows
      /\ AdoptableRows \subseteq Id
  BY Zenon DEF Init, AdoptableRows, Rows
<1>4. TypeOK
  <2>1. /\ mode \in Modes /\ cleanup \in Policies /\ desired \in Desires /\ denying \in Denials
        /\ ops \subseteq Operation /\ claimed \subseteq Id /\ confirmed \subseteq Id
    BY <1>3, Zenon DEF Init, Policies
  <2>2. failed \in BOOLEAN /\ clean \in BOOLEAN /\ busy \in BOOLEAN
    BY Zenon DEF Init
  <2>3. calm \in 0 .. 2 /\ faults \in 0 .. MaxFaults
    BY ReconcileAssumption DEF Init
  <2> QED
    BY <1>2, <2>1, <2>2, <2>3, Zenon DEF TypeOK
<1>5. Base
  BY <1>3, <1>4, Zenon DEF Init, Base
<1>6. ClaimsBindRows
  BY <1>3, Zenon DEF Init, ClaimsBindRows
<1> QED
  BY <1>5, <1>6, Zenon DEF Init, SafetyInv, Sound, Covered

\* Every step of a cycle, and every stuttering step, preserves the invariant.
LEMMA NextSafe == SafetyInv /\ [Next]_vars => SafetyInv'
<1> SUFFICES ASSUME SafetyInv, [Next]_vars PROVE SafetyInv'
  OBVIOUS
<1>1. ASSUME NEW snapshot \in Snapshots, NEW refused \in BOOLEAN,
             Prepare(TRUE, desired, snapshot, refused)
      PROVE  SafetyInv'
  BY <1>1, PrepareKeeps, Zenon
<1>2. ASSUME NEW seen \in SUBSET desired, NEW refused \in BOOLEAN,
             Prepare(FALSE, seen, NoPolicy, refused)
      PROVE  SafetyInv'
  <2>1. NoPolicy \in Snapshots
    BY ReconcileAssumption, Zenon
  <2> QED
    BY <1>2, <2>1, PrepareKeeps, Zenon
<1>3. ASSUME NEW op \in ops, Apply(op)
      PROVE  SafetyInv'
  BY <1>3, ApplyKeeps, Zenon
<1>4. CASE EndCycle \/ Interrupt \/ UNCHANGED vars
  BY <1>4, RestKeeps, Zenon
<1> QED
  BY <1>1, <1>2, <1>3, <1>4, Zenon DEF Next

\* In every cycle the operations that are left fit the rows of the device and
\* each other, and the cleanup among them is covered.
THEOREM CycleInvariant == Spec => []SafetyInv
<1> QED
  BY InitSafe, NextSafe, PTL DEF Spec

-----------------------------------------------------------------------------
(* What the steps do to the rows of the name. *)

\* Only a request that takes effect changes the device.
LEMMA OnlyEffects ==
    ASSUME SafetyInv, [Next]_vars
    PROVE  \/ zone' = zone
           \/ \E op \in ops : Attemptable(op) /\ Effect(op)
<1>1. ASSUME NEW complete, NEW seen, NEW snapshot, NEW refused,
             Prepare(complete, seen, snapshot, refused)
      PROVE  zone' = zone
  BY <1>1, Zenon DEF Prepare
<1>2. ASSUME NEW op \in ops, Apply(op)
      PROVE  zone' = zone \/ (Attemptable(op) /\ Effect(op))
  BY <1>2, Zenon DEF Apply, ApplyOne, ApplyRefused, ApplyFails, ApplyResponseLost, Block,
       RecoverInterruptedClaim
<1>3. CASE EndCycle \/ Interrupt \/ UNCHANGED vars
  BY <1>3, Zenon DEF EndCycle, Interrupt, vars
<1> QED
  BY <1>1, <1>2, <1>3, Zenon DEF Next

\* What is known of an operation that takes effect.
LEMMA EffectOf ==
    ASSUME SafetyInv, NEW op \in ops, Attemptable(op), Effect(op)
    PROVE  OpSound(op) /\ \E i \in Id, v \in Record \cup {NoRow} : Affects(op, i, v)
<1>1. Base /\ Sound(ops) /\ op.kind # "conflict"
  BY Zenon DEF SafetyInv, Attemptable
<1>2. PICK i \in Id, v \in Record \cup {NoRow} : Affects(op, i, v)
  BY <1>1, EffectFacts, Zenon
<1>3. OpSound(op)
  BY <1>1, Zenon DEF Sound
<1> QED
  BY <1>2, <1>3, Zenon

\* When a cleanup is attempted, every wanted record is served by a row that stays,
\* or withheld.
LEMMA CleanupIsCovered ==
    ASSUME SafetyInv, NEW op \in ops, Attemptable(op), IsCleanup(op), NEW d \in Wanted
    PROVE  \/ \E r \in Rows \ {op.id} : KeyOf(zone[r]) = KeyOf(d) /\ ~zone[r].disabled
           \/ LogicalUnowned(Wanted, d.type) # {} /\ KeyOf(zone[op.id]) # KeyOf(d)
<1>1. CoveredBy(ops, op, d)
  BY Zenon DEF Attemptable, SafetyInv, Covered
<1>2. ASSUME NEW x \in ops
      PROVE  x.kind \notin {"update", "replace"}
  <2>1. Rank(op) <= Rank(x)
    BY Zenon DEF Attemptable, Head
  <2>2. Rank(op) = 4
    BY Zenon DEF Rank, IsCleanup
  <2>3. x.kind = "update" => Rank(x) = 2
    BY Zenon DEF Rank, IsCleanup
  <2>4. x.kind = "replace" => Rank(x) = 1
    BY Zenon DEF Rank, IsCleanup
  <2> QED
    BY <2>1, <2>2, <2>3, <2>4
<1>3. CASE Kept(ops, d)
  BY <1>2, <1>3, Zenon DEF Kept
<1> QED
  BY <1>1, <1>2, <1>3, Zenon DEF CoveredBy

\* Rows of other types are never touched, restricted discovery touches no existing
\* row, and a shared zone only rows bound to a claim.
THEOREM ForeignRowsAreSafe == Spec => ForeignRowsUntouched
<1>1. SafetyInv /\ [Next]_vars => ForeignStep
  <2> SUFFICES ASSUME SafetyInv, [Next]_vars, NEW j \in Rows, zone'[j] # zone[j]
               PROVE  /\ zone[j].type \in Adoptable
                      /\ mode # "restricted"
                      /\ mode = "shared" => j \in claimed
    BY Zenon DEF ForeignStep
  <2>1. PICK op \in ops : Attemptable(op) /\ Effect(op)
    BY OnlyEffects, Zenon
  <2>2. j \in Id
    BY Zenon DEF Rows
  <2>3. j \in Mine
    BY <2>1, <2>2, EffectOf, Zenon DEF Affects, Written
  <2>4. mode \in {"exclusive", "restricted", "shared"}
    BY Zenon DEF SafetyInv, Base, TypeOK, Modes
  <2>5. mode # "restricted" /\ j \in AdoptableRows /\ (mode = "shared" => j \in claimed)
    BY <2>3, <2>4, Zenon DEF Mine, SafetyInv, Base
  <2> QED
    BY <2>5, Zenon DEF AdoptableRows
<1> QED
  BY <1>1, CycleInvariant, PTL DEF Spec, ForeignRowsUntouched

\* A row is removed only when every wanted record is served or withheld.
THEOREM RemovalComesLast == Spec => RemovedLast
<1>1. SafetyInv /\ [Next]_vars => RemovalStep
  <2> SUFFICES ASSUME SafetyInv, [Next]_vars, NEW j \in Rows, zone'[j] = NoRow,
                      NEW d \in Wanted
               PROVE  ServedNext(d) \/ LogicalUnowned(Wanted, d.type) # {}
    BY Zenon DEF RemovalStep
  <2>1. zone[j] # NoRow /\ j \in Id
    BY Zenon DEF Rows
  <2>2. PICK op \in ops : Attemptable(op) /\ Effect(op)
    BY <2>1, OnlyEffects, Zenon
  <2>3. PICK i \in Id, v \in Record \cup {NoRow} : Affects(op, i, v)
    BY <2>2, EffectOf, Zenon
  <2>4. j = i /\ op.kind = "delete" /\ i = op.id
    BY <2>1, <2>3, ReconcileAssumption, Zenon DEF Affects, Written
  <2>5. CASE \E r \in Rows \ {op.id} : KeyOf(zone[r]) = KeyOf(d) /\ ~zone[r].disabled
    <3>1. PICK r \in Rows \ {op.id} : KeyOf(zone[r]) = KeyOf(d) /\ ~zone[r].disabled
      BY <2>5, Zenon
    <3>2. r \in Id /\ zone[r] # NoRow
      BY Zenon DEF Rows
    <3> QED
      BY <2>3, <2>4, <3>1, <3>2, Zenon DEF ServedNext, Affects, Written
  <2> QED
    BY <2>2, <2>4, <2>5, CleanupIsCovered, Zenon DEF IsCleanup
<1> QED
  BY <1>1, CycleInvariant, PTL DEF Spec, RemovedLast

\* A name that answers with something wanted never goes dark.
THEOREM NameNeverGoesDark == Spec => NameStaysUp
<1>1. SafetyInv /\ [Next]_vars => NameStep
  <2> SUFFICES ASSUME SafetyInv, [Next]_vars, NEW d \in Wanted, Served(d)
               PROVE  \E e \in Wanted : ServedNext(e)
    BY Zenon DEF NameStep
  <2>1. PICK r \in Rows : KeyOf(zone[r]) = KeyOf(d) /\ ~zone[r].disabled
    BY Zenon DEF Served
  <2>2. r \in Id /\ zone[r] # NoRow
    BY Zenon DEF Rows
  <2>3. CASE zone' = zone
    BY <2>1, <2>2, <2>3, Zenon DEF ServedNext
  <2>4. CASE \E op \in ops : Attemptable(op) /\ Effect(op)
    <3>1. PICK op \in ops : Attemptable(op) /\ Effect(op)
      BY <2>4, Zenon
    <3>2. PICK i \in Id, v \in Record \cup {NoRow} : OpSound(op) /\ Affects(op, i, v)
      BY <3>1, EffectOf, Zenon
    <3>3. CASE op.kind \in Writing
      <4>1. v = op.want /\ op.want \in Wanted
        BY <3>2, <3>3, Zenon DEF OpSound, Writing, Affects, Written
      <4>2. op.want \in Record /\ ~op.want.disabled
        BY <4>1, WantedFacts, Zenon DEF SafetyInv, Base
      <4> QED
        BY <3>2, <4>1, <4>2, ReconcileAssumption, ZenonT(60) DEF ServedNext, Affects, Written
    <3>4. CASE IsCleanup(op) /\ r # op.id
      <4>1. zone'[r] = zone[r]
        BY <2>2, <3>2, <3>4, Zenon DEF IsCleanup, Affects, Written
      <4> QED
        BY <2>1, <2>2, <4>1, Zenon DEF ServedNext
    <3>5. CASE IsCleanup(op) /\ r = op.id
      <4>1. PICK k \in Rows \ {op.id} : KeyOf(zone[k]) = KeyOf(d) /\ ~zone[k].disabled
        BY <2>1, <3>1, <3>5, CleanupIsCovered, Zenon
      <4>2. k \in Id /\ zone[k] # NoRow
        BY Zenon DEF Rows
      <4>3. zone'[k] = zone[k]
        BY <3>2, <3>5, <4>1, <4>2, Zenon DEF IsCleanup, Affects, Written
      <4> QED
        BY <4>1, <4>2, <4>3, Zenon DEF ServedNext
    <3> QED
      BY <3>2, <3>3, <3>4, <3>5, Zenon DEF IsCleanup, Writing, Affects, Written
  <2> QED
    BY <2>3, <2>4, OnlyEffects, Zenon
<1> QED
  BY <1>1, CycleInvariant, PTL DEF Spec, NameStaysUp

\* No operation puts a CNAME beside another type or another CNAME target.
THEOREM CnameIsKeptAlone == Spec => CnameStaysAlone
<1>1. SafetyInv /\ [Next]_vars => (CnameAlone => CnameAlone')
  <2> SUFFICES ASSUME SafetyInv, [Next]_vars, CnameAlone
               PROVE  CnameAlone'
    OBVIOUS
  <2>1. CASE zone' = zone
    BY <2>1, ZenonT(60) DEF CnameAlone, Rows
  <2>2. CASE \E op \in ops : Attemptable(op) /\ Effect(op)
    <3>1. PICK op \in ops : Attemptable(op) /\ Effect(op)
      BY <2>2, Zenon
    <3>2. PICK i \in Id, v \in Record \cup {NoRow} : OpSound(op) /\ Affects(op, i, v)
      BY <3>1, EffectOf, Zenon
    <3>3. \A j \in Rows' \ {i} : j \in Rows /\ zone'[j] = zone[j]
      BY <3>2, Zenon DEF Rows, Affects, Written
    <3>4. CnameAlone <=> \A j, k \in Rows : Compatible(zone[j], zone[k])
      BY Zenon DEF CnameAlone, Compatible
    <3>5. CnameAlone' <=> \A j, k \in Rows' : Compatible(zone'[j], zone'[k])
      BY Zenon DEF CnameAlone, Compatible
    <3>6. ASSUME i \in Rows', NEW j \in Rows' \ {i}
          PROVE  Compatible(zone'[j], v)
      <4>1. CASE op.kind \in Adding
        <5>1. v = op.want /\ j # op.id
          BY <3>2, <3>3, <3>6, <4>1, ReconcileAssumption, ZenonT(60)
          DEF Adding, OpSound, Rows, Affects, Written
        <5> QED
          BY <3>2, <3>3, <3>6, <4>1, <5>1, Zenon DEF OpSound, Affects, Written
      <4>2. CASE op.kind \in {"update", "deactivate"}
        <5>1. v.type = zone[i].type /\ v.target = zone[i].target
          BY <3>2, <4>2 DEF OpSound, KeyOf, Disabled, Affects, Written
        <5>2. i \in Rows
          BY <3>2, <4>2, Zenon
          DEF Mine, AdoptableRows, SafetyInv, Base, TypeOK, Modes, Affects, Written
        <5>3. Compatible(zone[j], zone[i])
          BY <3>3, <3>4, <3>6, <5>2, Zenon
        <5> QED
          BY <3>3, <3>6, <5>1, <5>3, Zenon DEF Compatible
      <4>3. CASE op.kind = "delete"
        BY <3>2, <3>6, <4>3, Zenon DEF Rows, Affects, Written
      <4> QED
        BY <3>2, <4>1, <4>2, <4>3, Zenon DEF Adding, Affects, Written
    <3>7. ASSUME NEW j \in Rows', NEW k \in Rows'
          PROVE  Compatible(zone'[j], zone'[k])
      <4>1. CASE j # i /\ k # i
        BY <3>3, <3>4, <4>1, SMTT(60)
      <4>2. CASE j # i /\ k = i
        BY <3>2, <3>6, <4>2, Zenon DEF Affects, Written
      <4>3. CASE j = i /\ k # i
        BY <3>2, <3>6, <4>3, Zenon DEF Compatible, CnameTypesConflict, Affects, Written
      <4>4. CASE j = i /\ k = i
        BY <4>4, Zenon DEF Compatible, CnameTypesConflict
      <4> QED
        BY <4>1, <4>2, <4>3, <4>4, Zenon
    <3> QED
      BY <3>5, <3>7, Zenon
  <2> QED
    BY <2>1, <2>2, OnlyEffects, Zenon
<1> QED
  BY <1>1, CycleInvariant, PTL DEF Spec, CnameStaysAlone

=============================================================================
