------------------------------- MODULE Policy -------------------------------
(***************************************************************************)
(* internal/policy/policy.go: which of the discovered records a snapshot   *)
(* of the DNS policies lets the controller publish.                        *)
(*                                                                         *)
(* What a constraint looks at - deny, hostname suffixes, TTL range, opt-in *)
(* annotation, target networks and suffixes - is the set of candidates it  *)
(* refuses, and selector and source kinds are the set it selects.  The     *)
(* order in which candidates consume quotas, the smallest positive limit,  *)
(* the precedence of the checks and invalid policies are kept.  The global *)
(* bounds are a policy of every namespace that selects every candidate.    *)
(***************************************************************************)
EXTENDS Naturals, FiniteSets, FiniteSetsExt

CONSTANTS
    NamespaceOf(_),   \* the namespace of a candidate's source
    Before(_, _)      \* candidateKey order of two candidates

\* A snapshot has the policies, and for each namespace the number of candidates
\* with other names that come first.

\* NewEvaluator: the namespaces with a policy that does not compile.
InvalidNamespaces(snapshot) ==
    {p.namespace : p \in {q \in snapshot.policies : ~q.compiles}}

\* The policies of a candidate's namespace that match it.
Constraints(c, snapshot) ==
    {p \in snapshot.policies :
        p.compiles /\ p.namespace = NamespaceOf(c) /\ c \in p.selects}

\* evaluateConstraints: the first constraint that objects decides.
EvaluateConstraints(c, policies) == \E p \in policies : c \in p.refuses

\* minimumPositive: 0 is no limit.
MinimumPositive(limits) == IF limits \ {0} = {} THEN 0 ELSE Min(limits \ {0})

Reached(count, limit) == limit > 0 /\ count >= limit

\* The quota pass over the candidates accepted before c.  Every candidate of a
\* runner has the same target, so both quotas count the same candidates.
OverQuota(c, allowed, snapshot) ==
    LET count == snapshot.ahead[NamespaceOf(c)]
                   + Cardinality({d \in allowed : NamespaceOf(d) = NamespaceOf(c)})
        matching == Constraints(c, snapshot)
    IN  \/ Reached(count, MinimumPositive({p.maxPerNamespace : p \in matching}))
        \/ Reached(count, MinimumPositive({p.maxPerTarget : p \in matching}))

\* Evaluator.Evaluate: candidates of a namespace with an invalid policy are
\* denied, then those a matching constraint refuses, then those that find a
\* quota used up by the candidates admitted before them.
Evaluate(candidates, snapshot) ==
    LET valid == {c \in candidates : NamespaceOf(c) \notin InvalidNamespaces(snapshot)}
        accepted == {c \in valid : ~EvaluateConstraints(c, Constraints(c, snapshot))}
        admitted[c \in accepted] ==
            ~OverQuota(c, {d \in accepted : Before(d, c) /\ admitted[d]}, snapshot)
        allowed == {c \in accepted : admitted[c]}
    IN  [allowed |-> allowed, overQuota |-> accepted \ allowed]

=============================================================================
