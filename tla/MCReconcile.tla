---------------------------- MODULE MCReconcile ----------------------------
(* Small instances of Reconcile: up to two rows at first, and room for every *)
(* record that can be created beside them.                                   *)
EXTENDS Reconcile

Rec(type, target, ttl, disabled) ==
    [type |-> type, target |-> target, ttl |-> ttl, disabled |-> disabled]

MCRecords ==
    {Rec("A", 1, 1, FALSE), Rec("A", 2, 1, FALSE), Rec("AAAA", 1, 1, FALSE),
     Rec("CNAME", 1, 1, FALSE), Rec("CNAME", 2, 1, FALSE)}

\* Up to two records, or all the addresses.
MCDesires ==
    {D \in SUBSET MCRecords :
        Cardinality(D) <= 2 \/ D = {d \in MCRecords : d.type # "CNAME"}}

MCFound ==
    {Rec("A", 1, 1, FALSE), Rec("A", 1, 2, FALSE), Rec("A", 1, 1, TRUE),
     Rec("A", 2, 1, FALSE), Rec("AAAA", 1, 1, FALSE), Rec("CNAME", 1, 1, FALSE),
     Rec("MX", 1, 1, FALSE)}

MCRecord ==
    {Rec(e.type, e.target, e.ttl, x) : e \in MCFound \cup MCRecords, x \in BOOLEAN}

MCId == 1 .. 5
MCTaken == 1 .. 2

\* Records with target 1 come from one namespace, those with target 2 from
\* another.
MCNamespaceOf(d) == IF d.target = 1 THEN "n1" ELSE "n2"

Place(d) ==
    10 * d.target + CHOOSE k \in 1 .. 3 : <<"A", "AAAA", "CNAME">>[k] = d.type
MCBefore(d, e) == Place(d) < Place(e)

OnePolicy(namespace, selects, refuses, perNamespace, perTarget) ==
    {[namespace |-> namespace, compiles |-> TRUE, selects |-> selects,
      refuses |-> refuses, maxPerNamespace |-> perNamespace,
      maxPerTarget |-> perTarget]}

Snapshot(policies, n1, n2) ==
    [policies |-> policies, ahead |-> [n1 |-> n1, n2 |-> n2]]

Of(type) == {d \in MCRecords : d.type = type}

MCDenials == {{}, OnePolicy("n2", Of("A"), MCRecords, 0, 0)}

Broken(policies) == {[p EXCEPT !.compiles = FALSE] : p \in policies}

MCNoPolicy == Snapshot({}, 0, 0)

\* Nothing; an invalid policy in one namespace; a quota of one record that the
\* records of the name compete for, with two quotas in the other namespace, the
\* smaller of them used up by other names.
MCSnapshots ==
    {MCNoPolicy,
     Snapshot(Broken(OnePolicy("n2", MCRecords, {}, 0, 0)), 0, 0),
     Snapshot(OnePolicy("n1", MCRecords, {}, 1, 0)
                \cup OnePolicy("n2", MCRecords, {}, 3, 0)
                \cup OnePolicy("n2", Of("A"), {}, 0, 1), 0, 1)}

=============================================================================
