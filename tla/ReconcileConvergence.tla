----------------------- MODULE ReconcileConvergence -----------------------
(***************************************************************************)
(* The proof that two undisturbed cycles suffice: from whatever rows the   *)
(* device holds, the first writes everything that may be written and the   *)
(* second cleans up behind it, in every ownership mode.                    *)
(*                                                                         *)
(* The argument compares the operations a cycle still has to attempt with  *)
(* the plan a complete cycle would make of the rows as they are now.  The  *)
(* first part reads that plan off the rows, the second says what one       *)
(* operation does to it, and the third follows the cycles.                 *)
(***************************************************************************)
EXTENDS ReconcileProofs

-----------------------------------------------------------------------------
(* The plan that a complete cycle would make now. *)

\* The parts of the plan for everything that is wanted, with cleanup: the rows it may
\* change and the others, the row that holds d, what is missing, present and stale,
\* the replacements, and the operations.
Own == Owned(Wanted)
Foreign == Unowned(Wanted)
Hit(d) == Match(Wanted, d)
Gap == Missing(Wanted)
Have == Present(Wanted)
Extra == Stale(Wanted, TRUE)
Swaps == Pairs(Wanted, TRUE)
Left == EnforceRestrictedOwnershipConflicts(Wanted, TRUE)

\* The whole name is in conflict, in a transition, or neither.
Broken == MutationConflict(Wanted, TRUE)
Turning == ~Broken /\ CnameTransition(Wanted)
Plain == ~Broken /\ ~CnameTransition(Wanted)

\* Every record that is present is as desired.
Exact == \A d \in Have : zone[Hit(d)] = d

\* The plan, row by row and record by record.
PlanFacts ==
    /\ Own \subseteq Rows /\ Rows \subseteq Id /\ Foreign = Rows \ Own
    /\ \A i \in Rows : zone[i] \in Record
    /\ Gap \cup Have \subseteq Wanted
    /\ \A d \in Wanted :
          /\ d \in Have <=> /\ \A j \in Foreign : zone[j].type # d.type
                            /\ \E i \in Own : KeyOf(zone[i]) = KeyOf(d)
          /\ d \in Gap <=> /\ \A j \in Foreign : zone[j].type # d.type
                           /\ \A i \in Own : KeyOf(zone[i]) # KeyOf(d)
    /\ \A d \in Have : /\ Hit(d) \in Own
                       /\ KeyOf(zone[Hit(d)]) = KeyOf(d)
                       /\ \A i \in Own : KeyOf(zone[i]) = KeyOf(d) => Hit(d) <= i
    /\ \A i : i \in Extra <=>
          /\ i \in Own
          /\ \/ \E d \in Have : KeyOf(zone[i]) = KeyOf(d) /\ i # Hit(d)
             \/ /\ \A d \in Wanted : KeyOf(zone[i]) # KeyOf(d)
                /\ \A d \in Wanted :
                      d.type = zone[i].type => \A j \in Foreign : zone[j].type # d.type
    /\ \A i, d : <<i, d>> \in Swaps <=>
          /\ cleanup = "delete" /\ i \in Extra /\ d \in Gap
          /\ zone[i].type = d.type
          /\ \A j \in Extra : zone[j].type = d.type => j = i
          /\ \A e \in Gap : e.type = d.type => e = d
    /\ \A p \in Swaps : p = <<p[1], p[2]>>

\* The conditions of the whole name in the same terms.
NameFacts ==
    /\ CnameTransition(Wanted) <=>
          \/ /\ \E d \in Wanted : /\ Wanted = {d} /\ d.type = "CNAME"
                                  /\ \A i \in Own : KeyOf(zone[i]) # KeyOf(d)
             /\ \E i \in Own : zone[i].type = "CNAME"
          \/ \E d \in Wanted, i \in Own : CnameTypesConflict(d.type, zone[i].type)
    /\ Plain <=>
          /\ ~DesiredSetConflict(Wanted)
          /\ \A d \in Wanted, j \in Foreign : ~CnameTypesConflict(d.type, zone[j].type)
          /\ ~CnameTransition(Wanted)
    /\ Turning <=>
          /\ ~DesiredSetConflict(Wanted)
          /\ \A d \in Wanted, j \in Foreign : ~CnameTypesConflict(d.type, zone[j].type)
          /\ CnameTransition(Wanted)
          /\ \E d \in Wanted : Wanted = {d} /\ \A j \in Foreign : zone[j].type # d.type
          /\ \E i \in Own : Own = {i}
          /\ NeedsCnameTargetReplacement(Wanted) => cleanup = "delete"
    /\ NeedsCnameTargetReplacement(Wanted) <=>
          /\ \E d \in Wanted : /\ Wanted = {d} /\ d.type = "CNAME"
                               /\ \A i \in Own : KeyOf(zone[i]) # KeyOf(d)
          /\ \E i \in Own : zone[i].type = "CNAME"

\* BuildWithCleanupScope computes its parts as PlanFacts says, whatever the rows.
LEMMA PlanFactsHold == Base => PlanFacts
<1> SUFFICES ASSUME Base PROVE PlanFacts
  OBVIOUS
<1>1. /\ Own \subseteq Rows /\ Rows \subseteq Id /\ Foreign = Rows \ Own
      /\ \A i \in Rows : zone[i] \in Record
  BY OwnedFacts, Zenon DEF Own, Foreign, Unowned
<1>2. Gap \cup Have \subseteq Wanted
  BY Zenon DEF Gap, Have, Missing, Present
<1>3. ASSUME NEW d \in Wanted
      PROVE  d \in Contested(Wanted) <=> \E j \in Foreign : zone[j].type = d.type
  BY Zenon DEF Contested, LogicalUnowned, Foreign
<1>4. ASSUME NEW d
      PROVE  \A i : i \in Matches(Wanted, d) <=> i \in Own /\ KeyOf(zone[i]) = KeyOf(d)
  BY Zenon DEF Matches, Own
<1>5. ASSUME NEW d \in Wanted
      PROVE  /\ d \in Have <=> /\ \A j \in Foreign : zone[j].type # d.type
                               /\ \E i \in Own : KeyOf(zone[i]) = KeyOf(d)
             /\ d \in Gap <=> /\ \A j \in Foreign : zone[j].type # d.type
                              /\ \A i \in Own : KeyOf(zone[i]) # KeyOf(d)
  <2>1. /\ d \in Gap <=> d \notin Contested(Wanted) /\ Matches(Wanted, d) = {}
        /\ d \in Have <=> d \notin Contested(Wanted) /\ Matches(Wanted, d) # {}
    BY Zenon DEF Gap, Have, Present, Missing
  <2> QED
    BY <1>3, <1>4, <2>1, Zenon
<1>6. ASSUME NEW d \in Have
      PROVE  /\ Hit(d) \in Own
             /\ KeyOf(zone[Hit(d)]) = KeyOf(d)
             /\ \A i \in Own : KeyOf(zone[i]) = KeyOf(d) => Hit(d) <= i
  BY <1>4, PresentFacts, Zenon DEF Have, Hit, Own
<1>7. ASSUME NEW i
      PROVE  i \in Extra <=>
                /\ i \in Own
                /\ \/ \E d \in Have : KeyOf(zone[i]) = KeyOf(d) /\ i # Hit(d)
                   \/ /\ \A d \in Wanted : KeyOf(zone[i]) # KeyOf(d)
                      /\ \A d \in Wanted :
                            d.type = zone[i].type => \A j \in Foreign : zone[j].type # d.type
  <2> DEFINE U == UNION {Matches(Wanted, d) \ {Match(Wanted, d)} : d \in Present(Wanted)}
             V == {j \in Owned(Wanted) :
                      /\ KeyOf(zone[j]) \notin KeysOf(Wanted)
                      /\ \A d \in Contested(Wanted) : d.type # zone[j].type}
  <2>1. Extra = U \cup V
    BY Zenon DEF Extra, Stale
  <2>2. i \in U <=> \E d \in Have : i \in Matches(Wanted, d) /\ i # Hit(d)
    BY DEF Have, Hit
  <2>3. i \in V <=> /\ i \in Own /\ KeyOf(zone[i]) \notin KeysOf(Wanted)
                    /\ \A d \in Contested(Wanted) : d.type # zone[i].type
    BY Zenon DEF Own
  <2>4. KeyOf(zone[i]) \notin KeysOf(Wanted) <=> \A d \in Wanted : KeyOf(zone[i]) # KeyOf(d)
    BY Zenon DEF KeysOf
  <2>5. Contested(Wanted) \subseteq Wanted
    BY Zenon DEF Contested
  <2> HIDE DEF U, V
  <2>6. (\A d \in Contested(Wanted) : d.type # zone[i].type) <=>
           \A d \in Wanted :
              d.type = zone[i].type => \A j \in Foreign : zone[j].type # d.type
    BY <1>3, <2>5, Zenon
  <2>7. (\E d \in Have : i \in Matches(Wanted, d) /\ i # Hit(d)) <=>
           i \in Own /\ \E d \in Have : KeyOf(zone[i]) = KeyOf(d) /\ i # Hit(d)
    BY <1>4, Zenon
  <2> QED
    BY <2>1, <2>2, <2>3, <2>4, <2>6, <2>7, Zenon
<1>8. ASSUME NEW i, NEW d
      PROVE  <<i, d>> \in Swaps <=>
                /\ cleanup = "delete" /\ i \in Extra /\ d \in Gap
                /\ zone[i].type = d.type
                /\ \A j \in Extra : zone[j].type = d.type => j = i
                /\ \A e \in Gap : e.type = d.type => e = d
  <2>1. <<i, d>> \in Swaps <=>
            /\ cleanup = "delete" /\ i \in Extra /\ d \in Gap
            /\ {j \in Extra : zone[j].type = d.type} = {i}
            /\ {e \in Gap : e.type = d.type} = {d}
    BY Zenon DEF Swaps, Pairs, Extra, Gap
  <2> QED
    BY <2>1, Zenon
<1>9. ASSUME NEW p \in Swaps
      PROVE  p = <<p[1], p[2]>>
  <2>1. p \in Extra \X Gap
    BY Zenon DEF Swaps, Pairs, Extra, Gap
  <2> QED
    BY <2>1
<1> QED
  BY <1>1, <1>2, <1>5, <1>6, <1>7, <1>8, <1>9, Zenon DEF PlanFacts

\* The checks the planner makes of the whole name say what NameFacts says.
LEMMA NameFactsHold == Base => NameFacts
<1> SUFFICES ASSUME Base PROVE NameFacts
  OBVIOUS
<1>1. NeedsCnameTargetReplacement(Wanted) <=>
          /\ \E d \in Wanted : /\ Wanted = {d} /\ d.type = "CNAME"
                               /\ \A i \in Own : KeyOf(zone[i]) # KeyOf(d)
          /\ \E i \in Own : zone[i].type = "CNAME"
  BY Zenon DEF NeedsCnameTargetReplacement, Own
<1>2. CnameTransition(Wanted) <=>
          \/ NeedsCnameTargetReplacement(Wanted)
          \/ \E d \in Wanted, i \in Own : CnameTypesConflict(d.type, zone[i].type)
  BY Zenon DEF CnameTransition, HasCnameTypeTransition, Own
<1>3. CnameReplaceable(Wanted, TRUE) <=>
          /\ \E d \in Wanted : Wanted = {d} /\ \A j \in Foreign : zone[j].type # d.type
          /\ \E i \in Own : Own = {i}
          /\ NeedsCnameTargetReplacement(Wanted) => cleanup = "delete"
  <2>1. \A d : LogicalUnowned(Wanted, d.type) = {} <=> \A j \in Foreign : zone[j].type # d.type
    BY Zenon DEF LogicalUnowned, Foreign
  <2> QED
    BY <2>1, Zenon DEF CnameReplaceable, Own
<1>4. Broken <=> \/ DesiredSetConflict(Wanted)
                 \/ \E d \in Wanted, j \in Foreign : CnameTypesConflict(d.type, zone[j].type)
                 \/ CnameTransition(Wanted) /\ ~CnameReplaceable(Wanted, TRUE)
  BY Zenon DEF Broken, MutationConflict, UnownedCnameConflict, Foreign
<1> QED
  BY <1>1, <1>2, <1>3, <1>4, Zenon DEF NameFacts, Plain, Turning

-----------------------------------------------------------------------------
(* Steps and the complete plan. *)

\* Records with the same key have the same type.
LEMMA SameKeySameType ==
    ASSUME NEW e, NEW f, KeyOf(e) = KeyOf(f)
    PROVE  e.type = f.type
BY Zenon DEF KeyOf

\* The step leaves the parts of the plan as they are.
SamePlan ==
    /\ Wanted' = Wanted /\ Own' = Own /\ Foreign' = Foreign
    /\ Gap' = Gap /\ Have' = Have
    /\ \A d \in Have : Hit(d)' = Hit(d)
    /\ Extra' = Extra /\ Swaps' = Swaps
    /\ Plain' <=> Plain
    /\ Turning' <=> Turning
    /\ Broken' <=> Broken

\* Where every row keeps its key the plan keeps its parts.
LEMMA SameKeys ==
    ASSUME Base, Base', UNCHANGED Settings, claimed' = claimed, Rows' = Rows,
           mode # "restricted" \/ zone' = zone,
           \A i \in Rows : KeyOf(zone'[i]) = KeyOf(zone[i])
    PROVE  SamePlan
<1>1. mode' = mode /\ cleanup' = cleanup /\ Wanted' = Wanted
  BY Zenon DEF Settings, Wanted
<1>2. PlanFacts /\ PlanFacts'
  BY PlanFactsHold, PTL
<1>3. NameFacts /\ NameFacts'
  BY NameFactsHold, PTL
<1>4. \A i \in Rows : zone'[i].type = zone[i].type
  BY SameKeySameType, Zenon
<1>5. Own' = Own
  <2>1. AdoptableRows' = AdoptableRows
    BY <1>4, Zenon DEF AdoptableRows
  <2>2. CASE mode # "restricted"
    BY <1>1, <2>1, <2>2, Zenon DEF Own, Owned, Base, TypeOK, Modes
  <2>3. CASE zone' = zone
    BY <1>1, <2>1, <2>3, Zenon DEF Own, Owned
  <2> QED
    BY <2>2, <2>3, Zenon
<1>6. Foreign' = Foreign /\ Own \subseteq Rows /\ Foreign \subseteq Rows
  BY <1>2, <1>5, Zenon DEF PlanFacts
<1>7. /\ \A i \in Own : KeyOf(zone'[i]) = KeyOf(zone[i])
      /\ \A j \in Own \cup Foreign : zone'[j].type = zone[j].type
  BY <1>4, <1>6, Zenon
<1>8. Have' = Have /\ Gap' = Gap
  <2>1. ASSUME NEW d \in Wanted
        PROVE  (d \in Have' <=> d \in Have) /\ (d \in Gap' <=> d \in Gap)
    <3>1. /\ d \in Have <=> /\ \A j \in Foreign : zone[j].type # d.type
                            /\ \E i \in Own : KeyOf(zone[i]) = KeyOf(d)
          /\ d \in Gap <=> /\ \A j \in Foreign : zone[j].type # d.type
                           /\ \A i \in Own : KeyOf(zone[i]) # KeyOf(d)
      BY <1>2, Zenon DEF PlanFacts
    <3>2. /\ d \in Have' <=> /\ \A j \in Foreign : zone'[j].type # d.type
                             /\ \E i \in Own : KeyOf(zone'[i]) = KeyOf(d)
          /\ d \in Gap' <=> /\ \A j \in Foreign : zone'[j].type # d.type
                            /\ \A i \in Own : KeyOf(zone'[i]) # KeyOf(d)
      BY <1>1, <1>2, <1>5, <1>6 DEF PlanFacts
    <3> QED
      BY <1>7, <3>1, <3>2, Zenon
  <2>2. Gap \cup Have \subseteq Wanted /\ Gap' \cup Have' \subseteq Wanted
    BY <1>1, <1>2, Zenon DEF PlanFacts
  <2> QED
    BY <2>1, <2>2, Zenon
<1>9. ASSUME NEW d \in Have
      PROVE  Hit(d)' = Hit(d)
  <2>1. \A i \in Own : i \in Int
    BY <1>2, IdAssumption, Zenon DEF PlanFacts
  <2>2. /\ Hit(d) \in Own
        /\ KeyOf(zone[Hit(d)]) = KeyOf(d)
        /\ \A i \in Own : KeyOf(zone[i]) = KeyOf(d) => Hit(d) <= i
    BY <1>2, Zenon DEF PlanFacts
  <2>3. /\ Hit(d)' \in Own
        /\ KeyOf(zone'[Hit(d)']) = KeyOf(d)
        /\ \A i \in Own : KeyOf(zone'[i]) = KeyOf(d) => Hit(d)' <= i
    BY <1>2, <1>5, <1>8, Zenon DEF PlanFacts
  <2>4. Hit(d)' <= Hit(d) /\ Hit(d) <= Hit(d)'
    BY <1>7, <2>2, <2>3, Zenon
  <2> QED
    BY <2>1, <2>2, <2>3, <2>4
<1>10. Extra' = Extra
  <2>1. ASSUME NEW i
        PROVE  i \in Extra' <=> i \in Extra
    <3>1. i \in Extra <=>
             /\ i \in Own
             /\ \/ \E d \in Have : KeyOf(zone[i]) = KeyOf(d) /\ i # Hit(d)
                \/ /\ \A d \in Wanted : KeyOf(zone[i]) # KeyOf(d)
                   /\ \A d \in Wanted :
                         d.type = zone[i].type => \A j \in Foreign : zone[j].type # d.type
      BY <1>2, Zenon DEF PlanFacts
    <3>2. i \in Extra' <=>
             /\ i \in Own
             /\ \/ \E d \in Have : KeyOf(zone'[i]) = KeyOf(d) /\ i # Hit(d)'
                \/ /\ \A d \in Wanted : KeyOf(zone'[i]) # KeyOf(d)
                   /\ \A d \in Wanted :
                         d.type = zone'[i].type => \A j \in Foreign : zone'[j].type # d.type
      BY <1>1, <1>2, <1>5, <1>6, <1>8 DEF PlanFacts
    <3> QED
      BY <1>7, <1>9, <3>1, <3>2, Zenon
  <2> QED
    BY <2>1, Zenon
<1>11. Swaps' = Swaps
  <2>1. Extra \subseteq Own
    BY <1>2, Zenon DEF PlanFacts
  <2>2. ASSUME NEW i, NEW d
        PROVE  <<i, d>> \in Swaps' <=> <<i, d>> \in Swaps
    <3>1. <<i, d>> \in Swaps <=>
             /\ cleanup = "delete" /\ i \in Extra /\ d \in Gap
             /\ zone[i].type = d.type
             /\ \A j \in Extra : zone[j].type = d.type => j = i
             /\ \A e \in Gap : e.type = d.type => e = d
      BY <1>2, ZenonT(60) DEF PlanFacts
    <3>2. <<i, d>> \in Swaps' <=>
             /\ cleanup = "delete" /\ i \in Extra /\ d \in Gap
             /\ zone'[i].type = d.type
             /\ \A j \in Extra : zone'[j].type = d.type => j = i
             /\ \A e \in Gap : e.type = d.type => e = d
      BY <1>1, <1>2, <1>8, <1>10 DEF PlanFacts
    <3> QED
      BY <1>7, <2>1, <3>1, <3>2, Zenon
  <2>3. (\A p \in Swaps : p = <<p[1], p[2]>>) /\ (\A p \in Swaps' : p = <<p[1], p[2]>>)
    BY <1>2, Zenon DEF PlanFacts
  <2> QED
    BY <2>2, <2>3
<1>12. NeedsCnameTargetReplacement(Wanted)' <=> NeedsCnameTargetReplacement(Wanted)
  BY <1>1, <1>3, <1>5, <1>7 DEF NameFacts
<1>13. CnameTransition(Wanted)' <=> CnameTransition(Wanted)
  BY <1>1, <1>3, <1>5, <1>7 DEF NameFacts
<1>14. DesiredSetConflict(Wanted)' <=> DesiredSetConflict(Wanted)
  BY <1>1, Zenon DEF DesiredSetConflict
<1>15. Plain' <=> Plain
  BY <1>1, <1>3, <1>6, <1>7, <1>13, <1>14, ZenonT(60) DEF NameFacts
<1>16. Turning' <=> Turning
  BY <1>1, <1>3, <1>5, <1>6, <1>7, <1>12, <1>13, <1>14 DEF NameFacts
<1>17. Broken' <=> Broken
  BY <1>13, <1>15, <1>16, Zenon DEF Plain, Turning
<1> QED
  BY <1>1, <1>5, <1>6, <1>8, <1>9, <1>10, <1>11, <1>15, <1>16, <1>17, Zenon DEF SamePlan

\* The record v gets the row i, or with NoRow the row i goes.
Moved(i, v) ==
    /\ Wanted' = Wanted /\ Foreign' = Foreign
    /\ Gap' = Gap \ {v}
    /\ Have' = IF v = NoRow THEN Have ELSE Have \cup {v}
    /\ \A d \in Have : Hit(d)' = Hit(d) /\ Hit(d) # i /\ Hit(d) \in Rows
    /\ v # NoRow => Hit(v)' = i
    /\ Extra' = Extra \ {i}
    /\ \A k, d : <<k, d>> \in Swaps /\ k # i /\ d # v => <<k, d>> \in Swaps'
    /\ Plain'

\* A stale row that goes, or a missing record that is written to a new or a stale
\* row, changes that much of the plan and nothing else.
LEMMA RowStep ==
    ASSUME Base, Base', UNCHANGED Settings, mode # "restricted", Plain,
           NEW i \in Id, i \notin Rows \/ i \in Extra,
           NEW v, v = NoRow \/ v \in Gap,
           zone'[i] = v, \A j \in Id \ {i} : zone'[j] = zone[j],
           Own' = IF v = NoRow THEN Own \ {i} ELSE Own \cup {i}
    PROVE  Moved(i, v)
<1>1. mode' = mode /\ cleanup' = cleanup /\ Wanted' = Wanted
  BY Zenon DEF Settings, Wanted
<1>2. PlanFacts /\ PlanFacts'
  BY PlanFactsHold, PTL
<1>3. NameFacts /\ NameFacts'
  BY NameFactsHold, PTL
<1>4. /\ \A d \in Wanted : d \in Record /\ d # NoRow
      /\ \A d, e \in Wanted : KeyOf(d) = KeyOf(e) => d = e
  BY WantedFacts, ReconcileAssumption, ZenonT(60) DEF Base
<1>5. /\ Own \subseteq Rows /\ Rows \subseteq Id /\ Foreign = Rows \ Own
      /\ Own' \subseteq Rows' /\ Rows' \subseteq Id /\ Foreign' = Rows' \ Own'
      /\ Gap \cup Have \subseteq Wanted /\ Gap' \cup Have' \subseteq Wanted
      /\ Extra \subseteq Own /\ Extra' \subseteq Own'
  BY <1>1, <1>2, Zenon DEF PlanFacts
<1>6. v # NoRow => v \in Wanted /\ v \in Gap
  BY <1>5, Zenon
<1>7. \A j \in Id : j \in Rows' <=> IF j = i THEN v # NoRow ELSE j \in Rows
  BY Zenon DEF Rows
<1>8. Foreign' = Foreign /\ i \notin Foreign
  <2>1. i \notin Foreign
    BY <1>5, Zenon
  <2>2. ASSUME NEW j \in Id
        PROVE  j \in Foreign' <=> j \in Foreign
    BY <1>5, <1>7, <2>1, Zenon
  <2> QED
    BY <1>5, <2>1, <2>2, Zenon
<1>9. \A j \in Own \cup Own' \cup Foreign : j # i => zone'[j] = zone[j]
  BY <1>5, Zenon
<1>10. \A j \in Foreign : zone'[j] = zone[j]
  BY <1>8, <1>9, ZenonT(60)
<1>11. \A d \in Wanted :
          /\ d \in Have <=> /\ \A j \in Foreign : zone[j].type # d.type
                            /\ \E k \in Own : KeyOf(zone[k]) = KeyOf(d)
          /\ d \in Gap <=> /\ \A j \in Foreign : zone[j].type # d.type
                           /\ \A k \in Own : KeyOf(zone[k]) # KeyOf(d)
          /\ d \in Have' <=> /\ \A j \in Foreign : zone[j].type # d.type
                             /\ \E k \in Own' : KeyOf(zone'[k]) = KeyOf(d)
          /\ d \in Gap' <=> /\ \A j \in Foreign : zone[j].type # d.type
                            /\ \A k \in Own' : KeyOf(zone'[k]) # KeyOf(d)
  BY <1>1, <1>2, <1>8, <1>10 DEF PlanFacts
<1>12. /\ \A d \in Have : /\ Hit(d) \in Own
                          /\ KeyOf(zone[Hit(d)]) = KeyOf(d)
                          /\ \A k \in Own : KeyOf(zone[k]) = KeyOf(d) => Hit(d) <= k
       /\ \A d \in Have' : /\ Hit(d)' \in Own'
                           /\ KeyOf(zone'[Hit(d)']) = KeyOf(d)
                           /\ \A k \in Own' : KeyOf(zone'[k]) = KeyOf(d) => Hit(d)' <= k
  BY <1>2, Zenon DEF PlanFacts
<1>13. i \in Own => /\ i \in Extra
                    /\ \A d \in Wanted : KeyOf(zone[i]) = KeyOf(d) => d \in Have /\ i # Hit(d)
  <2> SUFFICES ASSUME i \in Own, NEW d \in Wanted, KeyOf(zone[i]) = KeyOf(d)
               PROVE  d \in Have /\ i # Hit(d)
    BY <1>5, Zenon
  <2>1. i \in Extra
    BY <1>5, ZenonT(60)
  <2>2. PICK e \in Have : KeyOf(zone[i]) = KeyOf(e) /\ i # Hit(e)
    BY <1>2, <2>1 DEF PlanFacts
  <2> QED
    BY <1>4, <1>5, <2>2, Zenon
<1>14. ASSUME NEW d \in Have
       PROVE  Hit(d) # i /\ Hit(d) \in Own /\ Hit(d) \in Own' /\ d # v /\ d \in Wanted
  <2>1. d \in Wanted /\ Hit(d) \in Own /\ KeyOf(zone[Hit(d)]) = KeyOf(d)
    BY <1>5, <1>12, Zenon
  <2>2. Hit(d) # i
    BY <1>13, <2>1, Zenon
  <2>3. d # v
    <3>1. d \notin Gap
      BY <1>11, <2>1, Zenon
    <3>2. d # NoRow
      BY <1>4, <2>1, Zenon
    <3> QED
      BY <1>6, <3>1, <3>2, Zenon
  <2> QED
    BY <2>1, <2>2, <2>3, Zenon
<1>15. ASSUME NEW d \in Have
       PROVE  d \in Have' /\ Hit(d)' = Hit(d)
  <2>1. KeyOf(zone'[Hit(d)]) = KeyOf(d)
    BY <1>9, <1>12, <1>14, Zenon
  <2>2. d \in Have'
    BY <1>11, <1>14, <2>1, Zenon
  <2>3. \A k \in Own \cup Own' : k \in Int
    BY <1>5, IdAssumption, Zenon
  <2>4. Hit(d)' # i
    <3>1. CASE v = NoRow
      BY <1>12, <2>2, <3>1, Zenon
    <3>2. CASE v # NoRow
      BY <1>4, <1>6, <1>12, <1>14, <2>2, <3>2
    <3> QED
      BY <3>1, <3>2, Zenon
  <2>5. Hit(d)' \in Own /\ KeyOf(zone[Hit(d)']) = KeyOf(d)
    BY <1>9, <1>12, <2>2, <2>4, Zenon
  <2>6. Hit(d)' <= Hit(d) /\ Hit(d) <= Hit(d)'
    BY <1>12, <1>14, <2>1, <2>2, <2>5, Zenon
  <2> QED
    BY <1>14, <2>2, <2>3, <2>5, <2>6
<1>16. ASSUME NEW d \in Wanted
       PROVE  /\ d \in Have' => d \in Have \/ d = v
              /\ d \in Gap' <=> d \in Gap /\ d # v
  <2>1. \A k \in Own' : KeyOf(zone'[k]) = KeyOf(d) => d = v \/ (k \in Own /\ zone'[k] = zone[k])
    BY <1>4, <1>6, <1>9, Zenon
  <2>2. d \in Have' => d \in Have \/ d = v
    BY <1>11, <2>1, Zenon
  <2>3. d \in Gap' => d \in Gap /\ d # v
    <3>1. d = v => i \in Own' /\ KeyOf(zone'[i]) = KeyOf(d)
      BY <1>4, Zenon
    <3>2. d \in Gap' => d \notin Have
      BY <1>11, <1>15, Zenon
    <3> QED
      BY <1>11, <3>1, <3>2, Zenon
  <2>4. d \in Gap /\ d # v => d \in Gap'
    BY <1>11, <2>1, ZenonT(60)
  <2> QED
    BY <2>2, <2>3, <2>4, Zenon
<1>17. v # NoRow => v \in Have' /\ Hit(v)' = i
  <2> SUFFICES ASSUME v # NoRow
               PROVE  v \in Have' /\ Hit(v)' = i
    OBVIOUS
  <2>1. v \in Have'
    BY <1>6, <1>11, Zenon
  <2>2. \A k \in Own : KeyOf(zone[k]) # KeyOf(v)
    BY <1>6, <1>11, Zenon
  <2> QED
    BY <1>9, <1>12, <2>1, <2>2
<1>18. Gap' = Gap \ {v}
  BY <1>5, <1>16, Zenon
<1>19. Have' = IF v = NoRow THEN Have ELSE Have \cup {v}
  <2>1. Have \subseteq Have' /\ Have' \subseteq Have \cup {v}
    BY <1>5, <1>15, <1>16, Zenon
  <2>2. CASE v = NoRow
    <3>1. v \notin Have'
      BY <1>4, <1>5, <2>2, Zenon
    <3>2. Have' = Have
      BY <2>1, <3>1
    <3> QED
      BY <2>2, <3>2, Zenon
  <2>3. CASE v # NoRow
    <3>1. v \in Have'
      BY <1>17, <2>3, Zenon
    <3>2. Have' = Have \cup {v}
      BY <2>1, <3>1
    <3> QED
      BY <2>3, <3>2, Zenon
  <2> QED
    BY <2>2, <2>3, Zenon
<1>20. Extra' = Extra \ {i}
  <2>1. i \notin Extra'
    <3>1. CASE v = NoRow
      BY <1>5, <3>1, ZenonT(60)
    <3>2. CASE v # NoRow
      <4>1. ASSUME NEW d \in Have', KeyOf(zone'[i]) = KeyOf(d)
            PROVE  i = Hit(d)'
        BY <1>4, <1>5, <1>6, <1>17, <3>2, <4>1, Zenon
      <4>2. ~ \A d \in Wanted' : KeyOf(zone'[i]) # KeyOf(d)
        BY <1>1, <1>6, <3>2, Zenon
      <4> QED
        BY <1>2, <4>1, <4>2 DEF PlanFacts
    <3> QED
      BY <3>1, <3>2, Zenon
  <2>2. ASSUME NEW k \in Own, k # i
        PROVE  k \in Extra' <=> k \in Extra
    <3>1. k \in Own' /\ zone'[k] = zone[k]
      BY <1>9, <2>2, ZenonT(60)
    <3>2. k \in Extra <=>
             \/ \E d \in Have : KeyOf(zone[k]) = KeyOf(d) /\ k # Hit(d)
             \/ /\ \A d \in Wanted : KeyOf(zone[k]) # KeyOf(d)
                /\ \A d \in Wanted :
                      d.type = zone[k].type => \A j \in Foreign : zone[j].type # d.type
      BY <1>2 DEF PlanFacts
    <3>3. k \in Extra' <=>
             \/ \E d \in Have' : KeyOf(zone[k]) = KeyOf(d) /\ k # Hit(d)'
             \/ /\ \A d \in Wanted : KeyOf(zone[k]) # KeyOf(d)
                /\ \A d \in Wanted :
                      d.type = zone[k].type => \A j \in Foreign : zone'[j].type # d.type
      BY <1>1, <1>2, <1>8, <3>1 DEF PlanFacts
    <3>4. v # NoRow => KeyOf(zone[k]) # KeyOf(v)
      BY <1>6, <1>11, Zenon
    <3>5. (\E d \in Have' : KeyOf(zone[k]) = KeyOf(d) /\ k # Hit(d)') <=>
             \E d \in Have : KeyOf(zone[k]) = KeyOf(d) /\ k # Hit(d)
      BY <1>15, <1>19, <3>4, ZenonT(60)
    <3> QED
      BY <1>10, <3>2, <3>3, <3>5, Zenon
  <2> QED
    BY <1>5, <2>1, <2>2, Zenon
<1>21. ASSUME NEW k, NEW d, <<k, d>> \in Swaps, k # i, d # v
       PROVE  <<k, d>> \in Swaps'
  <2>1. /\ cleanup = "delete" /\ k \in Extra /\ d \in Gap
        /\ zone[k].type = d.type
        /\ \A j \in Extra : zone[j].type = d.type => j = k
        /\ \A e \in Gap : e.type = d.type => e = d
    BY <1>2, <1>21, ZenonT(60) DEF PlanFacts
  <2>2. \A j \in Extra' : zone'[j] = zone[j] /\ j \in Extra
    BY <1>5, <1>9, <1>20, Zenon
  <2>3. k \in Extra' /\ d \in Gap' /\ Gap' \subseteq Gap
    BY <1>18, <1>20, <1>21, <2>1, Zenon
  <2> QED
    BY <1>1, <1>2, <2>1, <2>2, <2>3 DEF PlanFacts
<1>22. Plain'
  <2>1. /\ ~DesiredSetConflict(Wanted)
        /\ \A d \in Wanted, j \in Foreign : ~CnameTypesConflict(d.type, zone[j].type)
        /\ ~CnameTransition(Wanted)
    BY <1>3, Zenon DEF NameFacts
  <2>2. ~DesiredSetConflict(Wanted)'
    BY <1>1, <2>1, Zenon DEF DesiredSetConflict
  <2>3. ASSUME NEW d \in Wanted, NEW k \in Own'
        PROVE  ~CnameTypesConflict(d.type, zone'[k].type)
    <3>1. CASE k = i
      BY <1>6, <2>1, <2>3, <3>1, Zenon DEF DesiredSetConflict
    <3>2. CASE k # i
      <4>1. k \in Own /\ zone'[k] = zone[k]
        BY <1>9, <3>2, Zenon
      <4> QED
        BY <1>3, <2>1, <4>1, Zenon DEF NameFacts
    <3> QED
      BY <3>1, <3>2, Zenon
  <2>4. ASSUME NEW d \in Wanted, Wanted = {d}, d.type = "CNAME",
               \A k \in Own' : KeyOf(zone'[k]) # KeyOf(d),
               NEW m \in Own', zone'[m].type = "CNAME"
        PROVE  FALSE
    <3>1. v = NoRow
      BY <1>6, <2>4, Zenon
    <3>2. m \in Own /\ zone[m].type = "CNAME"
      BY <1>9, <2>4, <3>1, Zenon
    <3>3. PICK k \in Own : KeyOf(zone[k]) = KeyOf(d)
      BY <1>3, <2>1, <2>4, <3>2, Zenon DEF NameFacts
    <3>4. k = i
      BY <1>9, <2>4, <3>3, Zenon
    <3>5. d \in Have
      BY <1>13, <3>3, <3>4, Zenon
    <3> QED
      BY <1>9, <1>12, <1>14, <2>4, <3>5, Zenon
  <2>5. ~CnameTransition(Wanted)'
    BY <1>1, <1>3, <2>3, <2>4, Zenon DEF NameFacts
  <2> QED
    BY <1>1, <1>3, <1>8, <1>10, <2>1, <2>2, <2>5, Zenon DEF NameFacts
<1> QED
  BY <1>1, <1>5, <1>8, <1>14, <1>15, <1>17, <1>18, <1>19, <1>20, <1>21, <1>22, ZenonT(60) DEF Moved

\* What is not written in a complete cycle: a conflict, a replacement that a shared
\* zone refuses, and cleanup.
Waits(op) == op.kind = "conflict" \/ Refused(op) \/ IsCleanup(op)

\* Every operation that is left waits, and one of them is a refused replacement.
Filled == \A op \in Left : Waits(op)
RefusedLeft == \E o \in Left : Refused(o)

\* Every missing record has a stale row to replace, so that none is created.
AllSwapped == \A d \in Gap : \E i \in Id : <<i, d>> \in Swaps

\* The cleanup operations of the complete plan.
Tidies(op) ==
    /\ AllSwapped
    /\ op.id \in Extra /\ \A d \in Gap : <<op.id, d>> \notin Swaps
    /\ \/ cleanup = "delete" /\ op = Delete(op.id)
       \/ /\ cleanup = "deactivate" /\ ~zone[op.id].disabled
          /\ op = Put("deactivate", op.id, Disabled(zone[op.id]))

\* What is left to do, read off the rows: outside restricted discovery the complete
\* plan only waits exactly when the name is broken, or everything is written.
LeftFacts ==
    mode # "restricted" =>
        /\ Filled <=> \/ Broken
                      \/ Turning /\ mode = "shared"
                      \/ /\ Plain /\ Exact /\ AllSwapped
                         /\ Gap = {} \/ mode = "shared"
        /\ RefusedLeft <=> mode = "shared" /\ (Turning \/ (Plain /\ Swaps # {}))
        /\ \A op : op \in Left /\ IsCleanup(op) <=> Plain /\ Tidies(op)

\* The operations of a plan without a conflict or transition of the whole name.
LEMMA PlainLeft ==
    ASSUME Base, ~RestrictedConflict(Wanted), Plain, NEW op
    PROVE  op \in Left <=>
              \/ \E d \in Contested(Wanted) : op = Conflict(d)
              \/ \E d \in Have : zone[Hit(d)] # d /\ op = Put("update", Hit(d), d)
              \/ \E p \in Swaps : op = Put("replace", p[1], p[2])
              \/ \E d \in Gap : /\ \A i \in Id : <<i, d>> \notin Swaps
                                /\ op = Create(d)
              \/ Tidies(op)
<1>1. PlanFacts
  BY PlanFactsHold, Zenon
<1>2. \A p \in Swaps : p = <<p[1], p[2]>> /\ p[1] \in Id /\ p[1] \in Extra /\ p[2] \in Gap
  <2>1. ASSUME NEW p \in Swaps
        PROVE  p = <<p[1], p[2]>> /\ p[1] \in Id /\ p[1] \in Extra /\ p[2] \in Gap
    <3>1. p = <<p[1], p[2]>>
      BY <1>1, Zenon DEF PlanFacts
    <3>2. <<p[1], p[2]>> \in Swaps
      BY <3>1, Zenon
    <3>3. p[1] \in Extra /\ p[2] \in Gap
      BY <1>1, <3>2, Zenon DEF PlanFacts
    <3>4. Extra \subseteq Id
      BY <1>1, Zenon DEF PlanFacts
    <3> QED
      BY <3>1, <3>3, <3>4, Zenon
  <2> QED
    BY <2>1, Zenon
<1>3. \A d \in Gap : d \in Creates(Wanted, TRUE) <=> \A i \in Id : <<i, d>> \notin Swaps
  <2>1. \A d \in Gap : d \in Creates(Wanted, TRUE) <=> \A p \in Swaps : d # p[2]
    BY Zenon DEF Creates, Gap, Swaps
  <2>2. ASSUME NEW d \in Gap, NEW p \in Swaps, d = p[2]
        PROVE  \E i \in Id : <<i, d>> \in Swaps
    BY <1>2, <2>2, Zenon
  <2>3. ASSUME NEW d \in Gap, NEW i \in Id, <<i, d>> \in Swaps
        PROVE  \E p \in Swaps : d = p[2]
    <3>1. <<i, d>>[2] = d
      OBVIOUS
    <3> QED
      BY <2>3, <3>1, Zenon
  <2> QED
    BY <2>1, <2>2, <2>3, Zenon
<1>4. Creates(Wanted, TRUE) \subseteq Gap
  BY Zenon DEF Creates, Gap
<1>5. Creates(Wanted, TRUE) = {} <=> AllSwapped
  BY <1>3, <1>4, Zenon DEF AllSwapped
<1>6. \A i : i \in Extra \ {p[1] : p \in Swaps} <=>
                i \in Extra /\ \A d \in Gap : <<i, d>> \notin Swaps
  <2>1. ASSUME NEW i \in {p[1] : p \in Swaps}
        PROVE  \E d \in Gap : <<i, d>> \in Swaps
    BY <1>2, Zenon
  <2>2. ASSUME NEW i, NEW d, <<i, d>> \in Swaps
        PROVE  i \in {p[1] : p \in Swaps}
    BY <2>2
  <2> QED
    BY <2>1, <2>2, Zenon
<1>7. op \in Cleanups(Wanted, TRUE) <=> Tidies(op)
  <2> DEFINE rest == Extra \ {p[1] : p \in Swaps}
  <2>2. \A i : i \in rest <=> i \in Extra /\ \A d \in Gap : <<i, d>> \notin Swaps
    BY <1>6, Zenon
  <2>3. CASE ~AllSwapped
    <3>1. Cleanups(Wanted, TRUE) = {}
      BY <1>5, <2>3, Zenon DEF Cleanups
    <3> QED
      BY <2>3, <3>1, Zenon DEF Tidies
  <2>4. CASE AllSwapped /\ cleanup = "delete"
    <3>1. Cleanups(Wanted, TRUE) = {Delete(i) : i \in rest}
      BY <1>5, <2>4, Zenon DEF Cleanups, Extra, Swaps
    <3> HIDE DEF rest
    <3>2. ASSUME NEW i \in rest, op = Delete(i)
          PROVE  Tidies(op)
      <4>1. op.id = i
        BY <3>2, Zenon DEF Delete
      <4> QED
        BY <2>2, <2>4, <3>2, <4>1, Zenon DEF Tidies
    <3>3. ASSUME Tidies(op)
          PROVE  op.id \in rest /\ op = Delete(op.id)
      BY <2>2, <2>4, <3>3, Zenon DEF Tidies
    <3> QED
      BY <3>1, <3>2, <3>3, Zenon
  <2>5. CASE AllSwapped /\ cleanup = "deactivate"
    <3>1. Cleanups(Wanted, TRUE) =
             {Put("deactivate", i, Disabled(zone[i])) : i \in {j \in rest : ~zone[j].disabled}}
      BY <1>5, <2>5, Zenon DEF Cleanups, Extra, Swaps
    <3> HIDE DEF rest
    <3>2. ASSUME NEW i \in rest, ~zone[i].disabled,
                 op = Put("deactivate", i, Disabled(zone[i]))
          PROVE  Tidies(op)
      <4>1. op.id = i
        BY <3>2, Zenon DEF Put
      <4> QED
        BY <2>2, <2>5, <3>2, <4>1, Zenon DEF Tidies
    <3>3. ASSUME Tidies(op)
          PROVE  /\ op.id \in rest /\ ~zone[op.id].disabled
                 /\ op = Put("deactivate", op.id, Disabled(zone[op.id]))
      BY <2>2, <2>5, <3>3, Zenon DEF Tidies
    <3> QED
      BY <3>1, <3>2, <3>3, Zenon
  <2>6. CASE AllSwapped /\ cleanup = "keep"
    <3>1. Cleanups(Wanted, TRUE) = {}
      BY <1>5, <2>6, Zenon DEF Cleanups
    <3> QED
      BY <2>6, <3>1, Zenon DEF Tidies
  <2> QED
    BY <2>3, <2>4, <2>5, <2>6, Zenon DEF Base, TypeOK, Policies
<1>8. Left = {Conflict(d) : d \in Contested(Wanted)}
               \cup Updates(Wanted)
               \cup {Put("replace", p[1], p[2]) : p \in Swaps}
               \cup {Create(d) : d \in Creates(Wanted, TRUE)}
               \cup Cleanups(Wanted, TRUE)
  BY DEF Left, EnforceRestrictedOwnershipConflicts, BuildWithCleanupScope, Plain, Broken, Swaps
<1>9. op \in Updates(Wanted) <=>
         \E d \in Have : zone[Hit(d)] # d /\ op = Put("update", Hit(d), d)
  BY Zenon DEF Updates, Have, Hit
<1>10. op \in {Create(d) : d \in Creates(Wanted, TRUE)} <=>
          \E d \in Gap : (\A i \in Id : <<i, d>> \notin Swaps) /\ op = Create(d)
  BY <1>3, <1>4, Zenon
<1>11. op \in {Put("replace", p[1], p[2]) : p \in Swaps} <=>
          \E p \in Swaps : op = Put("replace", p[1], p[2])
  OBVIOUS
<1>12. op \in {Conflict(d) : d \in Contested(Wanted)} <=>
          \E d \in Contested(Wanted) : op = Conflict(d)
  OBVIOUS
<1> QED
  BY <1>7, <1>8, <1>9, <1>10, <1>11, <1>12, Zenon

\* The complete plan leaves to do what LeftFacts says.
LEMMA LeftFactsHold == Base => LeftFacts
<1> SUFFICES ASSUME Base, mode # "restricted"
             PROVE  /\ Filled <=> \/ Broken
                                  \/ Turning /\ mode = "shared"
                                  \/ /\ Plain /\ Exact /\ AllSwapped
                                     /\ Gap = {} \/ mode = "shared"
                    /\ RefusedLeft <=> mode = "shared" /\ (Turning \/ (Plain /\ Swaps # {}))
                    /\ \A op : op \in Left /\ IsCleanup(op) <=> Plain /\ Tidies(op)
  BY Zenon DEF LeftFacts
<1>1. Left = BuildWithCleanupScope(Wanted, TRUE)
  BY Zenon DEF Left, EnforceRestrictedOwnershipConflicts, RestrictedConflict
<1>2. CASE Broken
  <2>1. ~Turning /\ ~Plain
    BY <1>2, Zenon DEF Turning, Plain
  <2>2. Left = {Conflict(CHOOSE d \in Wanted : TRUE)}
    BY <1>1, <1>2 DEF BuildWithCleanupScope, Broken
  <2>3. \A op \in Left : op.kind = "conflict"
    BY <2>2 DEF Conflict
  <2> QED
    BY <1>2, <2>1, <2>3, Zenon DEF Filled, RefusedLeft, Waits, Refused, IsCleanup
<1>3. CASE Turning
  <2>1. ~Broken /\ ~Plain
    BY <1>3, Zenon DEF Turning, Plain
  <2>2. PICK i \in Owned(Wanted), d \in Wanted :
              /\ Owned(Wanted) = {i} /\ Wanted = {d}
              /\ LogicalUnowned(Wanted, d.type) = {}
              /\ BuildWithCleanupScope(Wanted, TRUE) = {Put("replace", i, d)}
              /\ \A j \in Rows \ {i} : Compatible(zone[j], d)
    BY <1>3, TransitionFacts, Zenon DEF Turning, Broken
  <2>3. Left = {Put("replace", i, d)}
    BY <1>1, <2>2, Zenon
  <2>4. Put("replace", i, d).kind = "replace"
    BY Zenon DEF Put
  <2> QED
    BY <1>3, <2>1, <2>3, <2>4, Zenon DEF Filled, RefusedLeft, Waits, Refused, IsCleanup
<1>4. CASE Plain
  <2>1. ~Broken /\ ~Turning
    BY <1>4, Zenon DEF Turning, Plain
  <2>2. \A op : op \in Left <=>
              \/ \E d \in Contested(Wanted) : op = Conflict(d)
              \/ \E d \in Have : zone[Hit(d)] # d /\ op = Put("update", Hit(d), d)
              \/ \E p \in Swaps : op = Put("replace", p[1], p[2])
              \/ \E d \in Gap : /\ \A i \in Id : <<i, d>> \notin Swaps
                                /\ op = Create(d)
              \/ Tidies(op)
    BY <1>4, PlainLeft, Zenon DEF RestrictedConflict
  <2>3. /\ \A d : Conflict(d).kind = "conflict" /\ Create(d).kind = "create"
        /\ \A i, d : Put("update", i, d).kind = "update" /\ Put("replace", i, d).kind = "replace"
    BY Zenon DEF Conflict, Create, Put
  <2>4. ASSUME NEW op, Tidies(op)
        PROVE  IsCleanup(op) /\ op.kind # "conflict" /\ ~Refused(op)
    BY <2>4 DEF Tidies, IsCleanup, Refused, Delete, Put
  <2>5. ASSUME NEW op \in Left
        PROVE  \/ op.kind = "conflict"
               \/ op.kind = "update" /\ \E d \in Have : zone[Hit(d)] # d
               \/ op.kind = "replace" /\ Swaps # {}
               \/ op.kind = "create" /\ \E d \in Gap : \A i \in Id : <<i, d>> \notin Swaps
               \/ Tidies(op)
    BY <2>2, <2>3
  <2>6. ASSUME Swaps # {}
        PROVE  \E o \in Left : o.kind = "replace"
    <3>1. PICK p \in Swaps : TRUE
      BY <2>6, Zenon
    <3> QED
      BY <2>2, <2>3, <3>1
  <2>7. RefusedLeft <=> mode = "shared" /\ (Turning \/ (Plain /\ Swaps # {}))
    BY <1>4, <2>1, <2>4, <2>5, <2>6, Zenon DEF RefusedLeft, Refused
  <2>8. ASSUME Filled
        PROVE  /\ Exact /\ AllSwapped
               /\ Gap = {} \/ mode = "shared"
    <3>1. Exact
      BY <2>2, <2>3, <2>8, Zenon DEF Filled, Waits, Refused, IsCleanup, Exact
    <3>2. AllSwapped
      BY <2>2, <2>3, <2>8, Zenon DEF Filled, Waits, Refused, IsCleanup, AllSwapped
    <3>3. Gap = {} \/ mode = "shared"
      BY <2>6, <2>8, <3>2, Zenon DEF Filled, Waits, Refused, IsCleanup, AllSwapped
    <3> QED
      BY <3>1, <3>2, <3>3, Zenon
  <2>9. ASSUME Exact, AllSwapped, Gap = {} \/ mode = "shared"
        PROVE  Filled
    <3>1. Gap = {} => Swaps = {}
      <4>1. PlanFacts
        BY PlanFactsHold, Zenon
      <4>2. \A p \in Swaps : p = <<p[1], p[2]>> /\ (<<p[1], p[2]>> \in Swaps => p[2] \in Gap)
        BY <4>1, Zenon DEF PlanFacts
      <4> QED
        BY <4>2, Zenon
    <3> QED
      BY <2>4, <2>5, <2>9, <3>1, Zenon DEF Filled, Waits, Refused, Exact, AllSwapped
  <2>10. \A op : op \in Left /\ IsCleanup(op) <=> Plain /\ Tidies(op)
    BY <1>4, <2>2, <2>4, <2>5, Zenon DEF IsCleanup
  <2> QED
    BY <1>4, <2>1, <2>7, <2>8, <2>9, <2>10, Zenon
<1> QED
  BY <1>2, <1>3, <1>4, Zenon DEF Plain, Turning

-----------------------------------------------------------------------------
(* Cycles that run to their end. *)

\* An operation is still one that the complete plan would hold.
Current(op) ==
    /\ op.kind = "update" => Plain /\ op.want \in Have /\ op.id = Hit(op.want)
    /\ op.kind = "create" => Plain /\ op.want \in Gap
    /\ op.kind = "replace" =>
          \/ Plain /\ <<op.id, op.want>> \in Swaps
          \/ Turning /\ ops = {op} /\ Own = {op.id} /\ Wanted = {op.want}
    /\ IsCleanup(op) => Plain /\ op.id \in Extra
    /\ op.kind = "deactivate" => cleanup = "deactivate"

\* The operations of the running cycle are all current, and no record is written twice.
PlanCurrent ==
    /\ \A op \in ops : Current(op)
    /\ \A o, p \in ops : o.kind \in Adding /\ p.kind \in Adding /\ o.want = p.want => o = p

\* What an undisturbed cycle has still to write is among its operations.
Pending ==
    \/ Broken
    \/ /\ Turning
       /\ mode = "shared" \/ \E op \in ops : op.kind = "replace"
    \/ /\ Plain
       /\ \A d \in Gap :
             \/ \E op \in ops : op.kind \in Adding /\ op.want = d
             \/ mode = "shared" /\ failed /\ \E i \in Id : <<i, d>> \in Swaps
       /\ \A d \in Have :
             zone[Hit(d)] # d => \E op \in ops : op.kind = "update" /\ op.want = d

\* The requests of a current plan, by what they do to the complete plan.
LEMMA EffectStep ==
    ASSUME SafetyInv, Base', mode # "restricted", UNCHANGED Settings, PlanCurrent,
           NEW op \in ops, Attemptable(op), ~Refused(op), Effect(op)
    PROVE  \/ /\ op.kind \in {"update", "deactivate"}
              /\ SamePlan
              /\ zone'[op.id] = op.want
              /\ \A j \in Id \ {op.id} : zone'[j] = zone[j]
           \/ /\ op.kind \in {"create", "replace", "delete"} /\ Plain
              /\ \E i \in Id : /\ Moved(i, IF op.kind = "delete" THEN NoRow ELSE op.want)
                               /\ IF op.kind = "create" THEN i \notin Rows ELSE i = op.id
                               /\ op.kind # "delete" => zone'[i] = op.want
                               /\ \A j \in Id \ {i} : zone'[j] = zone[j]
           \/ /\ op.kind = "replace" /\ ops = {op} /\ Turning
              /\ Plain' /\ Gap' = {} /\ Exact'
<1>1. Base /\ Sound(ops) /\ op.kind # "conflict" /\ Current(op)
  BY Zenon DEF SafetyInv, Attemptable, PlanCurrent
<1>2. PICK i \in Id, v \in Record \cup {NoRow} : Affects(op, i, v)
  BY <1>1, EffectFacts, Zenon
<1>3. OpSound(op)
  BY <1>1, Zenon DEF Sound
<1>4. op.kind \in {"create", "update", "replace", "delete", "deactivate"}
  BY <1>1, <1>3, Zenon DEF OpSound, Operation, Kinds
<1>5. zone'[i] = v /\ \A j \in Id \ {i} : zone'[j] = zone[j]
  BY <1>2, Zenon DEF Written, Affects
<1>6. mode' = mode /\ Wanted' = Wanted /\ mode \in {"exclusive", "shared"}
  BY <1>1, Zenon DEF Settings, Wanted, Base, TypeOK, Modes
<1>7. PlanFacts /\ NameFacts /\ PlanFacts' /\ NameFacts'
  BY <1>1, PlanFactsHold, NameFactsHold, PTL
<1>8. Own = Mine /\ Own \subseteq AdoptableRows /\ AdoptableRows \subseteq Rows /\ Rows \subseteq Id
  BY <1>1, OwnedFacts, Zenon DEF Own
<1>9. op.kind # "delete" => v # NoRow
  BY <1>2, ReconcileAssumption, Zenon DEF Affects
<1>10. /\ Rows' \subseteq Id
       /\ \A j \in Id : /\ j \in Rows' <=> IF j = i THEN v # NoRow ELSE j \in Rows
                        /\ j \in AdoptableRows' <=>
                              IF j = i THEN v # NoRow ELSE j \in AdoptableRows
  BY <1>2, <1>5, Zenon DEF Rows, AdoptableRows, Affects
<1>11. CASE op.kind \in {"update", "deactivate"}
  <2>1. i = op.id /\ v = op.want /\ claimed' = claimed /\ i \in Rows
    BY <1>2, <1>8, <1>11, Zenon DEF Affects
  <2>2. KeyOf(v) = KeyOf(zone[i])
    <3>1. CASE op.kind = "update"
      BY <1>3, <2>1, <3>1, ZenonT(60) DEF OpSound
    <3>2. CASE op.kind = "deactivate"
      BY <1>3, <2>1, <3>2 DEF OpSound, Disabled, KeyOf
    <3> QED
      BY <1>11, <3>1, <3>2, Zenon
  <2>3. Rows' = Rows
    BY <1>8, <1>9, <1>10, <1>11, <2>1, Zenon
  <2>4. \A j \in Rows : KeyOf(zone'[j]) = KeyOf(zone[j])
    BY <1>5, <1>8, <2>2, Zenon
  <2>5. SamePlan
    BY <1>1, <2>1, <2>3, <2>4, SameKeys, Zenon
  <2> QED
    BY <1>5, <1>11, <2>1, <2>5, Zenon
<1>12. ASSUME op.kind \in {"create", "replace", "delete"}
       PROVE  Own' = IF v = NoRow THEN Own \ {i} ELSE Own \cup {i}
  <2>1. CASE mode = "exclusive"
    <3>1. Own = AdoptableRows /\ Own' = AdoptableRows'
      BY <1>6, <2>1, Zenon DEF Own, Owned
    <3>2. AdoptableRows' \subseteq Id
      BY <1>10, Zenon DEF AdoptableRows
    <3> QED
      BY <1>8, <1>10, <3>1, <3>2, Zenon
  <2>2. CASE mode = "shared"
    <3>1. Own = claimed /\ Own' = claimed'
      BY <1>6, <2>2, Zenon DEF Own, Owned
    <3>2. op.kind # "replace"
      BY <2>2, Zenon DEF Refused
    <3> QED
      BY <1>2, <1>9, <1>12, <2>2, <3>1, <3>2, Zenon DEF Affects
  <2> QED
    BY <1>6, <2>1, <2>2, Zenon
<1>13. CASE \/ op.kind \in {"create", "delete"}
            \/ op.kind = "replace" /\ Plain /\ <<op.id, op.want>> \in Swaps
  <2>1. Plain
    BY <1>1, <1>13, Zenon DEF Current, IsCleanup
  <2>2. v = IF op.kind = "delete" THEN NoRow ELSE op.want
    BY <1>2, <1>13, Zenon DEF Affects
  <2>3. (i \notin Rows \/ i \in Extra) /\ (v = NoRow \/ v \in Gap)
    <3>1. CASE op.kind = "create"
      BY <1>1, <1>2, <3>1, Zenon DEF Current, Affects
    <3>2. CASE op.kind = "delete"
      BY <1>1, <1>2, <3>2, Zenon DEF Current, IsCleanup, Affects
    <3>3. CASE op.kind = "replace" /\ <<op.id, op.want>> \in Swaps
      BY <1>2, <1>7, <3>3, Zenon DEF PlanFacts, Affects
    <3> QED
      BY <1>13, <3>1, <3>2, <3>3, Zenon
  <2>4. Moved(i, v)
    BY <1>1, <1>5, <1>12, <1>13, <2>1, <2>3, RowStep, ZenonT(60)
  <2> QED
    BY <1>2, <1>5, <1>13, <2>1, <2>2, <2>4, Zenon DEF Affects
<1>14. CASE /\ op.kind = "replace"
            /\ Turning /\ ops = {op} /\ Own = {op.id} /\ Wanted = {op.want}
  <2>1. i = op.id /\ v = op.want /\ v # NoRow
    BY <1>2, <1>9, <1>14, Zenon DEF Affects
  <2>2. Own' = {i} /\ Foreign' = Foreign
    <3>1. Own' = {i}
      BY <1>12, <1>14, <2>1, Zenon
    <3>2. Foreign = Rows \ Own /\ Foreign' = Rows' \ Own'
      BY <1>7, ZenonT(60) DEF PlanFacts
    <3> QED
      BY <1>8, <1>10, <1>14, <2>1, <3>1, <3>2, Zenon
  <2>3. \A j \in Foreign : j # i /\ zone'[j] = zone[j]
    <3>1. Foreign = Rows \ Own
      BY <1>7, Zenon DEF PlanFacts
    <3> QED
      BY <1>5, <1>8, <1>14, <2>1, <3>1, Zenon
  <2>4. /\ ~DesiredSetConflict(Wanted)
        /\ \A j \in Foreign : ~CnameTypesConflict(v.type, zone[j].type)
        /\ \A j \in Foreign : zone[j].type # v.type
    <3>1. /\ ~DesiredSetConflict(Wanted)
          /\ \A d \in Wanted, j \in Foreign : ~CnameTypesConflict(d.type, zone[j].type)
          /\ \E d \in Wanted : \A j \in Foreign : zone[j].type # d.type
      BY <1>7, <1>14, Zenon DEF NameFacts
    <3> QED
      BY <1>14, <2>1, <3>1, Zenon
  <2>5. ~DesiredSetConflict(Wanted)'
    BY <1>6, <2>4, ZenonT(60) DEF DesiredSetConflict
  <2>6. Wanted' = {v} /\ Own' = {i} /\ zone'[i] = v
    BY <1>5, <1>6, <1>14, <2>1, <2>2, Zenon
  <2>7. \A j \in Foreign' : /\ ~CnameTypesConflict(v.type, zone'[j].type)
                            /\ zone'[j].type # v.type
    BY <2>2, <2>3, <2>4, Zenon
  <2>8. ~CnameTransition(Wanted)'
    <3>1. ASSUME NEW d \in Wanted', NEW j \in Own'
          PROVE  KeyOf(zone'[j]) = KeyOf(d) /\ ~CnameTypesConflict(d.type, zone'[j].type)
      BY <2>6, <3>1, Zenon DEF CnameTypesConflict
    <3>2. i \in Own'
      BY <2>6, Zenon
    <3> QED
      BY <1>7, <3>1, <3>2, Zenon DEF NameFacts
  <2>9. Plain'
    <3>1. \A d \in Wanted', j \in Foreign' : ~CnameTypesConflict(d.type, zone'[j].type)
      BY <2>6, <2>7, Zenon
    <3> QED
      BY <1>7, <2>5, <2>8, <3>1, Zenon DEF NameFacts
  <2>10. v \in Have' /\ v \notin Gap' /\ Gap' \subseteq {v} /\ Have' \subseteq {v}
    <3>1. /\ v \in Wanted' /\ i \in Own' /\ KeyOf(zone'[i]) = KeyOf(v)
          /\ \A j \in Foreign' : zone'[j].type # v.type
      BY <2>6, <2>7, Zenon
    <3>2. v \in Have' /\ v \notin Gap'
      BY <1>7, <3>1, Zenon DEF PlanFacts
    <3>3. Gap' \subseteq Wanted' /\ Have' \subseteq Wanted'
      BY <1>7, Zenon DEF PlanFacts
    <3> QED
      BY <2>6, <3>2, <3>3, Zenon
  <2>11. Hit(v)' = i
    BY <1>7, <2>2, <2>10, Zenon DEF PlanFacts
  <2>12. Gap' = {}
    BY <2>10, Zenon
  <2>13. Exact'
    <3>1. ASSUME NEW d \in Have' PROVE zone'[Hit(d)'] = d
      <4>1. d = v
        BY <2>10, <3>1, Zenon
      <4> QED
        BY <2>6, <2>11, <4>1, Zenon
    <3> QED
      BY <3>1, Zenon DEF Exact
  <2> QED
    BY <1>14, <2>9, <2>12, <2>13, Zenon
<1> QED
  BY <1>1, <1>4, <1>11, <1>13, <1>14, Zenon DEF Current

\* Where the rows stay the whole plan stays.
LEMMA SameZone ==
    ASSUME Base, Base', UNCHANGED Settings, UNCHANGED <<zone, claimed>>
    PROVE  SamePlan /\ AdoptableRows' = AdoptableRows /\ Left' = Left
<1>1. /\ mode' = mode /\ cleanup' = cleanup /\ Wanted' = Wanted /\ zone' = zone
      /\ Rows' = Rows /\ AdoptableRows' = AdoptableRows
  BY Zenon DEF Settings, Wanted, Rows, AdoptableRows
<1>2. SamePlan
  BY <1>1, SameKeys, Zenon
<1>3. /\ Gap' = Gap /\ Have' = Have /\ Extra' = Extra /\ Swaps' = Swaps /\ Own' = Own
      /\ \A d \in Have : Hit(d)' = Hit(d)
      /\ Broken' <=> Broken
      /\ ~Broken => (CnameTransition(Wanted)' <=> CnameTransition(Wanted))
  BY <1>2, Zenon DEF SamePlan, Plain, Turning
<1>4. Contested(Wanted)' = Contested(Wanted)
  <2>1. \A t : LogicalUnowned(Wanted, t)' = LogicalUnowned(Wanted, t)
    BY <1>1, <1>3, Zenon DEF LogicalUnowned, Unowned, Own
  <2> QED
    BY <1>1, <2>1, Zenon DEF Contested
<1>5. Updates(Wanted)' = Updates(Wanted)
  <2>1. /\ Updates(Wanted) = {Put("update", Hit(d), d) : d \in {p \in Have : zone[Hit(p)] # p}}
        /\ Updates(Wanted)'
             = {Put("update", Hit(d)', d) : d \in {p \in Have' : zone'[Hit(p)'] # p}}
    BY Zenon DEF Updates, Have, Hit, Put
  <2> QED
    BY <1>1, <1>3, <2>1, ZenonT(60)
<1>6. Creates(Wanted, TRUE)' = Creates(Wanted, TRUE)
  BY <1>1, <1>3, Zenon DEF Creates, Gap, Swaps
<1>7. Cleanups(Wanted, TRUE)' = Cleanups(Wanted, TRUE)
  <2> DEFINE C(rest, z) ==
               CASE cleanup = "delete" -> {Delete(i) : i \in rest}
                 [] cleanup = "deactivate" ->
                       {Put("deactivate", i, Disabled(z[i])) : i \in {j \in rest : ~z[j].disabled}}
                 [] cleanup = "keep" -> {}
             rest == Extra \ {p[1] : p \in Swaps}
  <2>1. Cleanups(Wanted, TRUE) = IF Creates(Wanted, TRUE) # {} THEN {} ELSE C(rest, zone)
    BY Zenon DEF Cleanups, Extra, Swaps
  <2>2. rest' = rest
    BY <1>3, Zenon
  <2>3. Cleanups(Wanted, TRUE)' = IF Creates(Wanted, TRUE)' # {} THEN {} ELSE C(rest', zone')
    BY <1>1 DEF Cleanups, Extra, Swaps, Put, Delete, Disabled
  <2> HIDE DEF C, rest
  <2> QED
    BY <1>1, <1>6, <2>1, <2>2, <2>3, Zenon
<1>8. RestrictedConflict(Wanted)' <=> RestrictedConflict(Wanted)
  BY <1>1, Zenon DEF RestrictedConflict, RestrictedRecordSetsEqual
<1> DEFINE X == {Conflict(CHOOSE d \in Wanted : TRUE)}
           T == {Put("replace", i, d) : i \in Owned(Wanted), d \in Wanted}
           K == {Conflict(d) : d \in Contested(Wanted)}
           R == {Put("replace", p[1], p[2]) : p \in Pairs(Wanted, TRUE)}
           N == {Create(d) : d \in Creates(Wanted, TRUE)}
           B == BuildWithCleanupScope(Wanted, TRUE)
<1>9. X' = X
  BY <1>1, Zenon
<1>10. T' = T
  BY <1>1, <1>3 DEF Own, Put
<1>11. K' = K /\ R' = R /\ N' = N
  BY <1>3, <1>4, <1>6, Zenon DEF Swaps, Put, Create, Conflict
<1>12. B = IF Broken THEN X ELSE IF CnameTransition(Wanted) THEN T
           ELSE K \cup Updates(Wanted) \cup R \cup N \cup Cleanups(Wanted, TRUE)
  BY DEF BuildWithCleanupScope, Broken
<1>13. B' = IF Broken' THEN X' ELSE IF CnameTransition(Wanted)' THEN T'
            ELSE K' \cup Updates(Wanted)' \cup R' \cup N' \cup Cleanups(Wanted, TRUE)'
  BY DEF BuildWithCleanupScope, Broken
<1>14. Left = (IF RestrictedConflict(Wanted) THEN X ELSE B)
       /\ Left' = (IF RestrictedConflict(Wanted)' THEN X' ELSE B')
  BY Zenon DEF Left, EnforceRestrictedOwnershipConflicts
<1> HIDE DEF X, T, K, R, N, B
<1>15. Left' = Left
  BY <1>3, <1>5, <1>7, <1>8, <1>9, <1>10, <1>11, <1>12, <1>13, <1>14, ZenonT(60)
<1> QED
  BY <1>1, <1>2, <1>15, Zenon

\* The attempt of one operation leaves the others current.
LEMMA CurrentKept ==
    ASSUME SafetyInv, Base', mode # "restricted", UNCHANGED Settings, PlanCurrent,
           NEW op \in ops, Attempted(op),
           \/ UNCHANGED <<zone, claimed>>
           \/ Attemptable(op) /\ ~Refused(op) /\ Effect(op)
    PROVE  PlanCurrent'
<1>1. ops' = ops \ {op} /\ cleanup' = cleanup
  BY Zenon DEF Attempted, Settings
<1>2. \A o, p \in ops' : o.kind \in Adding /\ p.kind \in Adding /\ o.want = p.want => o = p
  BY <1>1, Zenon DEF PlanCurrent
<1>3. ASSUME NEW o \in ops, o # op
      PROVE  /\ Current(o)
             /\ o.kind = "replace" => Plain /\ <<o.id, o.want>> \in Swaps
  BY <1>3, Zenon DEF PlanCurrent, Current
<1>4. CASE SamePlan
  <2>1. ASSUME NEW o \in ops, o # op
        PROVE  Current(o)'
    BY <1>1, <1>3, <1>4, <2>1, Zenon DEF Current, SamePlan
  <2> QED
    BY <1>1, <1>2, <2>1, Zenon DEF PlanCurrent
<1>5. ASSUME op.kind \in {"create", "replace", "delete"},
             NEW i \in Id, Moved(i, IF op.kind = "delete" THEN NoRow ELSE op.want),
             IF op.kind = "create" THEN i \notin Rows ELSE i = op.id
      PROVE  PlanCurrent'
  <2> DEFINE v == IF op.kind = "delete" THEN NoRow ELSE op.want
  <2>1. PlanFacts
    BY PlanFactsHold, Zenon DEF SafetyInv
  <2>2. Extra \subseteq Rows /\ Gap \subseteq Wanted
    BY <2>1, Zenon DEF PlanFacts
  <2>3. \A d \in Gap : d # NoRow
    BY <2>2, WantedFacts, ReconcileAssumption, ZenonT(60) DEF SafetyInv, Base
  <2>4. ASSUME NEW o \in ops, o # op, o.kind \in Adding, o.want \in Gap
        PROVE  o.want # v
    BY <1>5, <2>3, <2>4, Zenon DEF PlanCurrent, Adding
  <2>5. ASSUME NEW o \in ops, o # op, o.kind \in Bound, o.id \in Extra
        PROVE  o.id # i
    BY <1>5, <2>2, <2>5, Zenon DEF SafetyInv, Sound, Together, Bound
  <2>6. Moved(i, v)
    BY <1>5, Zenon
  <2> HIDE DEF v
  <2>7. ASSUME NEW o \in ops, o # op
        PROVE  Current(o)'
    <3>1. o.kind = "update" => (Plain /\ o.want \in Have /\ o.id = Hit(o.want))'
      BY <1>3, <2>6, <2>7, Zenon DEF Current, Moved
    <3>2. o.kind = "create" => (Plain /\ o.want \in Gap)'
      BY <1>3, <2>4, <2>6, <2>7, Zenon DEF Current, Moved, Adding
    <3>3. o.kind = "replace" => (Plain /\ <<o.id, o.want>> \in Swaps)'
      <4> SUFFICES ASSUME o.kind = "replace"
                   PROVE  (Plain /\ <<o.id, o.want>> \in Swaps)'
        OBVIOUS
      <4>1. <<o.id, o.want>> \in Swaps
        BY <1>3, <2>7, Zenon
      <4>2. o.id \in Extra /\ o.want \in Gap
        BY <2>1, <4>1, Zenon DEF PlanFacts
      <4>3. o.id # i /\ o.want # v
        BY <2>4, <2>5, <2>7, <4>2, Zenon DEF Adding, Bound
      <4> QED
        BY <2>6, <4>1, <4>3, Zenon DEF Moved
    <3>4. IsCleanup(o) => (Plain /\ o.id \in Extra)'
      BY <1>3, <2>5, <2>6, <2>7, Zenon DEF Current, Moved, IsCleanup, Bound
    <3> QED
      BY <1>1, <1>3, <2>7, <3>1, <3>2, <3>3, <3>4, Zenon DEF Current
  <2> QED
    BY <1>1, <1>2, <2>7, Zenon DEF PlanCurrent
<1>6. CASE ops = {op}
  BY <1>1, <1>6, Zenon DEF PlanCurrent
<1>7. CASE UNCHANGED <<zone, claimed>>
  BY <1>4, <1>7, SameZone, Zenon DEF SafetyInv
<1>8. CASE Attemptable(op) /\ ~Refused(op) /\ Effect(op)
  BY <1>4, <1>5, <1>6, <1>8, EffectStep, Zenon
<1> QED
  BY <1>7, <1>8, Zenon

\* An undisturbed attempt leaves what is still to be written among the operations.
LEMMA PendingKept ==
    ASSUME SafetyInv, Base', mode # "restricted", UNCHANGED Settings, PlanCurrent, Pending,
           NEW op \in ops, Attempted(op), failed => failed',
           \/ Attemptable(op) /\ ~Refused(op) /\ Effect(op)
           \/ UNCHANGED <<zone, claimed>> /\ Refused(op) /\ failed'
           \/ UNCHANGED <<zone, claimed>> /\ (op.kind = "conflict" \/ IsCleanup(op))
    PROVE  Pending'
<1>1. ops' = ops \ {op} /\ mode' = mode
  BY Zenon DEF Attempted, Settings
<1>2. PlanFacts
  BY PlanFactsHold, Zenon DEF SafetyInv
<1>3. Current(op)
  BY Zenon DEF PlanCurrent
<1>4. CASE /\ UNCHANGED <<zone, claimed>>
           /\ (Refused(op) /\ failed') \/ op.kind = "conflict" \/ IsCleanup(op)
  <2>1. SamePlan /\ zone' = zone
    BY <1>4, SameZone, Zenon DEF SafetyInv
  <2>2. CASE Broken
    BY <2>1, <2>2, Zenon DEF SamePlan, Pending
  <2>3. CASE Turning /\ (mode = "shared" \/ \E o \in ops : o.kind = "replace")
    BY <1>1, <1>4, <2>1, <2>3, ZenonT(60) DEF SamePlan, Pending, Refused, IsCleanup
  <2>4. CASE /\ Plain
             /\ \A d \in Gap :
                   \/ \E o \in ops : o.kind \in Adding /\ o.want = d
                   \/ mode = "shared" /\ failed /\ \E i \in Id : <<i, d>> \in Swaps
             /\ \A d \in Have :
                   zone[Hit(d)] # d => \E o \in ops : o.kind = "update" /\ o.want = d
    <3>1. ASSUME NEW d \in Gap
          PROVE  \/ \E o \in ops' : o.kind \in Adding /\ o.want = d
                 \/ mode = "shared" /\ failed' /\ \E i \in Id : <<i, d>> \in Swaps
      <4>1. CASE \E o \in ops : o.kind \in Adding /\ o.want = d
        <5>1. PICK o \in ops : o.kind \in Adding /\ o.want = d
          BY <4>1, Zenon
        <5>2. CASE o = op
          <6>1. Refused(op) /\ failed'
            BY <1>4, <5>1, <5>2, Zenon DEF Adding, IsCleanup
          <6>2. <<op.id, d>> \in Swaps
            BY <1>3, <2>4, <5>1, <5>2, <6>1, Zenon DEF Current, Refused, Plain, Turning
          <6>3. op.id \in Id
            BY <1>2, <6>2, Zenon DEF PlanFacts
          <6> QED
            BY <6>1, <6>2, <6>3, Zenon DEF Refused
        <5> QED
          BY <1>1, <5>1, <5>2, Zenon
      <4> QED
        BY <2>4, <4>1, Zenon
    <3>2. ASSUME NEW d \in Have, zone[Hit(d)] # d
          PROVE  \E o \in ops' : o.kind = "update" /\ o.want = d
      BY <1>1, <1>4, <2>4, <3>2, Zenon DEF Refused, IsCleanup
    <3> QED
      BY <1>1, <2>1, <2>4, <3>1, <3>2, ZenonT(60) DEF SamePlan, Pending
  <2> QED
    BY <2>2, <2>3, <2>4, Zenon DEF Pending
<1>5. CASE Attemptable(op) /\ ~Refused(op) /\ Effect(op)
  <2>1. CASE Plain' /\ Gap' = {} /\ Exact'
    BY <2>1, Zenon DEF Pending, Exact
  <2>2. /\ op.kind # "conflict"
        /\ IsCleanup(op) => ~failed
        /\ op.kind \in {"create", "update", "replace", "delete", "deactivate"}
    BY <1>5, Zenon DEF Attemptable, SafetyInv, Sound, OpSound, Operation, Kinds
  <2>3. ASSUME Plain
        PROVE  /\ \A d \in Gap :
                   \/ \E o \in ops : o.kind \in Adding /\ o.want = d
                   \/ mode = "shared" /\ failed /\ \E i \in Id : <<i, d>> \in Swaps
               /\ \A d \in Have :
                   zone[Hit(d)] # d => \E o \in ops : o.kind = "update" /\ o.want = d
    BY <2>3, Zenon DEF Pending, Plain, Turning
  <2>4. \A d \in Have : Hit(d) \in Id /\ KeyOf(zone[Hit(d)]) = KeyOf(d) /\ d \in Wanted
    BY <1>2, ZenonT(60) DEF PlanFacts
  <2>5. ASSUME op.kind \in {"update", "deactivate"}, SamePlan, zone'[op.id] = op.want,
               \A j \in Id \ {op.id} : zone'[j] = zone[j]
        PROVE  Pending'
    <3>1. Plain
      BY <1>3, <2>5, ZenonT(60) DEF Current, IsCleanup
    <3>2. ASSUME NEW d \in Gap
          PROVE  \/ \E o \in ops' : o.kind \in Adding /\ o.want = d
                 \/ mode = "shared" /\ failed' /\ \E i \in Id : <<i, d>> \in Swaps
      BY <1>1, <2>3, <2>5, <3>1, ZenonT(60) DEF Adding
    <3>3. ASSUME NEW d \in Have, zone'[Hit(d)] # d
          PROVE  \E o \in ops' : o.kind = "update" /\ o.want = d
      <4>1. CASE op.kind = "update"
        <5>1. op.want \in Have /\ op.id = Hit(op.want)
          BY <1>3, <4>1, Zenon DEF Current
        <5>2. d # op.want
          BY <2>5, <3>3, <5>1, ZenonT(60)
        <5>3. Hit(d) # op.id
          <6>1. \A e, f \in Wanted : KeyOf(e) = KeyOf(f) => e = f
            BY WantedFacts, Zenon DEF SafetyInv, Base
          <6> QED
            BY <2>4, <5>1, <5>2, <6>1
        <5>4. zone'[Hit(d)] = zone[Hit(d)]
          BY <2>4, <2>5, <5>3, Zenon
        <5> QED
          BY <1>1, <2>3, <3>1, <3>3, <5>2, <5>4, ZenonT(60)
      <4>2. CASE op.kind = "deactivate"
        <5>1. op.id \in Extra
          BY <1>3, <4>2, Zenon DEF Current, IsCleanup
        <5>2. op.id # Hit(d)
          BY <5>1, StaleFacts, Zenon DEF Extra, Have, Hit, SafetyInv
        <5>3. zone'[Hit(d)] = zone[Hit(d)]
          BY <2>4, <2>5, <5>2, Zenon
        <5> QED
          BY <1>1, <2>3, <3>1, <3>3, <4>2, <5>3, ZenonT(60)
      <4> QED
        BY <2>5, <4>1, <4>2, Zenon
    <3>4. /\ Plain' /\ Gap' = Gap /\ Have' = Have /\ Swaps' = Swaps /\ mode' = mode
          /\ \A d \in Have : Hit(d)' = Hit(d)
      BY <1>1, <2>5, <3>1, Zenon DEF SamePlan
    <3>5. ASSUME NEW d \in Gap'
          PROVE  \/ \E o \in ops' : o.kind \in Adding /\ o.want = d
                 \/ mode' = "shared" /\ failed' /\ \E i \in Id : <<i, d>> \in Swaps'
      BY <3>2, <3>4, <3>5, Zenon
    <3>6. ASSUME NEW d \in Have', zone'[Hit(d)'] # d
          PROVE  \E o \in ops' : o.kind = "update" /\ o.want = d
      BY <3>3, <3>4, <3>6, Zenon
    <3> QED
      BY <3>4, <3>5, <3>6, Zenon DEF Pending
  <2>6. ASSUME op.kind \in {"create", "replace", "delete"}, Plain,
               NEW i \in Id, Moved(i, IF op.kind = "delete" THEN NoRow ELSE op.want),
               IF op.kind = "create" THEN i \notin Rows ELSE i = op.id,
               op.kind # "delete" => zone'[i] = op.want,
               \A j \in Id \ {i} : zone'[j] = zone[j]
        PROVE  Pending'
    <3> DEFINE v == IF op.kind = "delete" THEN NoRow ELSE op.want
    <3>1. Moved(i, v)
      BY <2>6, Zenon
    <3>2. v # NoRow => v = op.want /\ zone'[i] = v
      BY <2>6, Zenon
    <3>3. op.kind # "delete" => op.want = v
      OBVIOUS
    <3> HIDE DEF v
    <3>4. ASSUME NEW d \in Gap'
          PROVE  \/ \E o \in ops' : o.kind \in Adding /\ o.want = d
                 \/ mode' = "shared" /\ failed' /\ \E k \in Id : <<k, d>> \in Swaps'
      <4>1. d \in Gap /\ d # v
        BY <3>1, Zenon DEF Moved
      <4>2. CASE \E o \in ops : o.kind \in Adding /\ o.want = d
        <5>1. PICK o \in ops : o.kind \in Adding /\ o.want = d
          BY <4>2, Zenon
        <5>2. o # op
          BY <3>3, <4>1, <5>1, Zenon DEF Adding
        <5> QED
          BY <1>1, <5>1, <5>2, Zenon
      <4>3. CASE mode = "shared" /\ failed /\ \E k \in Id : <<k, d>> \in Swaps
        <5>1. PICK k \in Id : <<k, d>> \in Swaps
          BY <4>3, Zenon
        <5>2. k \in Rows
          BY <1>2, <5>1, Zenon DEF PlanFacts
        <5>3. op.kind = "create"
          BY <1>5, <2>2, <2>6, <4>3, ZenonT(60) DEF Refused, IsCleanup
        <5>4. <<k, d>> \in Swaps'
          BY <2>6, <3>1, <4>1, <5>1, <5>2, <5>3, ZenonT(60) DEF Moved
        <5> QED
          BY <1>1, <4>3, <5>4, Zenon
      <4> QED
        BY <2>3, <2>6, <4>1, <4>2, <4>3, Zenon
    <3>5. ASSUME NEW d \in Have', zone'[Hit(d)'] # d
          PROVE  \E o \in ops' : o.kind = "update" /\ o.want = d
      <4>1. d \in Have
        BY <3>1, <3>2, <3>5, Zenon DEF Moved
      <4>2. Hit(d)' = Hit(d) /\ Hit(d) # i /\ Hit(d) \in Id
        BY <2>4, <3>1, <4>1, Zenon DEF Moved
      <4>3. zone[Hit(d)] # d
        BY <2>6, <3>5, <4>2, Zenon
      <4> QED
        BY <1>1, <2>3, <2>6, <4>1, <4>3, ZenonT(60)
    <3>6. Plain'
      BY <3>1, Zenon DEF Moved
    <3> QED
      BY <3>4, <3>5, <3>6, Zenon DEF Pending
  <2> QED
    BY <1>5, <2>1, <2>5, <2>6, EffectStep, ZenonT(60)
<1> QED
  BY <1>4, <1>5, Zenon

\* In restricted discovery a name without rows gets all its records.
PendingRestricted ==
    AdoptableRows = {} => Broken \/ \A d \in Wanted : Create(d) \in ops

\* A complete plan is current and holds all that is to be written.
LEMMA FreshPlan ==
    Base /\ mode # "restricted" /\ ops = Left => PlanCurrent /\ Pending
<1> SUFFICES ASSUME Base, mode # "restricted", ops = Left
             PROVE  PlanCurrent /\ Pending
  OBVIOUS
<1>1. PlanFacts /\ ~RestrictedConflict(Wanted)
  BY PlanFactsHold, Zenon DEF RestrictedConflict
<1>2. Left = BuildWithCleanupScope(Wanted, TRUE)
  BY <1>1, Zenon DEF Left, EnforceRestrictedOwnershipConflicts
<1>3. CASE Broken
  <2>1. Left = {Conflict(CHOOSE d \in Wanted : TRUE)}
    BY <1>2, <1>3 DEF BuildWithCleanupScope, Broken
  <2>2. \A op \in ops : op.kind = "conflict"
    BY <2>1 DEF Conflict
  <2> QED
    BY <1>3, <2>2, Zenon DEF PlanCurrent, Current, Pending, IsCleanup, Adding
<1>4. CASE Turning
  <2>1. PICK i \in Owned(Wanted), d \in Wanted :
              /\ Owned(Wanted) = {i} /\ Wanted = {d}
              /\ LogicalUnowned(Wanted, d.type) = {}
              /\ BuildWithCleanupScope(Wanted, TRUE) = {Put("replace", i, d)}
              /\ \A j \in Rows \ {i} : Compatible(zone[j], d)
    BY <1>4, TransitionFacts, ZenonT(60) DEF Turning, Broken
  <2> DEFINE op == Put("replace", i, d)
  <2>2. ops = {op} /\ op.kind = "replace" /\ op.id = i /\ op.want = d
    BY <1>2, <2>1, Zenon DEF Put
  <2> HIDE DEF op
  <2>3. Current(op)
    BY <1>4, <2>1, <2>2, Zenon DEF Current, IsCleanup, Own
  <2> QED
    BY <1>4, <2>2, <2>3, Zenon DEF PlanCurrent, Pending
<1>5. CASE Plain
  <2>1. \A op : op \in ops <=>
              \/ \E d \in Contested(Wanted) : op = Conflict(d)
              \/ \E d \in Have : zone[Hit(d)] # d /\ op = Put("update", Hit(d), d)
              \/ \E p \in Swaps : op = Put("replace", p[1], p[2])
              \/ \E d \in Gap : /\ \A i \in Id : <<i, d>> \notin Swaps
                                /\ op = Create(d)
              \/ Tidies(op)
    BY <1>1, <1>5, PlainLeft, Zenon
  <2>2. /\ \A d : Conflict(d).kind = "conflict"
        /\ \A d : Create(d).kind = "create" /\ Create(d).want = d
        /\ \A k, i, d : /\ Put(k, i, d).kind = k /\ Put(k, i, d).id = i
                        /\ Put(k, i, d).want = d
    BY Zenon DEF Conflict, Create, Put
  <2>3. \A p \in Swaps : p = <<p[1], p[2]>>
    BY <1>1, Zenon DEF PlanFacts
  <2>4. ASSUME NEW op, Tidies(op)
        PROVE  /\ op.kind \in {"delete", "deactivate"} /\ op.id \in Extra
               /\ op.kind = "deactivate" => cleanup = "deactivate"
    <3>1. /\ \A i : Delete(i).kind = "delete"
          /\ \A i, d : Put("deactivate", i, d).kind = "deactivate"
      BY Zenon DEF Delete, Put
    <3>2. op.id \in Extra
      BY <2>4, Zenon DEF Tidies
    <3>3. \/ op.kind = "delete"
          \/ op.kind = "deactivate" /\ cleanup = "deactivate"
      BY <2>4, <3>1, Zenon DEF Tidies
    <3> QED
      BY <3>2, <3>3, Zenon
  <2>5. ASSUME NEW op \in ops
        PROVE  \/ op.kind = "conflict"
               \/ op.kind = "update" /\ op.want \in Have /\ op.id = Hit(op.want)
               \/ op.kind = "replace" /\ <<op.id, op.want>> \in Swaps
                  /\ op = Put("replace", op.id, op.want)
               \/ op.kind = "create" /\ op.want \in Gap /\ op = Create(op.want)
                  /\ \A i \in Id : <<i, op.want>> \notin Swaps
               \/ /\ op.kind \in {"delete", "deactivate"} /\ op.id \in Extra
                  /\ op.kind = "deactivate" => cleanup = "deactivate"
    <3>1. ASSUME NEW p \in Swaps, op = Put("replace", p[1], p[2])
          PROVE  /\ op.kind = "replace" /\ <<op.id, op.want>> \in Swaps
                 /\ op = Put("replace", op.id, op.want)
      <4>1. /\ Put("replace", p[1], p[2]).kind = "replace"
            /\ Put("replace", p[1], p[2]).id = p[1] /\ Put("replace", p[1], p[2]).want = p[2]
        BY Zenon DEF Put
      <4>2. op.kind = "replace" /\ op.id = p[1] /\ op.want = p[2]
        BY <3>1, <4>1, Zenon
      <4>3. p = <<p[1], p[2]>>
        BY <2>3, Zenon
      <4> QED
        BY <3>1, <4>2, <4>3, Zenon
    <3>2. ASSUME NEW d \in Have, op = Put("update", Hit(d), d)
          PROVE  op.kind = "update" /\ op.want \in Have /\ op.id = Hit(op.want)
      <4>1. /\ Put("update", Hit(d), d).kind = "update"
            /\ Put("update", Hit(d), d).id = Hit(d) /\ Put("update", Hit(d), d).want = d
        BY Zenon DEF Put
      <4> QED
        BY <3>2, <4>1, Zenon
    <3>3. ASSUME NEW d \in Gap, \A i \in Id : <<i, d>> \notin Swaps, op = Create(d)
          PROVE  /\ op.kind = "create" /\ op.want \in Gap /\ op = Create(op.want)
                 /\ \A i \in Id : <<i, op.want>> \notin Swaps
      <4>1. op.kind = "create" /\ op.want = d
        BY <2>2, <3>3, Zenon
      <4> QED
        BY <3>3, <4>1, Zenon
    <3>4. ASSUME NEW d \in Contested(Wanted), op = Conflict(d)
          PROVE  op.kind = "conflict"
      BY <2>2, <3>4, Zenon
    <3> QED
      BY <2>1, <2>4, <3>1, <3>2, <3>3, <3>4, Zenon
  <2>6. ASSUME NEW op \in ops
        PROVE  Current(op)
    BY <1>5, <2>5, Zenon DEF Current, IsCleanup
  <2>7. \A i, k, d : <<i, d>> \in Swaps /\ <<k, d>> \in Swaps => i = k
    BY <1>1 DEF PlanFacts
  <2>8. \A i, d : <<i, d>> \in Swaps => i \in Id
    BY <1>1, Zenon DEF PlanFacts
  <2>9. ASSUME NEW o \in ops, NEW p \in ops,
               o.kind \in Adding, p.kind \in Adding, o.want = p.want
        PROVE  o = p
    <3>1. CASE o.kind = "create" /\ p.kind = "create"
      BY <2>5, <2>9, <3>1, Zenon
    <3>2. CASE o.kind = "replace" /\ p.kind = "replace"
      BY <2>5, <2>7, <2>9, <3>2, ZenonT(60)
    <3>3. CASE o.kind # p.kind
      BY <2>5, <2>8, <2>9, <3>3, ZenonT(60) DEF Adding
    <3> QED
      BY <2>9, <3>1, <3>2, <3>3, Zenon DEF Adding
  <2>10. PlanCurrent
    BY <2>6, <2>9, Zenon DEF PlanCurrent
  <2>11. ASSUME NEW d \in Gap
         PROVE  \E op \in ops : op.kind \in Adding /\ op.want = d
    <3>1. CASE \E i \in Id : <<i, d>> \in Swaps
      <4>1. PICK i \in Id : <<i, d>> \in Swaps
        BY <3>1, Zenon
      <4>2. <<i, d>>[1] = i /\ <<i, d>>[2] = d
        OBVIOUS
      <4>3. Put("replace", i, d) \in ops
        BY <2>1, <4>1, <4>2, ZenonT(60)
      <4> QED
        BY <2>2, <4>3 DEF Adding
    <3>2. CASE \A i \in Id : <<i, d>> \notin Swaps
      BY <2>1, <2>2, <3>2, ZenonT(60) DEF Adding
    <3> QED
      BY <3>1, <3>2, ZenonT(60)
  <2>12. ASSUME NEW d \in Have, zone[Hit(d)] # d
         PROVE  \E op \in ops : op.kind = "update" /\ op.want = d
    <3>1. Put("update", Hit(d), d) \in ops
      BY <2>1, <2>12, Zenon
    <3>2. Put("update", Hit(d), d).kind = "update" /\ Put("update", Hit(d), d).want = d
      BY Zenon DEF Put
    <3> QED
      BY <3>1, <3>2, Zenon
  <2> QED
    BY <1>5, <2>10, <2>11, <2>12, Zenon DEF Pending
<1> QED
  BY <1>3, <1>4, <1>5, Zenon DEF Plain, Turning

\* A cycle that has nothing left to attempt has written all there was to write.
LEMMA FinishedPlan ==
    Base /\ mode # "restricted" /\ ops = {} /\ Pending => Filled
BY LeftFactsHold, Zenon DEF LeftFacts, Pending, AllSwapped, Exact

\* Restricted discovery adopts rows that are exactly as desired.
LEMMA RestrictedPlain ==
    ASSUME Base, mode = "restricted"
    PROVE  /\ ~Broken => Plain
           /\ Exact
           /\ Own = {i \in AdoptableRows : zone[i] \in Wanted}
<1>1. ~Broken => Plain
  <2>1. Wanted \in SUBSET Wanted
    OBVIOUS
  <2> QED
    BY <2>1, RestrictedPlan, Zenon DEF Plain, Broken
<1>2. Own = {i \in AdoptableRows : zone[i] \in Wanted}
  BY OwnedFacts, Zenon DEF Own
<1>3. Exact
  <2>1. PlanFacts
    BY PlanFactsHold, Zenon
  <2>2. \A d \in Have : d \in Wanted /\ Hit(d) \in Own /\ KeyOf(zone[Hit(d)]) = KeyOf(d)
    BY <2>1, Zenon DEF PlanFacts
  <2>3. \A d, e \in Wanted : KeyOf(d) = KeyOf(e) => d = e
    BY WantedFacts, Zenon DEF Base
  <2> QED
    BY <1>2, <2>2, <2>3, Zenon DEF Exact
<1> QED
  BY <1>1, <1>2, <1>3, Zenon

\* A fresh plan in restricted discovery creates every record of a name without rows.
LEMMA FreshRestricted ==
    Base /\ mode = "restricted" /\ ops = Left => PendingRestricted
<1> SUFFICES ASSUME Base, mode = "restricted", ops = Left, AdoptableRows = {}, ~Broken,
                    NEW d \in Wanted
             PROVE  Create(d) \in ops
  BY Zenon DEF PendingRestricted
<1>1. ~RestrictedConflict(Wanted) /\ Plain /\ Own = {}
  BY RestrictedPlain, Zenon DEF RestrictedConflict
<1>2. PlanFacts
  BY PlanFactsHold, Zenon
<1>3. d.type \in Adoptable
  BY WantedFacts, Zenon DEF Base
<1>4. \A j \in Foreign : zone[j].type # d.type
  BY <1>2, <1>3, Zenon DEF PlanFacts, AdoptableRows
<1>5. d \in Gap
  BY <1>1, <1>2, <1>4, Zenon DEF PlanFacts
<1>6. \A i \in Id : <<i, d>> \notin Swaps
  BY <1>1, <1>2, Zenon DEF PlanFacts
<1> QED
  BY <1>1, <1>5, <1>6, PlainLeft, Zenon

\* The same of a cycle that has nothing left to attempt.
LEMMA FinishedRestricted ==
    Base /\ mode = "restricted" /\ ops = {} /\ PendingRestricted => Filled
<1> SUFFICES ASSUME Base, mode = "restricted", ops = {}, PendingRestricted
             PROVE  Filled
  OBVIOUS
<1>1. CASE RestrictedConflict(Wanted) \/ Broken
  <2>1. Left = {Conflict(CHOOSE d \in Wanted : TRUE)}
    <3>1. CASE RestrictedConflict(Wanted)
      BY <3>1, Zenon DEF Left, EnforceRestrictedOwnershipConflicts
    <3>2. CASE ~RestrictedConflict(Wanted) /\ Broken
      BY <3>2 DEF Left, EnforceRestrictedOwnershipConflicts, BuildWithCleanupScope, Broken
    <3> QED
      BY <1>1, <3>1, <3>2, Zenon
  <2> QED
    BY <2>1 DEF Filled, Waits, Conflict
<1>2. CASE ~RestrictedConflict(Wanted) /\ ~Broken
  <2>1. /\ Plain /\ Exact
        /\ Own = {i \in AdoptableRows : zone[i] \in Wanted}
    BY <1>2, RestrictedPlain, Zenon
  <2>2. PlanFacts
    BY PlanFactsHold, Zenon
  <2>3. Gap = {}
    <3>1. CASE Wanted = {}
      BY <2>2, <3>1, ZenonT(60) DEF PlanFacts
    <3>2. CASE Wanted # {}
      <4>1. {zone[i] : i \in AdoptableRows} = Wanted
        BY <1>2, <3>2, Zenon DEF PendingRestricted, RestrictedConflict, RestrictedRecordSetsEqual
      <4>2. ASSUME NEW d \in Wanted
            PROVE  \E i \in Own : zone[i] = d
        BY <2>1, <4>1, <4>2, Zenon
      <4> QED
        BY <2>2, <4>2 DEF PlanFacts
    <3> QED
      BY <3>1, <3>2, Zenon
  <2>4. Swaps = {}
    <3>1. \A p \in Swaps : p = <<p[1], p[2]>> /\ (<<p[1], p[2]>> \in Swaps => p[2] \in Gap)
      BY <2>2, ZenonT(60) DEF PlanFacts
    <3> QED
      BY <2>3, <3>1, Zenon
  <2>5. ASSUME NEW op \in Left
        PROVE  (\E d \in Contested(Wanted) : op = Conflict(d)) \/ Tidies(op)
    BY <1>2, <2>1, <2>3, <2>4, PlainLeft, ZenonT(60) DEF Exact
  <2>6. \A op : Tidies(op) => IsCleanup(op)
    BY DEF Tidies, IsCleanup, Delete, Put
  <2>7. \A d : Conflict(d).kind = "conflict"
    BY Zenon DEF Conflict
  <2> QED
    BY <2>5, <2>6, <2>7, Zenon DEF Filled, Waits
<1> QED
  BY <1>1, <1>2, Zenon

\* In restricted discovery an attempt creates a row or leaves the device alone.
LEMMA RestrictedKept ==
    ASSUME SafetyInv, Base', mode = "restricted", UNCHANGED Settings, PendingRestricted,
           NEW op \in ops, Attempted(op),
           \/ op.kind # "conflict" /\ Effect(op)
           \/ UNCHANGED <<zone, claimed>> /\ (op.kind = "conflict" \/ IsCleanup(op))
    PROVE  PendingRestricted'
<1>1. CASE op.kind # "conflict" /\ Effect(op)
  <2>1. OpSound(op) /\ Mine = {}
    BY Zenon DEF SafetyInv, Sound, Mine
  <2>2. op.kind = "create"
    BY <1>1, <2>1, Zenon DEF OpSound, Bound, Operation, Kinds
  <2>3. PICK i \in Id, v \in Record \cup {NoRow} : Affects(op, i, v)
    BY <1>1, EffectFacts, Zenon DEF SafetyInv
  <2>4. i \in AdoptableRows'
    BY <2>2, <2>3, ReconcileAssumption, Zenon DEF Written, AdoptableRows, Rows, Affects
  <2> QED
    BY <2>4, Zenon DEF PendingRestricted
<1>2. CASE UNCHANGED <<zone, claimed>> /\ (op.kind = "conflict" \/ IsCleanup(op))
  <2>1. SamePlan /\ AdoptableRows' = AdoptableRows
    BY <1>2, SameZone, Zenon DEF SafetyInv
  <2>2. \A d : Create(d).kind = "create"
    BY Zenon DEF Create
  <2> QED
    BY <1>2, <2>1, <2>2, Zenon DEF PendingRestricted, SamePlan, Attempted, IsCleanup
<1> QED
  BY <1>1, <1>2, Zenon

-----------------------------------------------------------------------------
(* Undisturbed cycles. *)

\* Nothing is left but what waits for a person.
Stable ==
    \A op \in Left : \/ op.kind = "conflict"
                     \/ Refused(op)
                     \/ IsCleanup(op) /\ RefusedLeft

\* After one undisturbed cycle everything is written, and after another one cleaned
\* up; the cycles that follow only repeat what waits.
Settled ==
    /\ calm # 0 => Filled
    /\ calm = 2 => Stable
    /\ busy /\ calm # 0 =>
          /\ \A op \in ops : Waits(op)
          /\ RefusedLeft => failed \/ \E o \in ops : Refused(o)
          /\ clean => \A op \in Left : IsCleanup(op) => op \in ops \/ RefusedLeft
          /\ clean /\ failed => RefusedLeft
          /\ calm = 2 => \A op \in ops : IsCleanup(op) => failed \/ \E o \in ops : Refused(o)

\* Between cycles, and in an undisturbed one, the rows taken for bound to a claim are
\* those that are.
ClaimsRead == ~busy \/ clean => claimed = confirmed

\* The operations of an undisturbed cycle are those that are left to do.
InProgress ==
    /\ ClaimsRead
    /\ busy /\ (clean \/ calm # 0) /\ mode # "restricted" => PlanCurrent
    /\ busy /\ clean /\ mode # "restricted" => Pending
    /\ busy /\ clean /\ mode = "restricted" => PendingRestricted

\* An attempt without effect on the device.
LEMMA SettledSkip ==
    ASSUME SafetyInv, Base', Settled, UNCHANGED Settings, UNCHANGED <<zone, claimed>>,
           NEW op \in ops, Attempted(op), busy, calm' = calm, failed => failed',
           calm # 0 /\ mode # "restricted" => PlanCurrent,
           \/ Refused(op) /\ failed'
           \/ ~Refused(op) /\ ~clean'
           \/ /\ op.kind = "conflict" \/ (IsCleanup(op) /\ failed)
              /\ failed' => failed,
           clean' => clean
    PROVE  Settled'
<1>1. SamePlan /\ Left' = Left /\ ops' = ops \ {op} /\ mode' = mode
  BY SameZone, Zenon DEF SafetyInv, Attempted, Settings
<1>2. (\A o : Refused(o)' <=> Refused(o)) /\ (RefusedLeft' <=> RefusedLeft)
  BY <1>1, Zenon DEF Refused, RefusedLeft
<1>3. (Filled' <=> Filled) /\ (Stable' <=> Stable) /\ (\A o : Waits(o)' <=> Waits(o))
  BY <1>1, <1>2, Zenon DEF Filled, Stable, Waits
<1>4. op.kind = "conflict" \/ IsCleanup(op) => ~Refused(op)
  BY Zenon DEF Refused, IsCleanup
<1>5. CASE calm = 0
  <2>1. calm # 2
    BY <1>5
  <2> QED
    BY <1>5, <2>1, Zenon DEF Settled
<1>6. CASE calm # 0
  <2>1. /\ Filled
        /\ \A o \in ops : Waits(o)
        /\ RefusedLeft => failed \/ \E o \in ops : Refused(o)
        /\ clean => \A o \in Left : IsCleanup(o) => o \in ops \/ RefusedLeft
        /\ clean /\ failed => RefusedLeft
        /\ calm = 2 => Stable
        /\ calm = 2 => \A o \in ops : IsCleanup(o) => failed \/ \E x \in ops : Refused(x)
    BY <1>6, Zenon DEF Settled
  <2>2. (\E o \in ops : Refused(o)) => failed' \/ \E o \in ops' : Refused(o)
    BY <1>1, <1>4, Zenon
  <2>3. RefusedLeft => failed' \/ \E o \in ops' : Refused(o)
    BY <2>1, <2>2, Zenon
  <2>4. Refused(op) => RefusedLeft
    <3> SUFFICES ASSUME Refused(op) PROVE RefusedLeft
      OBVIOUS
    <3>1. mode = "shared" /\ op.kind = "replace"
      BY Zenon DEF Refused
    <3>2. Current(op)
      BY <1>6, <3>1, Zenon DEF PlanCurrent
    <3>3. Turning \/ (Plain /\ Swaps # {})
      BY <3>1, <3>2, Zenon DEF Current
    <3> QED
      BY <3>1, <3>3, LeftFactsHold, ZenonT(60) DEF LeftFacts, SafetyInv
  <2>5. clean' /\ failed' => RefusedLeft
    BY <1>4, <2>1, <2>4, ZenonT(60)
  <2>6. clean' => \A o \in Left : IsCleanup(o) => o \in ops' \/ RefusedLeft
    <3>1. CASE Refused(op)
      BY <2>4, <3>1, Zenon
    <3>2. CASE op.kind = "conflict"
      BY <1>1, <2>1, <3>2, ZenonT(60) DEF IsCleanup
    <3>3. CASE IsCleanup(op) /\ failed
      BY <2>1, <3>3, ZenonT(60)
    <3> QED
      BY <3>1, <3>2, <3>3, ZenonT(60)
  <2>7. calm = 2 => \A o \in ops' : IsCleanup(o) => failed' \/ \E x \in ops' : Refused(x)
    BY <1>1, <2>1, <2>2, ZenonT(60)
  <2> QED
    BY <1>1, <1>2, <1>3, <2>1, <2>3, <2>5, <2>6, <2>7, ZenonT(60) DEF Settled
<1> QED
  BY <1>5, <1>6, Zenon

\* In a cycle that follows an undisturbed one only cleanup takes effect, and only
\* when no replacement waits.
LEMMA SettledEffect ==
    ASSUME SafetyInv, Base', Settled, UNCHANGED Settings,
           NEW op \in ops, Attempted(op), busy, calm' = calm,
           calm # 0 /\ mode # "restricted" => PlanCurrent,
           Attemptable(op), ~Refused(op), Effect(op),
           failed' => failed \/ ~IsCleanup(op), clean' => clean
    PROVE  Settled'
<1>1. ops' = ops \ {op} /\ mode' = mode /\ cleanup' = cleanup
  BY Zenon DEF Attempted, Settings
<1>2. CASE calm = 0
  BY <1>2 DEF Settled
<1>3. CASE calm # 0
  <2>1. /\ Filled
        /\ \A o \in ops : Waits(o)
        /\ RefusedLeft => failed \/ \E o \in ops : Refused(o)
        /\ clean => \A o \in Left : IsCleanup(o) => o \in ops \/ RefusedLeft
        /\ calm = 2 => \A o \in ops : IsCleanup(o) => failed \/ \E x \in ops : Refused(x)
    BY <1>3, Zenon DEF Settled
  <2>2. IsCleanup(op) /\ ~failed
    BY <2>1, Zenon DEF Waits, Attemptable
  <2>3. ASSUME NEW o \in ops
        PROVE  ~Refused(o)
    <3>1. Rank(op) <= Rank(o)
      BY Zenon DEF Attemptable, Head
    <3>2. Rank(op) = 4
      BY <2>2, Zenon DEF Rank, IsCleanup
    <3>3. o.kind = "replace" => Rank(o) = 1
      BY Zenon DEF Rank, IsCleanup
    <3> QED
      BY <3>1, <3>2, <3>3 DEF Refused
  <2>4. ~RefusedLeft /\ calm # 2
    BY <2>1, <2>2, <2>3, Zenon
  <2>5. mode # "restricted"
    <3>1. op.id \in Mine
      BY <2>2, Zenon DEF SafetyInv, Sound, OpSound, Bound, IsCleanup
    <3> QED
      BY <3>1, Zenon DEF Mine
  <2>6. PlanCurrent /\ Current(op)
    BY <1>3, <2>5, Zenon DEF PlanCurrent
  <2>7. /\ Plain /\ op.id \in Extra
        /\ op.kind = "deactivate" => cleanup = "deactivate"
    BY <2>2, <2>6, Zenon DEF Current
  <2>8. LeftFacts /\ PlanFacts /\ LeftFacts' /\ PlanFacts'
    BY LeftFactsHold, PlanFactsHold, PTL DEF SafetyInv
  <2>9. Exact /\ Gap = {}
    <3>1. /\ Exact /\ AllSwapped
          /\ Gap = {} \/ mode = "shared"
      BY <2>1, <2>5, <2>7, <2>8, ZenonT(60) DEF LeftFacts, Plain, Turning
    <3>2. mode = "shared" => Swaps = {}
      BY <2>4, <2>5, <2>7, <2>8, ZenonT(60) DEF LeftFacts
    <3> QED
      BY <3>1, <3>2, Zenon DEF AllSwapped
  <2>10. \A d \in Have : Hit(d) # op.id /\ Hit(d) \in Id
    <3>1. \A d \in Have : Hit(d) # op.id
      BY <2>7, StaleFacts, Zenon DEF Extra, Have, Hit, SafetyInv
    <3> QED
      BY <2>8, <3>1, Zenon DEF PlanFacts
  <2>11. /\ Plain' /\ Gap' = {} /\ Have' = Have
         /\ \A d \in Have : Hit(d)' = Hit(d)
         /\ Extra' \subseteq Extra
         /\ \A j \in Id \ {op.id} : zone'[j] = zone[j]
         /\ op.kind = "delete" => op.id \notin Extra'
         /\ op.kind = "deactivate" => zone'[op.id] = op.want
    <3>1. CASE op.kind = "deactivate"
      <4>1. /\ SamePlan
            /\ zone'[op.id] = op.want
            /\ \A j \in Id \ {op.id} : zone'[j] = zone[j]
        BY <2>5, <2>6, <3>1, EffectStep, ZenonT(60)
      <4> QED
        BY <2>7, <2>9, <3>1, <4>1, ZenonT(60) DEF SamePlan
    <3>2. CASE op.kind = "delete"
      <4>1. /\ Moved(op.id, NoRow)
            /\ \A j \in Id \ {op.id} : zone'[j] = zone[j]
        BY <2>5, <2>6, <3>2, EffectStep, Zenon
      <4> QED
        BY <2>9, <3>2, <4>1, Zenon DEF Moved
    <3> QED
      BY <2>2, <3>1, <3>2, ZenonT(60) DEF IsCleanup
  <2>12. Exact'
    BY <2>9, <2>10, <2>11, Zenon DEF Exact
  <2>13. AllSwapped' /\ Swaps' = {}
    <3>1. \A p \in Swaps' : p = <<p[1], p[2]>> /\ (<<p[1], p[2]>> \in Swaps' => p[2] \in Gap')
      BY <2>8, Zenon DEF PlanFacts
    <3> QED
      BY <2>11, <3>1, Zenon DEF AllSwapped
  <2>14. Filled'
    BY <1>1, <2>5, <2>8, <2>11, <2>12, <2>13, Zenon DEF LeftFacts
  <2>15. ~RefusedLeft'
    BY <1>1, <2>5, <2>8, <2>11, <2>13, Zenon DEF LeftFacts, Plain, Turning
  <2>16. \A o \in ops' : Waits(o)'
    BY <1>1, <2>1, Zenon DEF Waits, Refused
  <2>17. ~failed'
    BY <2>2, Zenon
  <2>18. ASSUME clean', NEW o \in Left', IsCleanup(o)
         PROVE  o \in ops'
    <3>1. Tidies(o)'
      BY <1>1, <2>5, <2>8, <2>18, Zenon DEF LeftFacts
    <3>2. o.id \in Extra' /\ o.id \in Extra /\ o.id \in Id
      BY <2>8, <2>11, <3>1, Zenon DEF Tidies, PlanFacts
    <3>3. o.id # op.id
      <4>1. CASE op.kind = "delete"
        BY <2>11, <3>2, <4>1, Zenon
      <4>2. CASE op.kind = "deactivate"
        <5>1. zone'[op.id].disabled
          <6>1. op.want = Disabled(zone[op.id])
            BY <4>2, Zenon DEF SafetyInv, Sound, OpSound
          <6> QED
            BY <2>11, <4>2, <6>1 DEF Disabled
        <5> QED
          BY <1>1, <2>7, <3>1, <4>2, <5>1, ZenonT(60) DEF Tidies
      <4> QED
        BY <2>2, <4>1, <4>2, Zenon DEF IsCleanup
    <3>4. zone'[o.id] = zone[o.id]
      BY <2>11, <3>2, <3>3, Zenon
    <3>5. Tidies(o)
      <4>1. AllSwapped /\ \A d \in Gap : <<o.id, d>> \notin Swaps
        BY <2>9, Zenon DEF AllSwapped
      <4>2. \/ cleanup = "delete" /\ o = Delete(o.id)
            \/ /\ cleanup = "deactivate" /\ ~zone[o.id].disabled
               /\ o = Put("deactivate", o.id, Disabled(zone[o.id]))
        BY <1>1, <3>1, <3>4, Zenon DEF Tidies
      <4> QED
        BY <3>2, <4>1, <4>2, Zenon DEF Tidies
    <3>6. o \in Left
      BY <2>5, <2>7, <2>8, <3>5, Zenon DEF LeftFacts
    <3> QED
      BY <1>1, <2>1, <2>4, <2>18, <3>3, <3>6, ZenonT(60)
  <2> QED
    BY <2>4, <2>14, <2>15, <2>16, <2>17, <2>18, ZenonT(60) DEF Settled
<1> QED
  BY <1>2, <1>3, Zenon

\* Attempting an operation, whatever its outcome, keeps the cycle on its way.
LEMMA ApplyConverges ==
    ASSUME SafetyInv, Base', InProgress, Settled, NEW op \in ops, Apply(op)
    PROVE  InProgress' /\ Settled'
<1>1. /\ busy /\ busy' = busy /\ calm' = calm /\ mode' = mode /\ UNCHANGED Settings
      /\ Attempted(op)
  BY Zenon
  DEF Apply, ApplyOne, ApplyRefused, ApplyFails, ApplyResponseLost, Block,
      RecoverInterruptedClaim, Failure, Settings
<1>2. /\ clean' => clean
      /\ failed => failed'
      /\ \/ /\ Attemptable(op) /\ ~Refused(op) /\ Effect(op)
            /\ failed' => failed \/ ~IsCleanup(op)
         \/ UNCHANGED <<zone, claimed>> /\ Refused(op) /\ failed'
         \/ UNCHANGED <<zone, claimed>> /\ ~Refused(op) /\ ~clean'
         \/ /\ UNCHANGED <<zone, claimed>>
            /\ op.kind = "conflict" \/ (IsCleanup(op) /\ failed)
            /\ failed' => failed
  <2>1. CASE ApplyOne(op)
    BY <2>1, Zenon DEF ApplyOne
  <2>2. CASE ApplyRefused(op)
    BY <2>2, Zenon DEF ApplyRefused
  <2>3. CASE ApplyFails(op)
    BY <2>3, Zenon DEF ApplyFails, Failure
  <2>4. CASE ApplyResponseLost(op)
    BY <2>4, Zenon DEF ApplyResponseLost, Failure
  <2>5. CASE Block(op)
    BY <2>5, Zenon DEF Block, Attemptable
  <2>6. CASE RecoverInterruptedClaim(op)
    BY <2>6, Zenon DEF RecoverInterruptedClaim, Refused
  <2> QED
    BY <2>1, <2>2, <2>3, <2>4, <2>5, <2>6, Zenon DEF Apply
<1>3. calm # 0 /\ mode # "restricted" => PlanCurrent
  BY <1>1, Zenon DEF InProgress
<1>4. Settled'
  <2>1. CASE Attemptable(op) /\ ~Refused(op) /\ Effect(op) /\ (failed' => failed \/ ~IsCleanup(op))
    BY <1>1, <1>2, <1>3, <2>1, SettledEffect, Zenon
  <2>2. CASE /\ UNCHANGED <<zone, claimed>>
             /\ \/ Refused(op) /\ failed'
                \/ ~Refused(op) /\ ~clean'
                \/ /\ op.kind = "conflict" \/ (IsCleanup(op) /\ failed)
                   /\ failed' => failed
    BY <1>1, <1>2, <1>3, <2>2, SettledSkip, Zenon
  <2> QED
    BY <1>2, <2>1, <2>2, Zenon
<1>5. ASSUME clean' \/ calm' # 0, mode' # "restricted"
      PROVE  PlanCurrent'
  <2>1. PlanCurrent
    BY <1>1, <1>2, <1>5, Zenon DEF InProgress
  <2> QED
    BY <1>1, <1>2, <1>5, <2>1, CurrentKept, Zenon
<1>6. ASSUME clean', mode' # "restricted"
      PROVE  Pending'
  <2>1. PlanCurrent /\ Pending
    BY <1>1, <1>2, <1>6, Zenon DEF InProgress
  <2> QED
    BY <1>1, <1>2, <1>6, <2>1, PendingKept, ZenonT(60)
<1>7. ASSUME clean', mode' = "restricted"
      PROVE  PendingRestricted'
  <2>1. PendingRestricted /\ ~Refused(op)
    BY <1>1, <1>2, <1>7, Zenon DEF InProgress, Refused
  <2> QED
    BY <1>1, <1>2, <1>7, <2>1, RestrictedKept, ZenonT(60) DEF Attemptable
<1>8. ClaimsRead'
  <2> SUFFICES ASSUME clean' PROVE claimed' = confirmed'
    BY <1>1, Zenon DEF ClaimsRead
  <2>1. claimed = confirmed
    BY <1>2, Zenon DEF InProgress, ClaimsRead
  <2>2. CASE ApplyOne(op)
    BY <2>1, <2>2, Zenon DEF ApplyOne, Effect
  <2>3. CASE ApplyRefused(op) \/ Block(op)
    BY <2>1, <2>3, Zenon DEF ApplyRefused, Block
  <2> QED
    BY <2>2, <2>3, Zenon DEF Apply, ApplyFails, ApplyResponseLost, RecoverInterruptedClaim, Failure
<1> QED
  BY <1>4, <1>5, <1>6, <1>7, <1>8, Zenon DEF InProgress

\* A new cycle, complete or not, starts from what the cycles before it achieved.
LEMMA PrepareConverges ==
    ASSUME SafetyInv, Base', InProgress, Settled, NEW complete, NEW seen \in SUBSET desired,
           NEW snapshot \in Snapshots, NEW refused \in BOOLEAN,
           Prepare(complete, seen, snapshot, refused)
    PROVE  InProgress' /\ Settled'
<1> DEFINE policies == [policies |-> snapshot.policies \cup denying,
                        ahead |-> snapshot.ahead]
           verdict == Evaluate(seen, policies)
           D == verdict.allowed
           scope == CleanupScope(complete, policies, verdict)
           plan == EnforceRestrictedOwnershipConflicts(D, scope)
<1>1. /\ ~busy /\ (complete => seen = desired)
      /\ ops' = GuardCleanup(plan, refused)
      /\ busy' = TRUE /\ clean' = (scope /\ ~refused)
      /\ calm' = IF scope /\ ~refused THEN calm ELSE 0
      /\ UNCHANGED <<mode, cleanup, desired, denying, zone, claimed, confirmed, failed,
                     faults>>
  BY Zenon DEF Prepare
<1>5. ClaimsRead'
  BY <1>1, Zenon DEF InProgress, ClaimsRead
<1>2. ASSUME scope
      PROVE  D = Wanted /\ scope = TRUE
  <2>1. complete /\ seen = desired
    BY <1>1, <1>2, Zenon DEF CleanupScope
  <2>2. CleanupScope(TRUE, policies, Evaluate(desired, policies))
    BY <1>2, <2>1, Zenon DEF CleanupScope
  <2>3. Evaluate(desired, policies).allowed = Wanted
    BY <2>2, ScopeIsWanted, Zenon
  <2> QED
    BY <1>2, <2>1, <2>3, Zenon
<1> HIDE DEF D, scope
<1>3. CASE ~(scope /\ ~refused)
  <2>1. ~clean' /\ calm' = 0
    BY <1>1, <1>3, Zenon
  <2> QED
    BY <1>5, <2>1 DEF InProgress, Settled
<1>4. CASE scope /\ ~refused
  <2>1. ops' = Left /\ calm' = calm
    <3>1. plan = Left
      BY <1>2, <1>4, Zenon DEF Left
    <3> QED
      BY <1>1, <1>4, <3>1, Zenon DEF GuardCleanup
  <2>2. Left' = Left /\ SamePlan /\ mode' = mode
    BY <1>1, SameZone, Zenon DEF SafetyInv, Settings
  <2>3. ops' = Left'
    BY <2>1, <2>2, Zenon
  <2>4. /\ mode' # "restricted" => PlanCurrent' /\ Pending'
        /\ mode' = "restricted" => PendingRestricted'
    <3>1. (Base /\ mode # "restricted" /\ ops = Left => PlanCurrent /\ Pending)'
      BY FreshPlan, PTL
    <3>2. (Base /\ mode = "restricted" /\ ops = Left => PendingRestricted)'
      BY FreshRestricted, PTL
    <3> QED
      BY <2>3, <3>1, <3>2, Zenon
  <2>5. InProgress'
    BY <1>5, <2>4, Zenon DEF InProgress
  <2>6. (\A o : Refused(o)' <=> Refused(o)) /\ (RefusedLeft' <=> RefusedLeft)
    BY <2>2, Zenon DEF Refused, RefusedLeft
  <2>7. (Filled' <=> Filled) /\ (Stable' <=> Stable) /\ (\A o : Waits(o)' <=> Waits(o))
    BY <2>2, <2>6, Zenon DEF Filled, Stable, Waits
  <2>8. ~failed'
    BY <1>1, Zenon DEF SafetyInv
  <2>9. (calm # 0 => Filled) /\ (calm = 2 => Stable)
    BY Zenon DEF Settled
  <2>10. calm # 0 => \A op \in ops' : Waits(op)
    BY <2>1, <2>9, Zenon DEF Filled
  <2>11. RefusedLeft => \E o \in ops' : Refused(o)
    BY <2>1, Zenon DEF RefusedLeft
  <2>12. calm = 2 => \A op \in ops' : IsCleanup(op) => \E o \in ops' : Refused(o)
    BY <2>1, <2>9, <2>11, ZenonT(60) DEF Stable, IsCleanup, Refused
  <2>13. Settled'
    BY <2>1, <2>2, <2>6, <2>7, <2>8, <2>9, <2>10, <2>11, <2>12, ZenonT(60) DEF Settled
  <2> QED
    BY <2>5, <2>13, Zenon
<1> QED
  BY <1>3, <1>4, Zenon

\* The end of an undisturbed cycle is where the next one starts from.
LEMMA RestConverges ==
    ASSUME SafetyInv, Base', InProgress, Settled, EndCycle \/ Interrupt
    PROVE  InProgress' /\ Settled'
<1>1. ~busy' /\ busy /\ claimed' = confirmed /\ ClaimsRead'
  BY Zenon DEF EndCycle, Interrupt, Rest, ClaimsRead
<1>2. CASE calm' = 0
  BY <1>1, <1>2 DEF InProgress, Settled
<1>3. CASE calm' # 0
  <2>1. EndCycle /\ clean /\ ops = {} /\ (calm' = 2 => calm # 0)
    <3>1. EndCycle /\ clean /\ ops = {}
      BY <1>3, Zenon DEF EndCycle, Interrupt
    <3>2. calm \in 0 .. 2
      BY Zenon DEF SafetyInv, Base, TypeOK
    <3>3. calm' = IF calm < 2 THEN calm + 1 ELSE calm
      BY <3>1, Zenon DEF EndCycle
    <3> QED
      BY <3>1, <3>2, <3>3
  <2>7. claimed' = claimed
    BY <1>1, <2>1, Zenon DEF InProgress, ClaimsRead
  <2>2. Left' = Left /\ mode' = mode
    BY <2>1, <2>7, SameZone, Zenon DEF EndCycle, SafetyInv, Settings
  <2>3. Filled
    BY <1>1, <2>1, FinishedPlan, FinishedRestricted, Zenon DEF InProgress, SafetyInv
  <2>4. calm # 0 => Stable
    BY <1>1, <2>1, <2>3, Zenon DEF Settled, Stable, Filled, Waits
  <2>5. (\A o : Refused(o)' <=> Refused(o)) /\ (RefusedLeft' <=> RefusedLeft)
    BY <2>2, Zenon DEF Refused, RefusedLeft
  <2>6. (Filled' <=> Filled) /\ (Stable' <=> Stable)
    BY <2>2, <2>5, Zenon DEF Filled, Stable, Waits
  <2> QED
    BY <1>1, <2>1, <2>3, <2>4, <2>6, ZenonT(60) DEF InProgress, Settled
<1> QED
  BY <1>2, <1>3, Zenon

\* A stuttering step changes no plan.
LEMMA StutterConverges ==
    ASSUME SafetyInv, Base', InProgress, Settled, UNCHANGED vars
    PROVE  InProgress' /\ Settled'
<1>1. /\ mode' = mode /\ cleanup' = cleanup /\ zone' = zone /\ ops' = ops /\ failed' = failed
      /\ clean' = clean /\ busy' = busy /\ calm' = calm
      /\ claimed' = claimed /\ confirmed' = confirmed
  BY Zenon DEF vars
<1>2. SamePlan /\ Left' = Left /\ AdoptableRows' = AdoptableRows
  BY SameZone, Zenon DEF vars, Settings, SafetyInv
<1>3. ASSUME NEW op, Current(op)
      PROVE  Current(op)'
  BY <1>1, <1>2, <1>3, Zenon DEF Current, SamePlan
<1>4. PlanCurrent => PlanCurrent'
  BY <1>1, <1>3, Zenon DEF PlanCurrent
<1>5. Pending => Pending'
  BY <1>1, <1>2, Zenon DEF Pending, SamePlan
<1>6. PendingRestricted => PendingRestricted'
  BY <1>1, <1>2, Zenon DEF PendingRestricted, SamePlan
<1>7. (\A o : Refused(o)' <=> Refused(o)) /\ (RefusedLeft' <=> RefusedLeft)
  BY <1>1, <1>2, Zenon DEF Refused, RefusedLeft
<1>8. (Filled' <=> Filled) /\ (Stable' <=> Stable) /\ (\A o : Waits(o)' <=> Waits(o))
  BY <1>2, <1>7, Zenon DEF Filled, Stable, Waits
<1>9. InProgress'
  BY <1>1, <1>4, <1>5, <1>6, ZenonT(60) DEF InProgress, ClaimsRead
<1>10. Settled'
  BY <1>1, <1>2, <1>7, <1>8, Zenon DEF Settled
<1> QED
  BY <1>9, <1>10, Zenon

\* Every step of a cycle preserves the convergence invariant.
LEMMA NextConverges ==
    SafetyInv /\ InProgress /\ Settled /\ [Next]_vars => InProgress' /\ Settled'
<1> SUFFICES ASSUME SafetyInv, InProgress, Settled, [Next]_vars
             PROVE  InProgress' /\ Settled'
  OBVIOUS
<1>1. Base'
  BY NextSafe, Zenon DEF SafetyInv
<1>2. ASSUME NEW snapshot \in Snapshots, NEW refused \in BOOLEAN,
             Prepare(TRUE, desired, snapshot, refused)
      PROVE  InProgress' /\ Settled'
  BY <1>1, <1>2, PrepareConverges, ZenonT(60)
<1>3. ASSUME NEW seen \in SUBSET desired, NEW refused \in BOOLEAN,
             Prepare(FALSE, seen, NoPolicy, refused)
      PROVE  InProgress' /\ Settled'
  <2>1. NoPolicy \in Snapshots
    BY ReconcileAssumption, Zenon
  <2> QED
    BY <1>1, <1>3, <2>1, PrepareConverges, ZenonT(60)
<1>4. ASSUME NEW op \in ops, Apply(op)
      PROVE  InProgress' /\ Settled'
  BY <1>1, <1>4, ApplyConverges, ZenonT(60)
<1>5. CASE EndCycle \/ Interrupt
  BY <1>1, <1>5, RestConverges, ZenonT(60)
<1>6. CASE UNCHANGED vars
  BY <1>1, <1>6, StutterConverges, Zenon
<1> QED
  BY <1>2, <1>3, <1>4, <1>5, <1>6, ZenonT(60) DEF Next

\* An undisturbed cycle writes all there is to write, and every undisturbed cycle
\* after it attempts nothing but cleanup and what a shared zone refuses.
THEOREM ConvergenceInvariant == Spec => [](InProgress /\ Settled)
<1>1. Init => InProgress /\ Settled
  BY DEF Init, InProgress, ClaimsRead, Settled
<1> QED
  BY <1>1, CycleInvariant, NextConverges, PTL DEF Spec

\* From any device, two undisturbed cycles in a row leave the planner with nothing
\* but conflicts and what waits for a person.
THEOREM TwoCyclesConverge == Spec => []TwoCyclesSuffice
<1>1. Settled => TwoCyclesSuffice
  BY Zenon DEF Settled, Stable, TwoCyclesSuffice, Left, RefusedLeft
<1> QED
  BY <1>1, ConvergenceInvariant, PTL
====
