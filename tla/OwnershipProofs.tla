--------------------------- MODULE OwnershipProofs ---------------------------
(***************************************************************************)
(* Proofs about the ownership protocol for any number of controllers, rows *)
(* and fingerprints, and any number of edits and aborted operations.       *)
(***************************************************************************)
EXTENDS Ownership, TLAPS

State == [pc : Labels, op : Op, copy : Claim \cup {NoClaim}, seen : [Id -> RowValue]]

\* Which operation a process can be at, and what the operation asks for.
OpShape(p) ==
  /\ at[p].op.kind \in {"Create", "Update", "Conflict"} => at[p].op.fp \in Fp
  /\ at[p].pc \in {"reserve", "create", "reserved", "recover", "reset", "finalizer", "inspect",
                   "post", "relist", "refresh"} => at[p].op.kind = "Create"
  /\ at[p].pc \in {"get", "snapshot", "authorize", "revalidate", "mutate", "after"} =>
       at[p].op.kind \in {"Update", "Delete"}
  /\ at[p].pc \in {"rebind", "fingerprint"} => at[p].op.kind \in {"Update", "Conflict"}
  /\ at[p].pc \in {"interrupted", "evidence"} => at[p].op.kind = "Conflict"
  /\ at[p].pc \in {"release", "unfinalize", "delete"} => at[p].op.kind = "Delete"

\* A process with the current resourceVersion has the current claim.
CopyCurrent(p) == p \in fresh => at[p].pc # "idle" /\ at[p].copy = claim

\* What the copy of the claim says where a process has come to.
CopyShape(p) ==
  LET c == at[p].copy
  IN  /\ at[p].pc \notin {"idle", "reserve", "create", "get", "interrupted"} => c # NoClaim
      /\ at[p].pc \notin {"idle", "reserve", "create", "get", "interrupted", "conflict"} =>
           c.cid = Cid[p]
      /\ at[p].pc \in {"recover", "reset", "release", "unfinalize", "delete"} =>
           c.phase = "Orphaned"
      /\ at[p].pc = "reserved" => c.phase \in {"", "Orphaned"}
      /\ at[p].pc \in {"bind", "confirmed"} => c.phase \in {"Reserved", "Orphaned", "Confirmed"}
      /\ at[p].pc \in {"revalidate", "mutate", "after", "orphan", "fingerprint"} =>
           c.phase = "Confirmed"
      /\ at[p].pc \in {"reconcile", "evidence"} => c.phase \in {"Reserved", "Confirmed"}
      /\ at[p].pc = "bind" => c.pid = NoId

\* Where the claim is known to be the process's own, and its finalizer in place.
Holding == Labels \ {"idle", "reserve", "create", "recover", "reset", "finalizer", "conflict",
                     "delete", "interrupted"}
HoldsClaim(p) ==
  at[p].pc \in Holding => claim # NoClaim /\ claim.cid = Cid[p] /\ claim.fin

\* Where a process relies on there being no row that a controller created.
NothingSeen(p) == \A i \in Id : at[p].seen[i] \notin Fp
Relies(p) ==
  \/ at[p].pc \in {"post", "release", "unfinalize"}
  \/ at[p].pc \in {"reset", "delete"} /\ p \in fresh
  \/ at[p].pc = "reconcile" /\ at[p].op.kind = "Delete" /\ NothingSeen(p)
  \/ at[p].pc = "orphan" /\ at[p].op.kind = "Delete"
Cleared(p) == Relies(p) => created = {}

Consistent(p) == OpShape(p) /\ CopyCurrent(p) /\ CopyShape(p) /\ HoldsClaim(p) /\ Cleared(p)

\* A claim without finalizer, which anybody can remove, binds no row.
Unfinalized ==
  claim # NoClaim /\ ~claim.fin => claim.phase \in {"Orphaned", "Conflict"} /\ created = {}

\* The rows that controllers created are there, and there is at most one.
OneCreated == created \subseteq Present /\ AtMostOneCreatedRow

IInv ==
  /\ TypeOK
  /\ \A p \in Process : Consistent(p)
  /\ Unfinalized
  /\ OneCreated

-----------------------------------------------------------------------------
(***************************************************************************)
(* Where a process is.                                                     *)
(***************************************************************************)
\* The fields of a process have their types, and an idle process is one.
LEMMA StateFields ==
    /\ \A s \in State : /\ s.pc \in Labels /\ s.op \in Op /\ s.copy \in Claim \cup {NoClaim}
                        /\ s.seen \in [Id -> RowValue]
    /\ \A o \in Op : /\ o.kind \in {"None", "Create", "Update", "Delete", "Conflict"}
                     /\ o.id \in Id \cup {NoId} /\ o.fp \in Fp \cup {NoFp}
    /\ NoOp \in Op /\ NoOp.kind = "None"
    /\ Idle \in State
    /\ Idle.pc = "idle" /\ Idle.op = NoOp /\ Idle.copy = NoClaim /\ Idle.seen = Blank
  <1>1. NoOp \in Op /\ NoOp.kind = "None"
    BY Zenon DEF NoOp, Op
  <1>2. Blank \in [Id -> RowValue]
    BY Zenon DEF Blank, RowValue
  <1>3. Idle \in State
    BY <1>1, <1>2, Zenon DEF Idle, State, Labels
  <1> QED
    BY <1>1, <1>3, Zenon DEF State, Op, Idle

\* The fields of a claim have their types.
LEMMA ClaimFields ==
    \A c \in Claim : /\ c # NoClaim /\ c.phase \in Phases /\ c.fp \in Fp /\ c.pid \in Id \cup {NoId}
                     /\ c.cid \in {Cid[p] : p \in Process}
                     /\ c.fin \in BOOLEAN /\ c.deleting \in BOOLEAN
  BY NothingAssumption, Zenon DEF Claim

\* The fields of a process that moves to another label.
LEMMA Relabelled ==
    ASSUME NEW s \in State, NEW l \in Labels
    PROVE  LET t == [s EXCEPT !.pc = l]
           IN  t \in State /\ t.pc = l /\ t.op = s.op /\ t.copy = s.copy /\ t.seen = s.seen
  BY Zenon DEF State

\* The row of the record in a snapshot is a row.
LEMMA ExactIdType == \A z, f : ExactId(z, f) \in Id \cup {NoId}
  BY Zenon DEF ExactId, Exact

-----------------------------------------------------------------------------
(***************************************************************************)
(* Steps of one process.                                                   *)
(***************************************************************************)
\* A step of p that creates no row keeps the invariant if it keeps p's own, and
\* changes a claim of another controller only by marking it.
LEMMA StepKeeps ==
    ASSUME IInv, TypeOK', NEW p \in Process,
           \A q \in Process \ {p} : /\ at'[q] = at[q]
                                    /\ q \in fresh' => q \in fresh /\ claim' = claim,
           \/ claim = NoClaim
           \/ claim.cid = Cid[p]
           \/ claim' # NoClaim /\ claim'.cid = claim.cid /\ claim'.fin = claim.fin,
           created' \subseteq created, Consistent(p)', Unfinalized', OneCreated'
    PROVE  IInv'
  <1>1. ASSUME NEW q \in Process \ {p} PROVE Consistent(q)'
    <2>1. Consistent(q) /\ at'[q] = at[q]
      BY Zenon DEF IInv
    <2>2. OpShape(q)'
      BY <2>1, Zenon DEF Consistent, OpShape
    <2>3. CopyCurrent(q)' /\ CopyShape(q)'
      BY <2>1, ZenonT(60) DEF Consistent, CopyCurrent, CopyShape
    <2>4. HoldsClaim(q)'
      BY <2>1, OwnershipAssumption, Zenon DEF Consistent, HoldsClaim
    <2>5. Cleared(q)'
      BY <2>1, Zenon DEF Consistent, Cleared, Relies, NothingSeen
    <2> QED
      BY <2>2, <2>3, <2>4, <2>5, Zenon DEF Consistent
  <1> QED
    BY <1>1, Zenon DEF IInv

\* A process that moves to the state s.
LEMMA Moves ==
    ASSUME IInv, NEW p \in Process, NEW s \in State, Moved(p, s)
    PROVE  /\ at' \in [Process -> State]
           /\ \A q \in Process \ {p} : at'[q] = at[q]
           /\ s.pc = "idle" => at'[p] = Idle
           /\ s.pc # "idle" => at'[p] = s
  BY StateFields, Zenon DEF Moved, IInv, TypeOK, State

\* It keeps the types if it leaves everything else alone.
LEMMA MovesTyped ==
    ASSUME IInv, at' \in [Process -> State], claim' \in Claim \cup {NoClaim},
           fresh' \subseteq Process, Same
    PROVE  TypeOK' /\ OneCreated'
  <1>1. TypeOK'
    BY Zenon DEF IInv, TypeOK, Same, State
  <1> QED
    BY <1>1, Zenon DEF IInv, OneCreated, AtMostOneCreatedRow, Present, Same

\* An idle process knows nothing and relies on nothing.
LEMMA IdleConsistent ==
    ASSUME NEW p \in Process, at'[p] = Idle, p \notin fresh'
    PROVE  Consistent(p)'
  BY StateFields, Zenon
  DEF Consistent, OpShape, CopyCurrent, CopyShape, HoldsClaim, Holding, Cleared, Relies

\* A process goes to the label l.
LEMMA Goes ==
    ASSUME IInv, NEW p \in Process, NEW l \in Labels, Goto(p, l)
    PROVE  /\ at' \in [Process -> State] /\ claim' = claim /\ fresh' \subseteq Process
           /\ \A q \in Process \ {p} : at'[q] = at[q] /\ (q \in fresh' => q \in fresh)
           /\ l = "idle" => Consistent(p)'
           /\ l # "idle" => /\ at'[p].pc = l /\ at'[p].op = at[p].op /\ at'[p].copy = at[p].copy
                            /\ at'[p].seen = at[p].seen /\ fresh' = fresh
                            /\ CopyCurrent(p)'
  <1> DEFINE s == [at[p] EXCEPT !.pc = l]
  <1>1. at[p] \in State
    BY Zenon DEF IInv, TypeOK, State
  <1>2. s \in State /\ s.pc = l /\ s.op = at[p].op /\ s.copy = at[p].copy /\ s.seen = at[p].seen
    BY <1>1, Relabelled, Zenon
  <1>3. Moved(p, s) /\ claim' = claim /\ fresh' = IF l = "idle" THEN fresh \ {p} ELSE fresh
    BY Zenon DEF Goto
  <1> HIDE DEF s
  <1>4. /\ at' \in [Process -> State] /\ \A q \in Process \ {p} : at'[q] = at[q]
        /\ l = "idle" => at'[p] = Idle
        /\ l # "idle" => at'[p] = s
    BY <1>2, <1>3, Moves, Zenon
  <1>5. l = "idle" => Consistent(p)'
    BY <1>3, <1>4, IdleConsistent, Zenon
  <1>6. l # "idle" => CopyCurrent(p)'
    BY <1>2, <1>3, <1>4, Zenon DEF IInv, Consistent, CopyCurrent
  <1>7. fresh' \subseteq Process
    BY <1>3, Zenon DEF IInv, TypeOK
  <1> QED
    BY <1>2, <1>3, <1>4, <1>5, <1>6, <1>7, Zenon

\* A step that only goes to l keeps the invariant if l fits the process.
LEMMA GotoKeeps ==
    ASSUME IInv, NEW p \in Process, NEW l \in Labels, Goto(p, l), Same,
           l # "idle" => OpShape(p)' /\ CopyShape(p)' /\ HoldsClaim(p)' /\ Cleared(p)'
    PROVE  IInv'
  <1>1. TypeOK' /\ OneCreated'
    BY Goes, MovesTyped, Zenon DEF IInv, TypeOK
  <1>2. Consistent(p)'
    BY Goes, Zenon DEF Consistent
  <1>3. Unfinalized' /\ created' \subseteq created
    BY Goes, Zenon DEF IInv, Unfinalized, Same
  <1> QED
    BY <1>1, <1>2, <1>3, Goes, StepKeeps, Zenon

\* A process reads the claim and goes to the label l.
LEMMA Fetches ==
    ASSUME IInv, NEW p \in Process, NEW l \in Labels, Fetch(p, l)
    PROVE  /\ at' \in [Process -> State] /\ claim' = claim /\ fresh' \subseteq Process
           /\ \A q \in Process \ {p} : at'[q] = at[q] /\ (q \in fresh' => q \in fresh)
           /\ l = "idle" => Consistent(p)'
           /\ l # "idle" => /\ at'[p].pc = l /\ at'[p].op = at[p].op /\ at'[p].copy = claim
                            /\ at'[p].seen = at[p].seen /\ CopyCurrent(p)'
  <1> DEFINE s == [at[p] EXCEPT !.pc = l, !.copy = claim]
  <1>1. at[p] \in State /\ claim \in Claim \cup {NoClaim} /\ fresh \subseteq Process
    BY Zenon DEF IInv, TypeOK, State
  <1>2. s \in State /\ s.pc = l /\ s.op = at[p].op /\ s.copy = claim /\ s.seen = at[p].seen
    BY <1>1, Zenon DEF State
  <1>3. /\ Moved(p, s) /\ claim' = claim
        /\ fresh' = IF l = "idle" THEN fresh \ {p} ELSE fresh \cup {p}
    BY Zenon DEF Fetch
  <1> HIDE DEF s
  <1>4. /\ at' \in [Process -> State] /\ \A q \in Process \ {p} : at'[q] = at[q]
        /\ l = "idle" => at'[p] = Idle
        /\ l # "idle" => at'[p] = s
    BY <1>2, <1>3, Moves, Zenon
  <1>5. l = "idle" => Consistent(p)'
    BY <1>3, <1>4, IdleConsistent, Zenon
  <1>6. l # "idle" => CopyCurrent(p)'
    BY <1>2, <1>3, <1>4 DEF CopyCurrent
  <1> QED
    BY <1>1, <1>2, <1>3, <1>4, <1>5, <1>6, Zenon

\* A step that only reads the claim keeps the invariant if l fits what it says.
LEMMA FetchKeeps ==
    ASSUME IInv, NEW p \in Process, NEW l \in Labels, Fetch(p, l), Same,
           l # "idle" => OpShape(p)' /\ CopyShape(p)' /\ HoldsClaim(p)' /\ Cleared(p)'
    PROVE  IInv'
  <1>1. TypeOK' /\ OneCreated'
    BY Fetches, MovesTyped, Zenon DEF IInv, TypeOK
  <1>2. Consistent(p)'
    BY Fetches, Zenon DEF Consistent
  <1>3. Unfinalized' /\ created' \subseteq created
    BY Fetches, Zenon DEF IInv, Unfinalized, Same
  <1> QED
    BY <1>1, <1>2, <1>3, Fetches, StepKeeps, Zenon

\* A step that keeps the copy of the claim and moves to s keeps the invariant if s
\* fits the process.
LEMMA MoveKeeps ==
    ASSUME IInv, NEW p \in Process, NEW s \in State, Moved(p, s), s.copy = at[p].copy,
           claim' = claim, fresh' = IF s.pc = "idle" THEN fresh \ {p} ELSE fresh, Same,
           s.pc # "idle" /\ at'[p] = s =>
             OpShape(p)' /\ CopyShape(p)' /\ HoldsClaim(p)' /\ Cleared(p)'
    PROVE  IInv'
  <1>1. /\ at' \in [Process -> State] /\ \A q \in Process \ {p} : at'[q] = at[q]
        /\ s.pc = "idle" => at'[p] = Idle
        /\ s.pc # "idle" => at'[p] = s
    BY Moves, Zenon
  <1>2. TypeOK' /\ OneCreated'
    BY <1>1, MovesTyped, Zenon DEF IInv, TypeOK
  <1>3. Consistent(p)'
    <2>1. CASE s.pc = "idle"
      BY <1>1, <2>1, IdleConsistent, Zenon
    <2>2. CASE s.pc # "idle"
      BY <1>1, <2>2, Zenon DEF IInv, Consistent, CopyCurrent
    <2> QED
      BY <2>1, <2>2, Zenon
  <1>4. Unfinalized' /\ created' \subseteq created
    BY Zenon DEF IInv, Unfinalized, Same
  <1> QED
    BY <1>1, <1>2, <1>3, <1>4, StepKeeps, Zenon

\* A process with the current resourceVersion writes the claim.
LEMMA Writes ==
    ASSUME IInv, NEW p \in Process, p \in fresh, NEW l \in Labels, NEW c \in Claim \cup {NoClaim},
           Write(p, c, l)
    PROVE  /\ at' \in [Process -> State] /\ claim' = c /\ fresh' \subseteq Process
           /\ \A q \in Process \ {p} : /\ at'[q] = at[q]
                                       /\ q \in fresh' => q \in fresh /\ claim' = claim
           /\ l = "idle" => Consistent(p)'
           /\ l # "idle" => /\ at'[p].pc = l /\ at'[p].op = at[p].op /\ at'[p].copy = c
                            /\ at'[p].seen = at[p].seen /\ CopyCurrent(p)'
  <1> DEFINE s == [at[p] EXCEPT !.pc = l, !.copy = c]
  <1>1. at[p] \in State /\ fresh \subseteq Process
    BY Zenon DEF IInv, TypeOK, State
  <1>2. s \in State /\ s.pc = l /\ s.op = at[p].op /\ s.copy = c /\ s.seen = at[p].seen
    BY <1>1, Zenon DEF State
  <1>3. /\ Moved(p, s) /\ claim' = c
        /\ fresh' = (IF c = claim THEN fresh \ {p} ELSE {}) \cup (IF l = "idle" THEN {} ELSE {p})
    BY Zenon DEF Write
  <1> HIDE DEF s
  <1>4. /\ at' \in [Process -> State] /\ \A q \in Process \ {p} : at'[q] = at[q]
        /\ l = "idle" => at'[p] = Idle
        /\ l # "idle" => at'[p] = s
    BY <1>2, <1>3, Moves, Zenon
  <1>5. l = "idle" => Consistent(p)'
    BY <1>3, <1>4, IdleConsistent, Zenon
  <1>6. l # "idle" => CopyCurrent(p)'
    BY <1>2, <1>3, <1>4 DEF CopyCurrent
  <1> QED
    BY <1>1, <1>2, <1>3, <1>4, <1>5, <1>6, Zenon

\* A write of the claim c keeps the invariant if the claim was p's own, or stays
\* its controller's own, and c fits the process; a stale write changes nothing.
LEMMA WriteKeeps ==
    ASSUME IInv, NEW p \in Process, NEW l \in Labels, NEW c \in Claim \cup {NoClaim},
           Write(p, c, l), Same,
           p \in fresh => \/ claim = NoClaim
                          \/ claim.cid = Cid[p]
                          \/ c # NoClaim /\ c.cid = claim.cid /\ c.fin = claim.fin,
           p \in fresh /\ c # NoClaim /\ ~c.fin =>
             c.phase \in {"Orphaned", "Conflict"} /\ created = {},
           p \in fresh /\ l # "idle" =>
             OpShape(p)' /\ CopyShape(p)' /\ HoldsClaim(p)' /\ Cleared(p)'
    PROVE  IInv'
  <1>1. CASE p \notin fresh
    BY <1>1, GotoKeeps, Zenon DEF Write, Labels
  <1>2. CASE p \in fresh
    <2>1. TypeOK' /\ OneCreated'
      BY <1>2, Writes, MovesTyped
    <2>2. Consistent(p)'
      BY <1>2, Writes, Zenon DEF Consistent
    <2>3. Unfinalized' /\ created' \subseteq created
      BY <1>2, Writes, Zenon DEF Unfinalized, Same
    <2>4. /\ claim' = c
          /\ \A q \in Process \ {p} : /\ at'[q] = at[q]
                                      /\ q \in fresh' => q \in fresh /\ claim' = claim
      BY <1>2, Writes, Zenon
    <2>5. \/ claim = NoClaim
          \/ claim.cid = Cid[p]
          \/ claim' # NoClaim /\ claim'.cid = claim.cid /\ claim'.fin = claim.fin
      BY <1>2, <2>4, Zenon
    <2> QED
      BY <2>1, <2>2, <2>3, <2>4, <2>5, StepKeeps, Zenon
  <1> QED
    BY <1>1, <1>2, Zenon

-----------------------------------------------------------------------------
(***************************************************************************)
(* Planning and reserving.                                                 *)
(***************************************************************************)
\* An operation is planned.
LEMMA PlanKeeps == ASSUME IInv, NEW p \in Process, Plan(p) PROVE IInv'
  <1>1. PICK o \in Planned(p) :
            at' = [at EXCEPT ![p] = [Idle EXCEPT !.pc = Entry(o.kind), !.op = o]]
    BY Zenon DEF Plan
  <1>2. /\ at[p].pc = "idle" /\ p \notin fresh
        /\ UNCHANGED <<claim, fresh, twin, rows, want, edits, changes, aborts, created>>
    BY Zenon DEF Plan, Same, IInv, Consistent, CopyCurrent
  <1>3. /\ o \in Op /\ o.kind \in {"Create", "Update", "Delete", "Conflict"}
        /\ o.kind \in {"Create", "Update", "Conflict"} => o.fp \in Fp
        /\ o.kind \in {"Update", "Delete"} => Owned(p) # {}
    <2>1. Owned(p) \subseteq Id /\ Present \subseteq Id /\ want[p] \in Fp \cup {NoFp}
      BY Zenon DEF Owned, Present, IInv, TypeOK
    <2> QED
      BY <2>1 DEF Planned, Op
  <1> DEFINE s == [Idle EXCEPT !.pc = Entry(o.kind), !.op = o]
  <1>4. Entry(o.kind) \in {"reserve", "interrupted", "get"} /\ Entry(o.kind) \in Labels
    BY Zenon DEF Entry, Labels
  <1>5. s \in State /\ s.pc = Entry(o.kind) /\ s.op = o /\ s.copy = NoClaim /\ s.seen = Blank
    BY <1>3, <1>4, StateFields, Zenon DEF State
  <1>6. at' \in [Process -> State] /\ at'[p] = s /\ \A q \in Process \ {p} : at'[q] = at[q]
    BY <1>1, <1>5, Zenon DEF IInv, TypeOK, State
  <1> HIDE DEF s
  <1>7. TypeOK' /\ OneCreated'
    BY <1>2, <1>6, MovesTyped, Zenon DEF IInv, TypeOK, Same
  <1>8. OpShape(p)' /\ CopyCurrent(p)' /\ CopyShape(p)' /\ Cleared(p)'
    BY <1>2, <1>3, <1>4, <1>5, <1>6, Zenon
    DEF OpShape, CopyCurrent, CopyShape, Cleared, Relies, Entry
  <1>9. HoldsClaim(p)'
    <2>1. CASE o.kind \in {"Update", "Delete"}
      <3>1. claim # NoClaim /\ claim.phase = "Confirmed" /\ claim.cid = Cid[p]
        BY <1>3, <2>1, Zenon DEF Owned
      <3> QED
        BY <1>2, <3>1, ClaimFields, Zenon DEF HoldsClaim, IInv, Unfinalized, TypeOK
    <2>2. CASE o.kind \in {"Create", "Conflict"}
      BY <1>5, <1>6, <2>2, Zenon DEF HoldsClaim, Holding, Entry
    <2> QED
      BY <1>3, <2>1, <2>2, Zenon
  <1>10. Unfinalized'
    BY <1>2, Zenon DEF IInv, Unfinalized
  <1> QED
    BY <1>2, <1>6, <1>7, <1>8, <1>9, <1>10, StepKeeps, Zenon DEF Consistent

\* The claim is looked up.
LEMMA ReserveKeeps == ASSUME IInv, NEW p \in Process, Reserve(p) PROVE IInv'
  <1> DEFINE l == ReserveLabel(p)
  <1>1. at[p].pc = "reserve" /\ Fetch(p, l) /\ Same /\ Consistent(p)
    BY Zenon DEF Reserve, IInv
  <1>2. /\ l \in {"idle", "conflict", "create", "recover", "finalizer", "inspect", "reserved"}
        /\ l \in {"conflict", "recover", "finalizer", "inspect", "reserved"} => claim # NoClaim
        /\ l \in {"recover", "finalizer", "inspect", "reserved"} => claim.cid = Cid[p]
        /\ l \in {"inspect", "reserved"} => claim.fin
        /\ l = "recover" => claim.phase = "Orphaned"
        /\ l = "reserved" => claim.phase = ""
    BY Zenon DEF ReserveLabel, ExistingLabel, PhaseLabel, ClaimSpecMatches
  <1> HIDE DEF l
  <1>3. l \in Labels
    BY <1>2, Zenon DEF Labels
  <1>4. ASSUME l # "idle" PROVE OpShape(p)' /\ CopyShape(p)' /\ HoldsClaim(p)' /\ Cleared(p)'
    <2>1. /\ at'[p].pc = l /\ at'[p].op = at[p].op /\ at'[p].copy = claim /\ claim' = claim
      BY <1>1, <1>3, <1>4, Fetches, Zenon
    <2>2. OpShape(p)'
      BY <1>1, <1>2, <2>1, Zenon DEF Consistent, OpShape
    <2>3. CopyShape(p)'
      BY <1>2, <2>1, Zenon DEF CopyShape
    <2>4. HoldsClaim(p)' /\ Cleared(p)'
      BY <1>2, <2>1, Zenon DEF HoldsClaim, Holding, Cleared, Relies
    <2> QED
      BY <2>2, <2>3, <2>4, Zenon
  <1> QED
    BY <1>1, <1>3, <1>4, FetchKeeps, Zenon

\* The claim is created, unless somebody has.
LEMMA CreateClaimKeeps == ASSUME IInv, NEW p \in Process, CreateClaim(p) PROVE IInv'
  <1>1. at[p].pc = "create" /\ Same /\ Consistent(p) /\ at[p] \in State
    BY Zenon DEF CreateClaim, IInv, TypeOK, State
  <1>2. CASE claim # NoClaim
    BY <1>1, <1>2, GotoKeeps, Zenon DEF CreateClaim, Labels
  <1>3. CASE claim = NoClaim
    <2> DEFINE c == [phase |-> "", fp |-> at[p].op.fp, pid |-> NoId, cid |-> Cid[p],
                     fin |-> TRUE, deleting |-> FALSE]
               s == [at[p] EXCEPT !.pc = "reserved", !.copy = c]
    <2>1. claim' = c /\ Moved(p, s) /\ fresh' = {p}
      BY <1>3, Zenon DEF CreateClaim
    <2>2. at[p].op.fp \in Fp
      BY <1>1, Zenon DEF Consistent, OpShape
    <2>3. c \in Claim /\ c # NoClaim /\ c.phase = "" /\ c.cid = Cid[p] /\ c.fin
      <3>1. c \in Claim
        BY <2>2, Zenon DEF Claim, Phases
      <3> QED
        BY <3>1, ClaimFields, Zenon
    <2> HIDE DEF c
    <2>4. /\ s \in State /\ s.pc = "reserved" /\ s.op = at[p].op /\ s.copy = c
          /\ s.seen = at[p].seen
      BY <1>1, <2>3, Zenon DEF State, Labels
    <2> HIDE DEF s
    <2>5. at' \in [Process -> State] /\ at'[p] = s /\ \A q \in Process \ {p} : at'[q] = at[q]
      BY <2>1, <2>4, Moves, Zenon
    <2>6. TypeOK' /\ OneCreated' /\ created' \subseteq created
      BY <1>1, <2>1, <2>3, <2>5, MovesTyped, Zenon DEF Same
    <2>7. OpShape(p)' /\ CopyShape(p)'
      BY <1>1, <2>3, <2>4, <2>5, Zenon DEF Consistent, OpShape, CopyShape
    <2>8. CopyCurrent(p)' /\ HoldsClaim(p)' /\ Cleared(p)' /\ Unfinalized'
      BY <2>1, <2>3, <2>4, <2>5, Zenon DEF CopyCurrent, HoldsClaim, Cleared, Relies, Unfinalized
    <2> QED
      BY <1>3, <2>1, <2>5, <2>6, <2>7, <2>8, StepKeeps, Zenon DEF Consistent
  <1> QED
    BY <1>2, <1>3, Zenon

\* What a write of a changed copy by p finds in the claim.
LEMMA OwnCopy ==
    ASSUME IInv, NEW p \in Process, p \in fresh,
           at[p].pc \notin {"idle", "reserve", "create", "get", "interrupted"}
    PROVE  /\ at[p].copy = claim /\ claim \in Claim /\ claim # NoClaim
           /\ at[p].pc # "conflict" => claim.cid = Cid[p]
           /\ at[p].pc \in Holding => claim.fin
           /\ ~claim.fin => claim.phase \in {"Orphaned", "Conflict"} /\ created = {}
  BY Zenon DEF IInv, TypeOK, Consistent, CopyCurrent, CopyShape, HoldsClaim, Unfinalized

\* The new claim is marked as reserved.
LEMMA MarkReservedKeeps == ASSUME IInv, NEW p \in Process, MarkReserved(p) PROVE IInv'
  <1> DEFINE c == [at[p].copy EXCEPT !.phase = "Reserved"]
  <1>1. at[p].pc = "reserved" /\ Write(p, c, "inspect") /\ Same /\ Consistent(p)
    BY Zenon DEF MarkReserved, Transition, IInv
  <1>2. at[p].copy \in Claim /\ at[p].copy.cid = Cid[p]
    BY <1>1, Zenon DEF Consistent, CopyShape, IInv, TypeOK
  <1>3. c \in Claim /\ c # NoClaim /\ c.cid = Cid[p] /\ c.fin = at[p].copy.fin
    <2>1. c \in Claim /\ c.cid = Cid[p] /\ c.fin = at[p].copy.fin
      BY <1>2, Zenon DEF Claim, Phases
    <2> QED
      BY <2>1, ClaimFields, Zenon
  <1> HIDE DEF c
  <1>4. p \in fresh => claim.cid = Cid[p] /\ c.fin
    BY <1>1, <1>3, OwnCopy, Zenon DEF Holding, Labels
  <1>5. ASSUME p \in fresh PROVE OpShape(p)' /\ CopyShape(p)' /\ HoldsClaim(p)' /\ Cleared(p)'
    <2>1. at'[p].pc = "inspect" /\ at'[p].op = at[p].op /\ at'[p].copy = c /\ claim' = c
      BY <1>1, <1>3, <1>5, Writes DEF Labels
    <2>2. OpShape(p)' /\ CopyShape(p)'
      BY <1>1, <1>3, <2>1, Zenon DEF Consistent, OpShape, CopyShape
    <2>3. HoldsClaim(p)' /\ Cleared(p)'
      BY <1>3, <1>4, <1>5, <2>1, Zenon DEF HoldsClaim, Cleared, Relies
    <2> QED
      BY <2>2, <2>3, Zenon
  <1> QED
    BY <1>1, <1>3, <1>4, <1>5, WriteKeeps, Zenon DEF Labels

\* An orphaned claim is reset only when there are no rows.
LEMMA RecoverOrphanedKeeps == ASSUME IInv, NEW p \in Process, RecoverOrphaned(p) PROVE IInv'
  <1> DEFINE c == at[p].copy
             gone == Present = {} /\ (c.pid # NoId => rows[c.pid] = NoRow)
             l == IF gone THEN "reset" ELSE ExistingLabel(p, c)
  <1>1. at[p].pc = "recover" /\ Goto(p, l) /\ Same /\ Consistent(p)
    BY Zenon DEF RecoverOrphaned, IInv
  <1>2. c.phase = "Orphaned" /\ c.cid = Cid[p] /\ c # NoClaim
    BY <1>1, Zenon DEF Consistent, CopyShape
  <1>3. /\ l \in {"idle", "conflict", "finalizer", "reset"}
        /\ l = "reset" => created = {}
    BY <1>2, Zenon DEF ExistingLabel, PhaseLabel, ClaimSpecMatches, IInv, OneCreated
  <1> HIDE DEF c, l
  <1>4. l \in Labels
    BY <1>3, Zenon DEF Labels
  <1>5. ASSUME l # "idle" PROVE OpShape(p)' /\ CopyShape(p)' /\ HoldsClaim(p)' /\ Cleared(p)'
    <2>1. at'[p].pc = l /\ at'[p].op = at[p].op /\ at'[p].copy = c
      BY <1>1, <1>4, <1>5, Goes, Zenon DEF c
    <2>2. OpShape(p)' /\ CopyShape(p)'
      BY <1>1, <1>2, <1>3, <2>1, Zenon DEF Consistent, OpShape, CopyShape
    <2>3. HoldsClaim(p)' /\ Cleared(p)'
      BY <1>1, <1>3, <2>1, Zenon DEF HoldsClaim, Holding, Cleared, Relies, Same
    <2> QED
      BY <2>2, <2>3, Zenon
  <1> QED
    BY <1>1, <1>4, <1>5, GotoKeeps, Zenon

\* The orphaned claim starts anew.
LEMMA ResetClaimKeeps == ASSUME IInv, NEW p \in Process, ResetClaim(p) PROVE IInv'
  <1> DEFINE c == [at[p].copy EXCEPT !.fp = at[p].op.fp, !.pid = NoId, !.fin = TRUE]
  <1>1. at[p].pc = "reset" /\ Write(p, c, "reserved") /\ Same /\ Consistent(p)
    BY Zenon DEF ResetClaim, IInv
  <1>2. /\ at[p].copy \in Claim /\ at[p].copy.cid = Cid[p] /\ at[p].copy.phase = "Orphaned"
        /\ at[p].op.fp \in Fp
    BY <1>1, Zenon DEF Consistent, CopyShape, OpShape, IInv, TypeOK
  <1>3. c \in Claim /\ c # NoClaim /\ c.cid = Cid[p] /\ c.fin /\ c.phase = "Orphaned"
    <2>1. c \in Claim /\ c.cid = Cid[p] /\ c.fin = TRUE /\ c.phase = "Orphaned"
      BY <1>2, Zenon DEF Claim
    <2> QED
      BY <2>1, ClaimFields, Zenon
  <1> HIDE DEF c
  <1>4. p \in fresh => claim.cid = Cid[p]
    BY <1>1, OwnCopy, ZenonT(60)
  <1>5. ASSUME p \in fresh PROVE OpShape(p)' /\ CopyShape(p)' /\ HoldsClaim(p)' /\ Cleared(p)'
    <2>1. at'[p].pc = "reserved" /\ at'[p].op = at[p].op /\ at'[p].copy = c /\ claim' = c
      BY <1>1, <1>3, <1>5, Writes DEF Labels
    <2>2. OpShape(p)' /\ CopyShape(p)'
      BY <1>1, <1>3, <2>1, Zenon DEF Consistent, OpShape, CopyShape
    <2>3. HoldsClaim(p)' /\ Cleared(p)'
      BY <1>3, <2>1, Zenon DEF HoldsClaim, Cleared, Relies
    <2> QED
      BY <2>2, <2>3, Zenon
  <1> QED
    BY <1>1, <1>3, <1>4, <1>5, WriteKeeps, Zenon DEF Labels

\* A claim of p's own gets its finalizer back.
LEMMA AddFinalizerKeeps == ASSUME IInv, NEW p \in Process, AddFinalizer(p) PROVE IInv'
  <1> DEFINE c == [at[p].copy EXCEPT !.fin = TRUE]
             l == PhaseLabel(at[p].copy)
  <1>1. at[p].pc = "finalizer" /\ Write(p, c, l) /\ Same /\ Consistent(p)
    BY Zenon DEF AddFinalizer, IInv
  <1>2. at[p].copy \in Claim /\ at[p].copy.cid = Cid[p]
    BY <1>1, Zenon DEF Consistent, CopyShape, IInv, TypeOK
  <1>3. c \in Claim /\ c # NoClaim /\ c.cid = Cid[p] /\ c.fin /\ c.phase = at[p].copy.phase
    <2>1. c \in Claim /\ c.cid = Cid[p] /\ c.fin = TRUE /\ c.phase = at[p].copy.phase
      BY <1>2, Zenon DEF Claim
    <2> QED
      BY <2>1, ClaimFields, Zenon
  <1> HIDE DEF c
  <1>4. l \in {"inspect", "reserved", "idle"} /\ (l = "reserved" => at[p].copy.phase = "")
    BY Zenon DEF PhaseLabel
  <1> HIDE DEF l
  <1>5. l \in Labels
    BY <1>4, Zenon DEF Labels
  <1>6. p \in fresh => claim.cid = Cid[p]
    BY <1>1, OwnCopy, Zenon
  <1>7. ASSUME p \in fresh, l # "idle"
        PROVE  OpShape(p)' /\ CopyShape(p)' /\ HoldsClaim(p)' /\ Cleared(p)'
    <2>1. at'[p].pc = l /\ at'[p].op = at[p].op /\ at'[p].copy = c /\ claim' = c
      BY <1>1, <1>3, <1>5, <1>7, Writes, SMTT(60)
    <2>2. OpShape(p)' /\ CopyShape(p)'
      BY <1>1, <1>3, <1>4, <2>1, Zenon DEF Consistent, OpShape, CopyShape
    <2>3. HoldsClaim(p)' /\ Cleared(p)'
      BY <1>3, <1>4, <2>1, Zenon DEF HoldsClaim, Cleared, Relies
    <2> QED
      BY <2>2, <2>3, Zenon
  <1> QED
    BY <1>1, <1>3, <1>5, <1>6, <1>7, WriteKeeps, Zenon

-----------------------------------------------------------------------------
(***************************************************************************)
(* Creating the row.                                                       *)
(***************************************************************************)
\* Where a listing leads: without a dispute and an exact row there is no row.
LEMMA ObservedLabel ==
    ASSUME NEW z, NEW f \in Fp, NEW phase, NEW unseen
    PROVE  LET l == Observed(z, f, phase, unseen)
           IN  /\ l \in {"conflict", "confirm", "orphan", unseen}
               /\ l = "orphan" /\ unseen # "orphan" => phase = "Confirmed"
               /\ l = unseen /\ unseen \notin {"conflict", "confirm", "orphan"} =>
                    \A i \in Id : z[i] \notin Fp
  BY Zenon DEF Observed, Disputed, Divergent, Exact

\* No row of the record is seen before the POST.
LEMMA InspectKeeps == ASSUME IInv, NEW p \in Process, InspectBeforeCreate(p) PROVE IInv'
  <1> DEFINE f == at[p].op.fp
             l == Observed(rows, f, at[p].copy.phase, "post")
             i == ExactId(rows, f)
             s == [at[p] EXCEPT !.pc = l, !.op.id = i]
  <1>1. /\ at[p].pc = "inspect" /\ Moved(p, s) /\ Same /\ claim' = claim /\ fresh' = fresh
        /\ Consistent(p) /\ at[p] \in State
    BY Zenon DEF InspectBeforeCreate, IInv, TypeOK, State
  <1>2. f \in Fp /\ at[p].op.kind = "Create"
    BY <1>1, Zenon DEF Consistent, OpShape
  <1>3. /\ l \in {"conflict", "confirm", "orphan", "post"}
        /\ l = "orphan" => at[p].copy.phase = "Confirmed"
        /\ l = "post" => \A j \in Id : rows[j] \notin Fp
    BY <1>2, ObservedLabel
  <1>4. l = "post" => created = {}
    BY <1>3, Zenon DEF IInv, OneCreated, AtMostOneCreatedRow, Present
  <1>5. i \in Id \cup {NoId}
    BY ExactIdType, Zenon
  <1> HIDE DEF l, i
  <1>6. /\ s \in State /\ s.pc = l /\ s.copy = at[p].copy
        /\ s.op.kind = at[p].op.kind /\ s.op.fp = at[p].op.fp
    <2>1. l \in Labels
      BY <1>3, Zenon DEF Labels
    <2> QED
      BY <1>1, <1>5, <2>1, Zenon DEF State, Op
  <1> HIDE DEF s
  <1>7. ASSUME at'[p] = s PROVE OpShape(p)' /\ CopyShape(p)' /\ HoldsClaim(p)' /\ Cleared(p)'
    <2>1. OpShape(p)' /\ CopyShape(p)'
      BY <1>1, <1>3, <1>6, <1>7, Zenon DEF Consistent, OpShape, CopyShape
    <2>2. HoldsClaim(p)'
      BY <1>1, <1>3, <1>6, <1>7, Zenon DEF Consistent, HoldsClaim, Holding, Labels
    <2>3. Cleared(p)'
      BY <1>1, <1>2, <1>3, <1>4, <1>6, <1>7, Zenon DEF Cleared, Relies, Same
    <2> QED
      BY <2>1, <2>2, <2>3, Zenon
  <1> QED
    BY <1>1, <1>3, <1>6, <1>7, MoveKeeps, Zenon

\* The POST fails.
LEMMA PostFailsKeeps == ASSUME IInv, NEW p \in Process, PostFails(p) PROVE IInv'
  <1>1. at[p].pc = "post" /\ Goto(p, "relist") /\ Same /\ Consistent(p)
    BY Zenon DEF PostFails, IInv
  <1>2. at'[p].pc = "relist" /\ at'[p].op = at[p].op /\ at'[p].copy = at[p].copy /\ claim' = claim
    BY <1>1, Goes, Zenon DEF Labels
  <1>3. OpShape(p)' /\ CopyShape(p)'
    BY <1>1, <1>2, Zenon DEF Consistent, OpShape, CopyShape
  <1>4. HoldsClaim(p)' /\ Cleared(p)'
    BY <1>1, <1>2, Zenon DEF Consistent, HoldsClaim, Holding, Labels, Cleared, Relies
  <1> QED
    BY <1>1, <1>3, <1>4, GotoKeeps, Zenon DEF Labels

\* The POST creates the only row: nobody else has a claim, or relies on there
\* being no row.
LEMMA PostCommitsKeeps == ASSUME IInv, NEW p \in Process, PostCommits(p) PROVE IInv'
  <1>1. /\ at[p].pc = "post" /\ Goto(p, "relist")
        /\ UNCHANGED <<twin, want, edits, changes, aborts>>
        /\ Consistent(p)
    BY Zenon DEF PostCommits, IInv
  <1>2. PICK i \in Id : /\ rows' = [rows EXCEPT ![i] = at[p].op.fp]
                       /\ created' = created \cup {i}
    BY Zenon DEF PostCommits
  <1>3. created = {} /\ claim # NoClaim /\ claim.cid = Cid[p] /\ claim.fin /\ at[p].op.fp \in Fp
    BY <1>1, Zenon DEF Consistent, Cleared, Relies, HoldsClaim, Holding, Labels, OpShape
  <1>4. /\ at' \in [Process -> State] /\ claim' = claim /\ fresh' = fresh
        /\ \A q \in Process \ {p} : at'[q] = at[q]
        /\ at'[p].pc = "relist" /\ at'[p].op = at[p].op /\ at'[p].copy = at[p].copy
        /\ CopyCurrent(p)'
    BY <1>1, Goes, ZenonT(60) DEF Labels
  <1>5. TypeOK' /\ OneCreated'
    <2>1. rows' \in [Id -> RowValue] /\ rows'[i] \in Fp /\ created' = {i}
      BY <1>2, <1>3, Zenon DEF IInv, TypeOK, RowValue
    <2> QED
      BY <1>1, <1>4, <2>1, Zenon DEF IInv, TypeOK, State, OneCreated, AtMostOneCreatedRow, Present
  <1>6. Consistent(p)'
    <2>1. OpShape(p)' /\ CopyShape(p)'
      BY <1>1, <1>4, Zenon DEF Consistent, OpShape, CopyShape
    <2>2. HoldsClaim(p)' /\ Cleared(p)'
      BY <1>3, <1>4, Zenon DEF HoldsClaim, Cleared, Relies
    <2> QED
      BY <1>4, <2>1, <2>2, Zenon DEF Consistent
  <1>7. ASSUME NEW q \in Process \ {p} PROVE Consistent(q)'
    <2>1. Consistent(q) /\ at'[q] = at[q] /\ Cid[q] # Cid[p]
      BY <1>4, OwnershipAssumption, Zenon DEF IInv
    <2>2. at[q].pc \notin Holding
      BY <1>3, <2>1, Zenon DEF Consistent, HoldsClaim
    <2>3. at[q].pc \in {"reset", "delete"} => q \notin fresh
      BY <1>3, <2>1, Zenon DEF Consistent, CopyCurrent, CopyShape
    <2>4. Cleared(q)'
      BY <1>4, <2>1, <2>2, <2>3, Zenon DEF Cleared, Relies, Holding, Labels
    <2>5. OpShape(q)' /\ CopyCurrent(q)' /\ HoldsClaim(q)'
      BY <1>4, <2>1, Zenon DEF Consistent, OpShape, CopyCurrent, HoldsClaim
    <2>6. CopyShape(q)'
      BY <2>1, Zenon DEF Consistent, CopyShape
    <2> QED
      BY <2>4, <2>5, <2>6, Zenon DEF Consistent
  <1>8. Unfinalized'
    BY <1>3, <1>4, Zenon DEF Unfinalized
  <1> QED
    BY <1>5, <1>6, <1>7, <1>8, Zenon DEF IInv

\* The rows are listed again.
LEMMA RelistCreatedKeeps == ASSUME IInv, NEW p \in Process, RelistCreated(p) PROVE IInv'
  <1> DEFINE i == ExactId(rows, at[p].op.fp)
             s == [at[p] EXCEPT !.pc = "refresh", !.seen = rows, !.op.id = i]
  <1>1. /\ at[p].pc = "relist" /\ Moved(p, s) /\ Same /\ claim' = claim /\ Consistent(p)
        /\ at[p] \in State /\ rows \in [Id -> RowValue]
        /\ fresh' = fresh
    BY Zenon DEF RelistCreated, IInv, TypeOK, State
  <1>2. i \in Id \cup {NoId}
    BY <1>1, Zenon DEF ExactId, Exact
  <1> HIDE DEF i
  <1>3. /\ s \in State /\ s.pc = "refresh" /\ s.copy = at[p].copy
        /\ s.op.kind = at[p].op.kind /\ s.op.fp = at[p].op.fp /\ s.seen = rows
    BY <1>1, <1>2, ExactIdType, Zenon DEF State, Op, Labels
  <1> HIDE DEF s
  <1>4. ASSUME at'[p] = s PROVE OpShape(p)' /\ CopyShape(p)' /\ HoldsClaim(p)' /\ Cleared(p)'
    <2>1. OpShape(p)' /\ CopyShape(p)'
      BY <1>1, <1>2, <1>3, <1>4, Zenon DEF Consistent, OpShape, CopyShape
    <2>2. HoldsClaim(p)'
      BY <1>1, <1>2, <1>3, <1>4, Zenon DEF Consistent, HoldsClaim, Holding, Labels
    <2>3. Cleared(p)'
      BY <1>1, <1>2, <1>3, <1>4, Zenon
      DEF Consistent, Cleared, Relies, NothingSeen, Same, IInv, OneCreated, AtMostOneCreatedRow,
          Present
    <2> QED
      BY <2>1, <2>2, <2>3, Zenon
  <1> QED
    BY <1>1, <1>3, <1>4, MoveKeeps, Zenon

\* The claim is read again.
LEMMA RefreshClaimKeeps == ASSUME IInv, NEW p \in Process, RefreshClaim(p) PROVE IInv'
  <1> DEFINE l == IF claim = NoClaim THEN "idle"
                  ELSE Observed(at[p].seen, at[p].op.fp, claim.phase, "idle")
  <1>1. at[p].pc = "refresh" /\ Fetch(p, l) /\ Same /\ Consistent(p)
    BY Zenon DEF RefreshClaim, IInv
  <1>2. /\ l \in {"idle", "conflict", "confirm", "orphan"}
        /\ l = "orphan" => claim.phase = "Confirmed"
        /\ at[p].op.kind = "Create"
        /\ claim # NoClaim /\ claim.cid = Cid[p] /\ claim.fin
    BY <1>1, Zenon DEF Observed, Consistent, OpShape, HoldsClaim, Holding, Labels
  <1> HIDE DEF l
  <1>3. l \in Labels
    BY <1>2, Zenon DEF Labels
  <1>4. ASSUME l # "idle" PROVE OpShape(p)' /\ CopyShape(p)' /\ HoldsClaim(p)' /\ Cleared(p)'
    <2>1. /\ at'[p].pc = l /\ at'[p].op = at[p].op /\ at'[p].copy = claim
          /\ claim' = claim /\ created' = created
      BY <1>1, <1>3, <1>4, Fetches, Zenon DEF Same
    <2>2. OpShape(p)' /\ CopyShape(p)'
      BY <1>1, <1>2, <2>1, Zenon DEF Consistent, OpShape, CopyShape
    <2>3. HoldsClaim(p)' /\ Cleared(p)'
      BY <1>1, <1>2, <2>1, Zenon DEF Consistent, HoldsClaim, Holding, Labels, Cleared, Relies
    <2> QED
      BY <2>2, <2>3, Zenon
  <1> QED
    BY <1>1, <1>3, <1>4, FetchKeeps, Zenon

-----------------------------------------------------------------------------
(***************************************************************************)
(* Settling the claim.                                                     *)
(***************************************************************************)
\* The claim is to be confirmed.
LEMMA ConfirmKeeps == ASSUME IInv, NEW p \in Process, Confirm(p) PROVE IInv'
  <1> DEFINE l == Revalidated(p, ConfirmLabel(p, at[p].copy))
  <1>1. at[p].pc = "confirm" /\ Goto(p, l) /\ Same /\ Consistent(p)
    BY Zenon DEF Confirm, IInv
  <1>2. /\ l \in {"idle", "conflict", "bind", "confirmed"}
        /\ l \in {"bind", "confirmed"} => at[p].copy.phase \in {"Reserved", "Orphaned", "Confirmed"}
        /\ l = "bind" => at[p].copy.pid = NoId
    BY <1>1, Zenon DEF Revalidated, ConfirmLabel
  <1> HIDE DEF l
  <1>3. l \in Labels
    BY <1>2, Zenon DEF Labels
  <1>4. ASSUME l # "idle" PROVE OpShape(p)' /\ CopyShape(p)' /\ HoldsClaim(p)' /\ Cleared(p)'
    <2>1. /\ at'[p].pc = l /\ at'[p].op = at[p].op /\ at'[p].copy = at[p].copy
          /\ claim' = claim /\ created' = created
      BY <1>1, <1>3, <1>4, Goes, Zenon DEF Same
    <2>2. OpShape(p)' /\ CopyShape(p)'
      BY <1>1, <1>2, <2>1, Zenon DEF Consistent, OpShape, CopyShape
    <2>3. HoldsClaim(p)' /\ Cleared(p)'
      BY <1>1, <1>2, <2>1, Zenon DEF Consistent, HoldsClaim, Holding, Labels, Cleared, Relies
    <2> QED
      BY <2>2, <2>3, Zenon
  <1> QED
    BY <1>1, <1>3, <1>4, GotoKeeps, Zenon

\* The claim is bound to the row.
LEMMA BindProviderIDKeeps == ASSUME IInv, NEW p \in Process, BindProviderID(p) PROVE IInv'
  <1> DEFINE c == [at[p].copy EXCEPT !.pid = at[p].op.id]
  <1>1. at[p].pc = "bind" /\ Write(p, c, "confirmed") /\ Same /\ Consistent(p)
    BY Zenon DEF BindProviderID, IInv
  <1>2. at[p].copy \in Claim /\ at[p].copy.cid = Cid[p] /\ at[p].op.id \in Id \cup {NoId}
    BY <1>1, Zenon DEF Consistent, CopyShape, OpShape, IInv, TypeOK, State, Op
  <1>3. c # NoClaim /\ c \in Claim /\ c.cid = at[p].copy.cid /\ c.fin = at[p].copy.fin
        /\ c.phase = at[p].copy.phase
    <2>1. /\ c \in Claim /\ c.cid = at[p].copy.cid
          /\ c.fin = at[p].copy.fin /\ c.phase = at[p].copy.phase
      BY <1>2, Zenon DEF Claim, Phases
    <2> QED
      BY <2>1, ClaimFields, Zenon
  <1> HIDE DEF c
  <1>4. p \in fresh => claim.cid = Cid[p] /\ c.fin
    BY <1>1, <1>3, OwnCopy, ZenonT(60) DEF Holding, Labels
  <1>5. ASSUME p \in fresh PROVE OpShape(p)' /\ CopyShape(p)' /\ HoldsClaim(p)' /\ Cleared(p)'
    <2>1. at'[p].pc = "confirmed" /\ at'[p].op = at[p].op /\ at'[p].copy = c /\ claim' = c
      BY <1>1, <1>3, <1>5, Writes, SMTT(60) DEF Labels
    <2>2. OpShape(p)' /\ CopyShape(p)'
      BY <1>1, <1>3, <2>1, Zenon DEF Consistent, OpShape, CopyShape
    <2>3. HoldsClaim(p)' /\ Cleared(p)'
      BY <1>1, <1>3, <1>4, <1>5, <2>1, Zenon DEF Consistent, CopyShape, HoldsClaim, Cleared, Relies
    <2> QED
      BY <2>2, <2>3, Zenon
  <1> QED
    BY <1>1, <1>3, <1>4, <1>5, WriteKeeps, Zenon DEF Labels

\* The claim is confirmed.
LEMMA MarkConfirmedKeeps == ASSUME IInv, NEW p \in Process, MarkConfirmed(p) PROVE IInv'
  <1> DEFINE c == [at[p].copy EXCEPT !.phase = "Confirmed"]
  <1>1. at[p].pc = "confirmed" /\ Write(p, c, "idle") /\ Same /\ Consistent(p)
    BY Zenon DEF MarkConfirmed, Transition, IInv
  <1>2. at[p].copy \in Claim /\ at[p].copy.cid = Cid[p]
    BY <1>1, Zenon DEF Consistent, CopyShape, OpShape, IInv, TypeOK, State, Op
  <1>3. c # NoClaim /\ c \in Claim /\ c.cid = at[p].copy.cid /\ c.fin = at[p].copy.fin
        /\ c.phase = "Confirmed"
    <2>1. c \in Claim /\ c.cid = at[p].copy.cid /\ c.fin = at[p].copy.fin /\ c.phase = "Confirmed"
      BY <1>2, Zenon DEF Claim, Phases
    <2> QED
      BY <2>1, ClaimFields, Zenon
  <1> HIDE DEF c
  <1>4. p \in fresh => claim.cid = Cid[p] /\ c.fin
    BY <1>1, <1>3, OwnCopy, Zenon DEF Holding, Labels
  <1> QED
    BY <1>1, <1>3, <1>4, WriteKeeps, Zenon DEF Labels

\* A claim, of whichever controller, is marked.
LEMMA MarkConflictKeeps == ASSUME IInv, NEW p \in Process, MarkConflict(p) PROVE IInv'
  <1> DEFINE c == [at[p].copy EXCEPT !.phase = "Conflict"]
  <1>1. at[p].pc = "conflict" /\ Write(p, c, "idle") /\ Same /\ Consistent(p)
    BY Zenon DEF MarkConflict, Transition, IInv
  <1>2. at[p].copy \in Claim
    BY <1>1, Zenon DEF Consistent, CopyShape, OpShape, IInv, TypeOK, State, Op
  <1>3. c # NoClaim /\ c \in Claim /\ c.cid = at[p].copy.cid /\ c.fin = at[p].copy.fin
        /\ c.phase = "Conflict"
    <2>1. c \in Claim /\ c.cid = at[p].copy.cid /\ c.fin = at[p].copy.fin /\ c.phase = "Conflict"
      BY <1>2, Zenon DEF Claim, Phases
    <2> QED
      BY <2>1, ClaimFields, Zenon
  <1> HIDE DEF c
  <1>4. p \in fresh => /\ c.cid = claim.cid /\ c.fin = claim.fin
                       /\ ~c.fin => created = {}
    BY <1>1, <1>3, OwnCopy, Zenon DEF Holding, Labels
  <1> QED
    BY <1>1, <1>3, <1>4, WriteKeeps, Zenon DEF Labels

\* The row of the claim is gone.
LEMMA MarkOrphanedKeeps == ASSUME IInv, NEW p \in Process, MarkOrphaned(p) PROVE IInv'
  <1> DEFINE c == [at[p].copy EXCEPT !.phase = "Orphaned"]
             l == IF at[p].op.kind = "Delete" THEN "release" ELSE "idle"
  <1>1. at[p].pc = "orphan" /\ Write(p, c, l) /\ Same /\ Consistent(p)
    BY Zenon DEF MarkOrphaned, Transition, IInv
  <1>2. at[p].copy \in Claim /\ at[p].copy.cid = Cid[p]
    BY <1>1, Zenon DEF Consistent, CopyShape, OpShape, IInv, TypeOK, State, Op
  <1>3. c # NoClaim /\ c \in Claim /\ c.cid = at[p].copy.cid /\ c.fin = at[p].copy.fin
        /\ c.phase = "Orphaned"
    <2>1. c \in Claim /\ c.cid = at[p].copy.cid /\ c.fin = at[p].copy.fin /\ c.phase = "Orphaned"
      BY <1>2, Zenon DEF Claim, Phases
    <2> QED
      BY <2>1, ClaimFields, Zenon
  <1> HIDE DEF c
  <1>4. p \in fresh => claim.cid = Cid[p] /\ c.fin
    BY <1>1, <1>3, OwnCopy, Zenon DEF Holding, Labels
  <1>5. l \in Labels /\ l \in {"release", "idle"} /\ (l = "release" => at[p].op.kind = "Delete")
    BY Zenon DEF Labels
  <1> HIDE DEF l
  <1>6. ASSUME p \in fresh, l # "idle"
        PROVE  OpShape(p)' /\ CopyShape(p)' /\ HoldsClaim(p)' /\ Cleared(p)'
    <2>1. /\ at'[p].pc = l /\ at'[p].op = at[p].op /\ at'[p].copy = c /\ claim' = c
          /\ created' = created
      BY <1>1, <1>3, <1>5, <1>6, Writes, Zenon DEF Same
    <2>2. OpShape(p)' /\ CopyShape(p)'
      BY <1>1, <1>3, <1>5, <1>6, <2>1, Zenon DEF Consistent, OpShape, CopyShape
    <2>3. HoldsClaim(p)' /\ Cleared(p)'
      BY <1>1, <1>3, <1>4, <1>5, <1>6, <2>1, Zenon
         DEF Consistent, CopyShape, HoldsClaim, Cleared, Relies
    <2> QED
      BY <2>2, <2>3, Zenon
  <1> QED
    BY <1>1, <1>3, <1>4, <1>5, <1>6, WriteKeeps, Zenon

-----------------------------------------------------------------------------
(***************************************************************************)
(* Updating and deleting the row.                                          *)
(***************************************************************************)
\* The claim of the row is read.
LEMMA GetClaimKeeps == ASSUME IInv, NEW p \in Process, GetClaim(p) PROVE IInv'
  <1> DEFINE l == IF claim = NoClaim THEN "idle" ELSE "snapshot"
  <1>1. at[p].pc = "get" /\ Fetch(p, l) /\ Same /\ Consistent(p)
    BY Zenon DEF GetClaim, IInv
  <1>2. /\ l \in {"idle", "snapshot"}
        /\ claim # NoClaim /\ claim.cid = Cid[p] /\ claim.fin
    BY <1>1, Zenon DEF Consistent, HoldsClaim, Holding, Labels
  <1> HIDE DEF l
  <1>3. l \in Labels
    BY <1>2, Zenon DEF Labels
  <1>4. ASSUME l # "idle" PROVE OpShape(p)' /\ CopyShape(p)' /\ HoldsClaim(p)' /\ Cleared(p)'
    <2>1. /\ at'[p].pc = l /\ at'[p].op = at[p].op /\ at'[p].copy = claim
          /\ claim' = claim /\ created' = created
      BY <1>1, <1>3, <1>4, Fetches, Zenon DEF Same
    <2>2. OpShape(p)' /\ CopyShape(p)'
      BY <1>1, <1>2, <2>1, Zenon DEF Consistent, OpShape, CopyShape
    <2>3. HoldsClaim(p)' /\ Cleared(p)'
      BY <1>1, <1>2, <2>1, Zenon DEF Consistent, HoldsClaim, Holding, Labels, Cleared, Relies
    <2> QED
      BY <2>2, <2>3, Zenon
  <1> QED
    BY <1>1, <1>3, <1>4, FetchKeeps, Zenon

\* The rows are listed before the mutation.
LEMMA TakeSnapshotKeeps == ASSUME IInv, NEW p \in Process, TakeSnapshot(p) PROVE IInv'
  <1> DEFINE s == [at[p] EXCEPT !.pc = "authorize", !.seen = rows]
  <1>1. /\ at[p].pc = "snapshot" /\ Moved(p, s) /\ Same /\ claim' = claim /\ Consistent(p)
        /\ at[p] \in State /\ rows \in [Id -> RowValue]
        /\ fresh' = fresh
    BY Zenon DEF TakeSnapshot, IInv, TypeOK, State
  <1>3. /\ s \in State /\ s.pc = "authorize" /\ s.copy = at[p].copy
        /\ s.op.kind = at[p].op.kind /\ s.op.fp = at[p].op.fp /\ s.seen = rows
    BY <1>1, Zenon DEF State, Labels
  <1> HIDE DEF s
  <1>4. ASSUME at'[p] = s PROVE OpShape(p)' /\ CopyShape(p)' /\ HoldsClaim(p)' /\ Cleared(p)'
    <2>1. OpShape(p)' /\ CopyShape(p)'
      BY <1>1, <1>3, <1>4, Zenon DEF Consistent, OpShape, CopyShape
    <2>2. HoldsClaim(p)'
      BY <1>1, <1>3, <1>4, Zenon DEF Consistent, HoldsClaim, Holding, Labels
    <2>3. Cleared(p)'
      BY <1>1, <1>3, <1>4, Zenon
      DEF Consistent, Cleared, Relies, NothingSeen, Same, IInv, OneCreated, AtMostOneCreatedRow,
          Present
    <2> QED
      BY <2>1, <2>2, <2>3, Zenon
  <1> QED
    BY <1>1, <1>3, <1>4, MoveKeeps, Zenon

\* The rows are listed once more.
LEMMA RelistBeforeMutationKeeps ==
    ASSUME IInv, NEW p \in Process, RelistBeforeMutation(p)
    PROVE  IInv'
  <1> DEFINE l == IF rows # at[p].seen \/ at[p].copy.phase # "Confirmed" THEN "idle"
                  ELSE "revalidate"
  <1>1. at[p].pc = "authorize" /\ Goto(p, l) /\ Same /\ Consistent(p)
    BY Zenon DEF RelistBeforeMutation, IInv
  <1>2. /\ l \in {"idle", "revalidate"}
        /\ l = "revalidate" => at[p].copy.phase = "Confirmed"
    BY Zenon
  <1> HIDE DEF l
  <1>3. l \in Labels
    BY <1>2, Zenon DEF Labels
  <1>4. ASSUME l # "idle" PROVE OpShape(p)' /\ CopyShape(p)' /\ HoldsClaim(p)' /\ Cleared(p)'
    <2>1. /\ at'[p].pc = l /\ at'[p].op = at[p].op /\ at'[p].copy = at[p].copy
          /\ claim' = claim /\ created' = created
      BY <1>1, <1>3, <1>4, Goes, Zenon DEF Same
    <2>2. OpShape(p)' /\ CopyShape(p)'
      BY <1>1, <1>2, <2>1, Zenon DEF Consistent, OpShape, CopyShape
    <2>3. HoldsClaim(p)' /\ Cleared(p)'
      BY <1>1, <1>2, <2>1, Zenon DEF Consistent, HoldsClaim, Holding, Labels, Cleared, Relies
    <2> QED
      BY <2>2, <2>3, Zenon
  <1> QED
    BY <1>1, <1>3, <1>4, GotoKeeps, Zenon

\* The mutation is authorized, or not.
LEMMA AuthorizeMutationKeeps == ASSUME IInv, NEW p \in Process, AuthorizeMutation(p) PROVE IInv'
  <1> DEFINE c == at[p].copy
             evidence == c.pid # NoId /\ at[p].seen[c.pid] = c.fp
             l == Revalidated(p, IF c.pid = NoId THEN "idle"
                                 ELSE IF evidence THEN "mutate" ELSE "conflict")
  <1>1. at[p].pc = "revalidate" /\ Goto(p, l) /\ Same /\ Consistent(p)
    BY Zenon DEF AuthorizeMutation, IInv
  <1>2. /\ l \in {"idle", "conflict", "mutate"}
        /\ at[p].copy.phase = "Confirmed"
    BY <1>1, Zenon DEF Revalidated, Consistent, CopyShape
  <1> HIDE DEF l
  <1>3. l \in Labels
    BY <1>2, Zenon DEF Labels
  <1>4. ASSUME l # "idle" PROVE OpShape(p)' /\ CopyShape(p)' /\ HoldsClaim(p)' /\ Cleared(p)'
    <2>1. /\ at'[p].pc = l /\ at'[p].op = at[p].op /\ at'[p].copy = at[p].copy
          /\ claim' = claim /\ created' = created
      BY <1>1, <1>3, <1>4, Goes, Zenon DEF Same
    <2>2. OpShape(p)' /\ CopyShape(p)'
      BY <1>1, <1>2, <2>1, Zenon DEF Consistent, OpShape, CopyShape
    <2>3. HoldsClaim(p)' /\ Cleared(p)'
      BY <1>1, <1>2, <2>1, Zenon DEF Consistent, HoldsClaim, Holding, Labels, Cleared, Relies
    <2> QED
      BY <2>2, <2>3, Zenon
  <1> QED
    BY <1>1, <1>3, <1>4, GotoKeeps, Zenon

\* A committed mutation creates no row.
LEMMA CommitTyped ==
    ASSUME IInv, NEW p \in Process, at[p].pc = "mutate", Commit(p),
           at' \in [Process -> State], claim' = claim, fresh' \subseteq Process
    PROVE  TypeOK' /\ OneCreated' /\ Unfinalized' /\ created' \subseteq created
  <1> DEFINE o == at[p].op
             v == IF o.kind = "Delete" THEN NoRow ELSE o.fp
  <1>1. /\ rows' = [rows EXCEPT ![o.id] = v]
        /\ created' = IF o.kind = "Delete" THEN created \ {o.id} ELSE created
        /\ UNCHANGED <<twin, want, edits, changes, aborts>>
    BY Zenon DEF Commit
  <1>2. o.kind \in {"Update", "Delete"} /\ (o.kind = "Update" => o.fp \in Fp)
    BY Zenon DEF IInv, Consistent, OpShape
  <1>3. v \in RowValue /\ (o.kind = "Update" => v \in Fp)
    BY <1>2, Zenon DEF RowValue
  <1> HIDE DEF v
  <1>4. rows' \in [Id -> RowValue]
    BY <1>1, <1>3, Zenon DEF IInv, TypeOK
  <1>5. TypeOK'
    BY <1>1, <1>4, Zenon DEF IInv, TypeOK, State
  <1>6. OneCreated' /\ created' \subseteq created
    BY <1>1, <1>2, <1>3, <1>4, Zenon DEF IInv, TypeOK, OneCreated, AtMostOneCreatedRow, Present
  <1> QED
    BY <1>5, <1>6, Zenon DEF IInv, Unfinalized

\* The mutation commits and is reported.
LEMMA MutateCommitsKeeps == ASSUME IInv, NEW p \in Process, MutateCommits(p) PROVE IInv'
  <1>1. at[p].pc = "mutate" /\ Commit(p) /\ Goto(p, "after") /\ Consistent(p)
    BY Zenon DEF MutateCommits, IInv
  <1>2. /\ at' \in [Process -> State] /\ claim' = claim /\ fresh' = fresh
        /\ \A q \in Process \ {p} : at'[q] = at[q]
        /\ at'[p].pc = "after" /\ at'[p].op = at[p].op /\ at'[p].copy = at[p].copy
        /\ CopyCurrent(p)'
    BY <1>1, Goes, ZenonT(60) DEF Labels
  <1>3. TypeOK' /\ OneCreated' /\ Unfinalized' /\ created' \subseteq created
    BY <1>1, <1>2, CommitTyped, Zenon DEF IInv, TypeOK
  <1>4. OpShape(p)' /\ CopyShape(p)'
    BY <1>1, <1>2, Zenon DEF Consistent, OpShape, CopyShape
  <1>5. HoldsClaim(p)' /\ Cleared(p)'
    BY <1>1, <1>2, Zenon DEF Consistent, HoldsClaim, Holding, Labels, Cleared, Relies
  <1>6. Consistent(p)'
    BY <1>2, <1>4, <1>5, Zenon DEF Consistent
  <1> QED
    BY <1>2, <1>3, <1>6, StepKeeps, Zenon

\* The mutation commits and an error is reported.
LEMMA MutateResponseLostKeeps == ASSUME IInv, NEW p \in Process, MutateResponseLost(p) PROVE IInv'
  <1>1. at[p].pc = "mutate" /\ Commit(p) /\ Goto(p, "idle")
    BY Zenon DEF MutateResponseLost
  <1>2. /\ at' \in [Process -> State] /\ claim' = claim /\ fresh' \subseteq Process
        /\ \A q \in Process \ {p} : at'[q] = at[q] /\ (q \in fresh' => q \in fresh)
        /\ Consistent(p)'
    BY <1>1, Goes, Zenon DEF Labels
  <1>3. TypeOK' /\ OneCreated' /\ Unfinalized' /\ created' \subseteq created
    BY <1>1, <1>2, CommitTyped, Zenon
  <1> QED
    BY <1>2, <1>3, StepKeeps, Zenon

\* The mutation fails.
LEMMA MutateFailsKeeps == ASSUME IInv, NEW p \in Process, MutateFails(p) PROVE IInv'
  BY GotoKeeps, Zenon DEF MutateFails, Labels

\* The rows are listed after the mutation.
LEMMA RelistMutatedKeeps == ASSUME IInv, NEW p \in Process, RelistMutated(p) PROVE IInv'
  <1> DEFINE l == IF at[p].op.kind = "Delete" THEN "reconcile"
                  ELSE IF rows[at[p].op.id] = at[p].op.fp THEN "rebind" ELSE "idle"
             s == [at[p] EXCEPT !.pc = l, !.seen = rows]
  <1>1. /\ at[p].pc = "after" /\ Moved(p, s) /\ Same /\ claim' = claim /\ Consistent(p)
        /\ at[p] \in State /\ rows \in [Id -> RowValue]
        /\ fresh' = IF l = "idle" THEN fresh \ {p} ELSE fresh
    BY Zenon DEF RelistMutated, IInv, TypeOK, State
  <1>2. /\ l \in {"idle", "reconcile", "rebind"}
        /\ l = "reconcile" => at[p].op.kind = "Delete"
        /\ l = "rebind" => at[p].op.kind # "Delete"
    BY <1>1, Zenon DEF Labels
  <1> HIDE DEF l
  <1>3. /\ s \in State /\ s.pc = l /\ s.copy = at[p].copy
        /\ s.op.kind = at[p].op.kind /\ s.op.fp = at[p].op.fp /\ s.seen = rows
    BY <1>1, <1>2, Zenon DEF State, Labels
  <1> HIDE DEF s
  <1>4. ASSUME l # "idle", at'[p] = s
        PROVE  OpShape(p)' /\ CopyShape(p)' /\ HoldsClaim(p)' /\ Cleared(p)'
    <2>1. OpShape(p)' /\ CopyShape(p)'
      BY <1>1, <1>2, <1>3, <1>4, Zenon DEF Consistent, OpShape, CopyShape
    <2>2. HoldsClaim(p)'
      BY <1>1, <1>2, <1>3, <1>4, Zenon DEF Consistent, HoldsClaim, Holding, Labels
    <2>3. Cleared(p)'
      BY <1>1, <1>2, <1>3, <1>4, Zenon
      DEF Consistent, Cleared, Relies, NothingSeen, Same, IInv, OneCreated, AtMostOneCreatedRow,
          Present
    <2> QED
      BY <2>1, <2>2, <2>3, Zenon
  <1> QED
    BY <1>1, <1>3, <1>4, MoveKeeps, Zenon

\* The claim is compared with the rows seen after the mutation.
LEMMA ReconcileClaimKeeps == ASSUME IInv, NEW p \in Process, ReconcileClaim(p) PROVE IInv'
  <1> DEFINE c == at[p].copy
             zone == at[p].seen
             k == IF Disputed(zone, c.fp) THEN "conflict"
                  ELSE IF Exact(zone, c.fp) = {}
                  THEN IF c.phase = "Reserved" THEN "idle" ELSE "orphan"
                  ELSE IF c.pid # NoId /\ ExactId(zone, c.fp) # c.pid THEN "conflict"
                  ELSE "confirm"
             l == Revalidated(p, k)
             i == ExactId(zone, c.fp)
             s == [at[p] EXCEPT !.pc = l, !.op.id = i]
  <1>1. /\ at[p].pc = "reconcile" /\ Moved(p, s) /\ Same /\ claim' = claim /\ Consistent(p)
        /\ at[p] \in State /\ rows \in [Id -> RowValue]
        /\ fresh' = IF l = "idle" THEN fresh \ {p} ELSE fresh
    BY Zenon DEF ReconcileClaim, IInv, TypeOK, State
  <1>2. /\ l \in {"idle", "conflict", "orphan", "confirm"}
        /\ l = "orphan" => at[p].copy.phase # "Reserved" /\ NothingSeen(p)
        /\ i \in Id \cup {NoId}
    BY <1>1, Zenon DEF Revalidated, Disputed, Divergent, Exact, ExactId, NothingSeen
  <1> HIDE DEF c, zone, k, l, i
  <1>3. /\ s \in State /\ s.pc = l /\ s.copy = at[p].copy
        /\ s.op.kind = at[p].op.kind /\ s.op.fp = at[p].op.fp /\ s.seen = at[p].seen
    BY <1>1, <1>2, ExactIdType, ZenonT(60) DEF State, Op, Labels
  <1> HIDE DEF s
  <1>4. ASSUME l # "idle", at'[p] = s
        PROVE  OpShape(p)' /\ CopyShape(p)' /\ HoldsClaim(p)' /\ Cleared(p)'
    <2>1. OpShape(p)' /\ CopyShape(p)'
      BY <1>1, <1>2, <1>3, <1>4, Zenon DEF Consistent, OpShape, CopyShape
    <2>2. HoldsClaim(p)'
      BY <1>1, <1>2, <1>3, <1>4, Zenon DEF Consistent, HoldsClaim, Holding, Labels
    <2>3. Cleared(p)'
      BY <1>1, <1>2, <1>3, <1>4, Zenon
      DEF Consistent, Cleared, Relies, NothingSeen, Same, IInv, OneCreated, AtMostOneCreatedRow,
          Present
    <2> QED
      BY <2>1, <2>2, <2>3, Zenon
  <1> QED
    BY <1>1, <1>3, <1>4, MoveKeeps, Zenon

\* The finalizer is to be released.
LEMMA ReleaseClaimFinalizerKeeps ==
    ASSUME IInv, NEW p \in Process, ReleaseClaimFinalizer(p)
    PROVE  IInv'
  <1> DEFINE c == at[p].copy
             gone == /\ c.pid # NoId => at[p].seen[c.pid] = NoRow
                     /\ Exact(at[p].seen, c.fp) = {}
             l == Revalidated(p, IF gone THEN "unfinalize" ELSE "idle")
  <1>1. at[p].pc = "release" /\ Goto(p, l) /\ Same /\ Consistent(p)
    BY Zenon DEF ReleaseClaimFinalizer, IInv
  <1>2. l \in {"idle", "conflict", "unfinalize"}
    BY <1>1, Zenon DEF Revalidated
  <1> HIDE DEF l
  <1>3. l \in Labels
    BY <1>2, Zenon DEF Labels
  <1>4. ASSUME l # "idle" PROVE OpShape(p)' /\ CopyShape(p)' /\ HoldsClaim(p)' /\ Cleared(p)'
    <2>1. /\ at'[p].pc = l /\ at'[p].op = at[p].op /\ at'[p].copy = at[p].copy
          /\ claim' = claim /\ created' = created
      BY <1>1, <1>3, <1>4, Goes, Zenon DEF Same
    <2>2. OpShape(p)' /\ CopyShape(p)'
      BY <1>1, <1>2, <2>1, Zenon DEF Consistent, OpShape, CopyShape
    <2>3. HoldsClaim(p)' /\ Cleared(p)'
      BY <1>1, <1>2, <2>1, Zenon DEF Consistent, HoldsClaim, Holding, Labels, Cleared, Relies
    <2> QED
      BY <2>2, <2>3, Zenon
  <1> QED
    BY <1>1, <1>3, <1>4, GotoKeeps, Zenon

\* The finalizer, or the claim, is removed.
LEMMA ReleaseFinalizerKeeps == ASSUME IInv, NEW p \in Process, ReleaseFinalizer(p) PROVE IInv'
  <1> DEFINE c == [at[p].copy EXCEPT !.fin = FALSE]
  <1>1. at[p].pc = "unfinalize" /\ Same /\ Consistent(p)
    BY Zenon DEF ReleaseFinalizer, IInv
  <1>2. /\ at[p].copy \in Claim /\ at[p].copy.cid = Cid[p] /\ at[p].copy.phase = "Orphaned"
        /\ at[p].op.kind = "Delete" /\ created = {} /\ created' = created
    BY <1>1, Zenon DEF Consistent, CopyShape, OpShape, Cleared, Relies, Same, IInv, TypeOK
  <1>3. p \in fresh => claim.cid = Cid[p]
    BY <1>1, OwnCopy, Zenon
  <1>4. CASE Goto(p, "conflict")
    <2>1. at'[p].pc = "conflict" /\ at'[p].op = at[p].op /\ at'[p].copy = at[p].copy
      BY <1>4, Goes, Zenon DEF Labels
    <2>2. OpShape(p)' /\ CopyShape(p)'
      BY <1>1, <1>2, <2>1, Zenon DEF Consistent, OpShape, CopyShape
    <2>3. HoldsClaim(p)' /\ Cleared(p)'
      BY <2>1, Zenon DEF HoldsClaim, Holding, Cleared, Relies
    <2> QED
      BY <1>1, <1>4, <2>2, <2>3, GotoKeeps, Zenon DEF Labels
  <1>5. CASE Write(p, NoClaim, "idle")
    BY <1>1, <1>3, <1>5, WriteKeeps, Zenon DEF Labels
  <1>6. CASE Write(p, c, "delete")
    <2>1. c \in Claim /\ c # NoClaim /\ c.cid = Cid[p] /\ c.phase = "Orphaned"
      <3>1. c \in Claim /\ c.cid = Cid[p] /\ c.phase = "Orphaned"
        BY <1>2, Zenon DEF Claim
      <3> QED
        BY <3>1, ClaimFields, Zenon
    <2> HIDE DEF c
    <2>2. ASSUME p \in fresh PROVE OpShape(p)' /\ CopyShape(p)' /\ HoldsClaim(p)' /\ Cleared(p)'
      <3>1. at'[p].pc = "delete" /\ at'[p].op = at[p].op /\ at'[p].copy = c
        BY <1>6, <2>1, <2>2, Writes, ZenonT(60) DEF Labels
      <3>2. OpShape(p)' /\ CopyShape(p)'
        BY <1>1, <1>2, <2>1, <3>1, Zenon DEF Consistent, OpShape, CopyShape
      <3>3. HoldsClaim(p)' /\ Cleared(p)'
        BY <1>2, <3>1, Zenon DEF HoldsClaim, Holding, Cleared
      <3> QED
        BY <3>2, <3>3, Zenon
    <2> QED
      BY <1>1, <1>2, <1>3, <1>6, <2>1, <2>2, WriteKeeps, Zenon DEF Labels
  <1> QED
    BY <1>4, <1>5, <1>6, Zenon DEF ReleaseFinalizer

\* The claim is removed.
LEMMA DeleteClaimKeeps == ASSUME IInv, NEW p \in Process, DeleteClaim(p) PROVE IInv'
  <1>1. at[p].pc = "delete" /\ Write(p, NoClaim, "idle") /\ Same
    BY Zenon DEF DeleteClaim
  <1>2. p \in fresh => claim.cid = Cid[p]
    BY <1>1, OwnCopy, Zenon
  <1> QED
    BY <1>1, <1>2, WriteKeeps, Zenon DEF Labels

\* The claim is to have the new fingerprint.
LEMMA RebindConfirmedKeeps == ASSUME IInv, NEW p \in Process, RebindConfirmed(p) PROVE IInv'
  <1> DEFINE c == at[p].copy
             l == Revalidated(p, IF c.phase # "Confirmed" \/ c.pid # at[p].op.id
                                 THEN "idle" ELSE "fingerprint")
  <1>1. at[p].pc = "rebind" /\ Goto(p, l) /\ Same /\ Consistent(p)
    BY Zenon DEF RebindConfirmed, IInv
  <1>2. /\ l \in {"idle", "conflict", "fingerprint"}
        /\ l = "fingerprint" => at[p].copy.phase = "Confirmed"
    BY <1>1, Zenon DEF Revalidated
  <1> HIDE DEF l
  <1>3. l \in Labels
    BY <1>2, Zenon DEF Labels
  <1>4. ASSUME l # "idle" PROVE OpShape(p)' /\ CopyShape(p)' /\ HoldsClaim(p)' /\ Cleared(p)'
    <2>1. /\ at'[p].pc = l /\ at'[p].op = at[p].op /\ at'[p].copy = at[p].copy
          /\ claim' = claim /\ created' = created
      BY <1>1, <1>3, <1>4, Goes, Zenon DEF Same
    <2>2. OpShape(p)' /\ CopyShape(p)'
      BY <1>1, <1>2, <2>1, Zenon DEF Consistent, OpShape, CopyShape
    <2>3. HoldsClaim(p)' /\ Cleared(p)'
      BY <1>1, <1>2, <2>1, Zenon DEF Consistent, HoldsClaim, Holding, Labels, Cleared, Relies
    <2> QED
      BY <2>2, <2>3, Zenon
  <1> QED
    BY <1>1, <1>3, <1>4, GotoKeeps, Zenon

\* The claim has the new fingerprint.
LEMMA UpdateFingerprintKeeps == ASSUME IInv, NEW p \in Process, UpdateFingerprint(p) PROVE IInv'
  <1> DEFINE c == [at[p].copy EXCEPT !.fp = at[p].op.fp]
  <1>1. at[p].pc = "fingerprint" /\ Write(p, c, "confirmed") /\ Same /\ Consistent(p)
    BY Zenon DEF UpdateFingerprint, IInv
  <1>2. at[p].copy \in Claim /\ at[p].copy.cid = Cid[p] /\ at[p].op.fp \in Fp
    BY <1>1, Zenon DEF Consistent, CopyShape, OpShape, IInv, TypeOK, State, Op
  <1>3. c # NoClaim /\ c \in Claim /\ c.cid = at[p].copy.cid /\ c.fin = at[p].copy.fin
        /\ c.phase = at[p].copy.phase
    <2>1. /\ c \in Claim /\ c.cid = at[p].copy.cid
          /\ c.fin = at[p].copy.fin /\ c.phase = at[p].copy.phase
      BY <1>2, Zenon DEF Claim, Phases
    <2> QED
      BY <2>1, ClaimFields, Zenon
  <1> HIDE DEF c
  <1>4. p \in fresh => claim.cid = Cid[p] /\ c.fin
    BY <1>1, <1>3, OwnCopy, ZenonT(60) DEF Holding, Labels
  <1>5. ASSUME p \in fresh PROVE OpShape(p)' /\ CopyShape(p)' /\ HoldsClaim(p)' /\ Cleared(p)'
    <2>1. at'[p].pc = "confirmed" /\ at'[p].op = at[p].op /\ at'[p].copy = c /\ claim' = c
      BY <1>1, <1>3, <1>5, Writes, SMTT(60) DEF Labels
    <2>2. OpShape(p)' /\ CopyShape(p)'
      BY <1>1, <1>3, <2>1, Zenon DEF Consistent, OpShape, CopyShape
    <2>3. HoldsClaim(p)' /\ Cleared(p)'
      BY <1>1, <1>3, <1>4, <1>5, <2>1, Zenon DEF Consistent, CopyShape, HoldsClaim, Cleared, Relies
    <2> QED
      BY <2>2, <2>3, Zenon
  <1> QED
    BY <1>1, <1>3, <1>4, <1>5, WriteKeeps, Zenon DEF Labels

-----------------------------------------------------------------------------
(***************************************************************************)
(* Recovering interrupted operations.                                      *)
(***************************************************************************)
\* An interrupted operation of p is looked for.
LEMMA RecoverInterruptedKeeps == ASSUME IInv, NEW p \in Process, RecoverInterrupted(p) PROVE IInv'
  <1> DEFINE o == at[p].op
             mine == claim # NoClaim /\ ~claim.deleting /\ claim.cid = Cid[p]
             resumable == \/ claim.phase = "Reserved" /\ claim.fp = o.fp /\ claim.pid \in {NoId, o.id}
                          \/ claim.phase = "Confirmed" /\ claim.pid = o.id
             l == IF mine /\ resumable THEN "evidence" ELSE "idle"
  <1>1. at[p].pc = "interrupted" /\ Fetch(p, l) /\ Same /\ Consistent(p)
    BY Zenon DEF RecoverInterrupted, IInv
  <1>2. /\ l \in {"idle", "evidence"}
        /\ l = "evidence" => claim # NoClaim /\ claim.cid = Cid[p]
                           /\ claim.fin /\ claim.phase \in {"Reserved", "Confirmed"}
    BY <1>1, Zenon DEF IInv, TypeOK, Claim, Unfinalized
  <1> HIDE DEF l
  <1>3. l \in Labels
    BY <1>2, Zenon DEF Labels
  <1>4. ASSUME l # "idle" PROVE OpShape(p)' /\ CopyShape(p)' /\ HoldsClaim(p)' /\ Cleared(p)'
    <2>1. /\ at'[p].pc = l /\ at'[p].op = at[p].op /\ at'[p].copy = claim
          /\ claim' = claim /\ created' = created
      BY <1>1, <1>3, <1>4, Fetches, Zenon DEF Same
    <2>2. OpShape(p)' /\ CopyShape(p)'
      BY <1>1, <1>2, <2>1, Zenon DEF Consistent, OpShape, CopyShape
    <2>3. HoldsClaim(p)' /\ Cleared(p)'
      BY <1>1, <1>2, <2>1, Zenon DEF Consistent, HoldsClaim, Holding, Labels, Cleared, Relies
    <2> QED
      BY <2>2, <2>3, Zenon
  <1> QED
    BY <1>1, <1>3, <1>4, FetchKeeps, Zenon

\* The rows decide whether it goes on.
LEMMA InspectEvidenceKeeps == ASSUME IInv, NEW p \in Process, InspectEvidence(p) PROVE IInv'
  <1> DEFINE l == IF rows[at[p].op.id] # at[p].op.fp THEN "idle"
                  ELSE IF at[p].copy.phase = "Reserved" THEN "reconcile"
                  ELSE IF at[p].copy.fp = at[p].op.fp THEN "idle" ELSE "rebind"
             s == [at[p] EXCEPT !.pc = l, !.seen = rows]
  <1>1. /\ at[p].pc = "evidence" /\ Moved(p, s) /\ Same /\ claim' = claim /\ Consistent(p)
        /\ at[p] \in State /\ rows \in [Id -> RowValue]
        /\ fresh' = IF l = "idle" THEN fresh \ {p} ELSE fresh
    BY Zenon DEF InspectEvidence, IInv, TypeOK, State
  <1>2. l \in {"idle", "reconcile", "rebind"}
    BY <1>1, Zenon DEF Labels
  <1> HIDE DEF l
  <1>3. /\ s \in State /\ s.pc = l /\ s.copy = at[p].copy
        /\ s.op.kind = at[p].op.kind /\ s.op.fp = at[p].op.fp /\ s.seen = rows
    BY <1>1, <1>2, Zenon DEF State, Labels
  <1> HIDE DEF s
  <1>4. ASSUME l # "idle", at'[p] = s
        PROVE  OpShape(p)' /\ CopyShape(p)' /\ HoldsClaim(p)' /\ Cleared(p)'
    <2>1. OpShape(p)' /\ CopyShape(p)'
      BY <1>1, <1>2, <1>3, <1>4, Zenon DEF Consistent, OpShape, CopyShape
    <2>2. HoldsClaim(p)'
      BY <1>1, <1>2, <1>3, <1>4, Zenon DEF Consistent, HoldsClaim, Holding, Labels
    <2>3. Cleared(p)'
      BY <1>1, <1>2, <1>3, <1>4, Zenon
      DEF Consistent, Cleared, Relies, NothingSeen, Same, IInv, OneCreated, AtMostOneCreatedRow,
          Present
    <2> QED
      BY <2>1, <2>2, <2>3, Zenon
  <1> QED
    BY <1>1, <1>3, <1>4, MoveKeeps, Zenon

-----------------------------------------------------------------------------
(***************************************************************************)
(* The environment.                                                        *)
(***************************************************************************)
\* A process stops in the middle of an operation.
LEMMA AbortKeeps == ASSUME IInv, NEW p \in Process, Abort(p) PROVE IInv'
  <1>1. /\ Goto(p, "idle") /\ aborts < MaxAborts /\ aborts' = aborts + 1
        /\ UNCHANGED <<twin, rows, want, edits, changes, created>>
    BY Zenon DEF Abort
  <1>2. /\ at' \in [Process -> State] /\ claim' = claim /\ fresh' \subseteq Process
        /\ \A q \in Process \ {p} : at'[q] = at[q] /\ (q \in fresh' => q \in fresh)
        /\ Consistent(p)'
    BY <1>1, Goes, Zenon DEF Labels
  <1>3. aborts' \in 0..MaxAborts
    BY <1>1, OwnershipAssumption DEF IInv, TypeOK
  <1>4. TypeOK'
    BY <1>1, <1>2, <1>3, Zenon DEF IInv, TypeOK, State
  <1>5. OneCreated' /\ Unfinalized'
    BY <1>1, <1>2, Zenon DEF IInv, OneCreated, AtMostOneCreatedRow, Unfinalized, Present
  <1> QED
    BY <1>1, <1>2, <1>4, <1>5, StepKeeps, Zenon

\* People edit rows, delete the claim, make a second one, and change the sources.
LEMMA PeopleKeep == ASSUME IInv, People PROVE IInv'
  <1>1. ASSUME Edit PROVE edits' \in 0..MaxEdits
    BY <1>1, OwnershipAssumption DEF Edit, IInv, TypeOK
  <1>2. ASSUME NEW p \in Process, at' = at, fresh' = fresh, claim' = claim,
               created' \subseteq created
        PROVE  Consistent(p)'
    <2>1. Consistent(p)
      BY Zenon DEF IInv
    <2>2. OpShape(p)' /\ CopyShape(p)'
      BY <1>2, <2>1, ZenonT(60) DEF Consistent, OpShape, CopyShape
    <2>3. CopyCurrent(p)' /\ HoldsClaim(p)' /\ Cleared(p)'
      BY <1>2, <2>1, Zenon DEF Consistent, CopyCurrent, HoldsClaim, Cleared, Relies, NothingSeen
    <2> QED
      BY <2>2, <2>3, Zenon DEF Consistent
  <1>3. ASSUME NEW i \in Id, NEW v \in RowValue, EditRow(i, v) PROVE IInv'
    <2>1. /\ Edit /\ rows' = [rows EXCEPT ![i] = v] /\ created' = created \ {i}
          /\ UNCHANGED <<claim, twin, want, at, fresh, changes, aborts>>
      BY <1>3, Zenon DEF EditRow
    <2>2. TypeOK'
      BY <1>1, <2>1, Zenon DEF IInv, TypeOK
    <2>3. OneCreated' /\ Unfinalized'
      BY <2>1, Zenon DEF IInv, TypeOK, OneCreated, AtMostOneCreatedRow, Unfinalized, Present
    <2> QED
      BY <1>2, <2>1, <2>2, <2>3, Zenon DEF IInv
  <1>4. CASE UserDeletesClaim
    <2> DEFINE c == [claim EXCEPT !.deleting = TRUE]
    <2>1. /\ Edit /\ claim \in Claim /\ claim # NoClaim
          /\ claim' = IF claim.fin THEN c ELSE NoClaim
          /\ fresh' = IF claim' = claim THEN fresh ELSE {}
          /\ UNCHANGED <<twin, rows, want, at, changes, aborts, created>>
      BY <1>4, Zenon DEF UserDeletesClaim, IInv, TypeOK
    <2>2. c \in Claim /\ c # NoClaim /\ c.cid = claim.cid /\ c.fin = claim.fin
      <3>1. c \in Claim /\ c.cid = claim.cid /\ c.fin = claim.fin
        BY <2>1, Zenon DEF Claim
      <3> QED
        BY <3>1, ClaimFields, Zenon
    <2> HIDE DEF c
    <2>3. TypeOK'
      BY <1>1, <2>1, <2>2, Zenon DEF IInv, TypeOK
    <2>4. OneCreated' /\ Unfinalized'
      BY <2>1, <2>2, Zenon DEF IInv, OneCreated, AtMostOneCreatedRow, Unfinalized, Present
    <2>5. ASSUME NEW p \in Process PROVE Consistent(p)'
      <3>1. Consistent(p)
        BY Zenon DEF IInv
      <3>2. OpShape(p)' /\ CopyShape(p)'
        BY <2>1, <3>1, ZenonT(60) DEF Consistent, OpShape, CopyShape
      <3>3. CopyCurrent(p)' /\ HoldsClaim(p)'
        BY <2>1, <2>2, <3>1, Zenon DEF Consistent, CopyCurrent, HoldsClaim
      <3>4. Cleared(p)'
        BY <2>1, <3>1, Zenon DEF Consistent, Cleared, Relies, NothingSeen
      <3> QED
        BY <3>2, <3>3, <3>4, Zenon DEF Consistent
    <2> QED
      BY <2>3, <2>4, <2>5, Zenon DEF IInv
  <1>5. CASE ToggleTwin
    <2>1. TypeOK'
      BY <1>1, <1>5, Zenon DEF ToggleTwin, IInv, TypeOK
    <2> QED
      BY <1>2, <1>5, <2>1, Zenon
      DEF ToggleTwin, IInv, OneCreated, AtMostOneCreatedRow, Unfinalized, Present
  <1>6. ASSUME NEW p \in Process, NEW f \in Fp \cup {NoFp}, ChangeSources(p, f) PROVE IInv'
    <2>1. changes' \in 0..MaxEdits
      BY <1>6, OwnershipAssumption DEF ChangeSources, IInv, TypeOK
    <2>2. TypeOK'
      BY <1>6, <2>1, Zenon DEF ChangeSources, IInv, TypeOK
    <2> QED
      BY <1>2, <1>6, <2>2, Zenon
      DEF ChangeSources, IInv, OneCreated, AtMostOneCreatedRow, Unfinalized, Present
  <1> QED
    BY <1>3, <1>4, <1>5, <1>6, Zenon DEF People

-----------------------------------------------------------------------------
\* Every process is idle at the start, and a claim has its one row.
LEMMA InitEstablishes == ASSUME Init PROVE IInv
  <1>1. /\ at = [p \in Process |-> Idle] /\ fresh = {} /\ edits = 0 /\ changes = 0 /\ aborts = 0
        /\ twin = FALSE /\ want \in [Process -> Fp \cup {NoFp}]
    BY Zenon DEF Init
  <1>2. /\ claim \in Claim \cup {NoClaim} /\ rows \in [Id -> RowValue] /\ created \subseteq Id
        /\ OneCreated /\ Unfinalized
    <2>1. CASE claim = NoClaim /\ rows = Blank /\ created = {}
      BY <2>1, Zenon DEF Blank, RowValue, OneCreated, AtMostOneCreatedRow, Unfinalized
    <2>2. ASSUME NEW p \in Process, NEW i \in Id, NEW f \in Fp, claim = Bound(p, i, f),
                 rows = [Blank EXCEPT ![i] = f], created = {i}
          PROVE  /\ claim \in Claim /\ claim.fin /\ rows \in [Id -> RowValue] /\ rows[i] = f
      BY <2>2, Zenon DEF Bound, Claim, Phases, Blank, RowValue
    <2>3. CASE \E p \in Process, i \in Id, f \in Fp :
                 /\ claim = Bound(p, i, f) /\ rows = [Blank EXCEPT ![i] = f] /\ created = {i}
      BY <2>2, <2>3, Zenon DEF OneCreated, AtMostOneCreatedRow, Unfinalized, Present
    <2> QED
      BY <2>1, <2>3, Zenon DEF Init
  <1>3. TypeOK
    <2>1. at \in [Process -> State]
      BY <1>1, StateFields, Zenon
    <2>2. edits \in 0..MaxEdits /\ changes \in 0..MaxEdits /\ aborts \in 0..MaxAborts
      BY <1>1, OwnershipAssumption, SMTT(60)
    <2> QED
      BY <1>1, <1>2, <2>1, <2>2, Zenon DEF TypeOK, State
  <1>4. ASSUME NEW p \in Process PROVE Consistent(p)
    BY <1>1, StateFields, Zenon
    DEF Consistent, OpShape, CopyCurrent, CopyShape, HoldsClaim, Holding, Cleared,
                             Relies
  <1> QED
    BY <1>2, <1>3, <1>4, Zenon DEF IInv

\* Every step keeps the invariant.
LEMMA InvariantInductive == ASSUME IInv, [Next]_vars PROVE IInv'
  <1>1. CASE UNCHANGED vars
    <2> USE <1>1 DEF vars
    <2>1. TypeOK' /\ Unfinalized' /\ OneCreated'
      BY Zenon DEF IInv, TypeOK, Unfinalized, OneCreated, AtMostOneCreatedRow, Present
    <2>2. ASSUME NEW p \in Process PROVE Consistent(p)'
      BY ZenonT(60)
      DEF IInv, Consistent, OpShape, CopyCurrent, CopyShape, HoldsClaim, Cleared, Relies,
          NothingSeen
    <2> QED
      BY <2>1, <2>2, Zenon DEF IInv
  <1>2. ASSUME NEW p \in Process, Plan(p) \/ Create(p) \/ Settle(p) PROVE IInv'
    BY <1>2, PlanKeeps, ReserveKeeps, CreateClaimKeeps, MarkReservedKeeps, RecoverOrphanedKeeps,
       ResetClaimKeeps, AddFinalizerKeeps, InspectKeeps, PostCommitsKeeps, PostFailsKeeps,
       RelistCreatedKeeps, RefreshClaimKeeps, ConfirmKeeps, BindProviderIDKeeps,
       MarkConfirmedKeeps, MarkConflictKeeps, MarkOrphanedKeeps, Zenon DEF Create, Settle
  <1>3. ASSUME NEW p \in Process, ApplyExisting(p) \/ Recover(p) PROVE IInv'
    BY <1>3, GetClaimKeeps, TakeSnapshotKeeps, RelistBeforeMutationKeeps, AuthorizeMutationKeeps,
       MutateCommitsKeeps, MutateResponseLostKeeps, MutateFailsKeeps, RelistMutatedKeeps,
       ReconcileClaimKeeps, ReleaseClaimFinalizerKeeps, ReleaseFinalizerKeeps, DeleteClaimKeeps,
       RebindConfirmedKeeps, UpdateFingerprintKeeps, RecoverInterruptedKeeps, InspectEvidenceKeeps, Zenon
       DEF ApplyExisting, Recover
  <1> QED
    BY <1>1, <1>2, <1>3, AbortKeeps, PeopleKeep, Zenon DEF Next, Work

\* What the protocol rests on: while an operation goes on, the claim it works with
\* is its controller's own and keeps its finalizer, and before a POST, a reset or
\* the removal of the claim there is no row that a controller created.
THEOREM OwnershipInvariant == Spec => []IInv
  BY InitEstablishes, InvariantInductive, PTL DEF Spec

-----------------------------------------------------------------------------
(***************************************************************************)
(* What changes a claim, and what leads to a mutation.                     *)
(***************************************************************************)
\* How an existing claim changes: it lets go of its row, or disappears, only when
\* there is no created row, and it leaves Conflict only by people.
ClaimStep ==
  claim # NoClaim /\ claim' # claim =>
    /\ claim' = NoClaim => created = {} /\ (UserDeletesClaim \/ claim.phase # "Conflict")
    /\ claim' # NoClaim /\ claim.pid # NoId /\ claim'.pid # claim.pid => created = {}
    /\ claim' # NoClaim /\ claim.phase = "Conflict" => claim'.phase = "Conflict"

\* A write of a copy with another phase.
LEMMA TransitionStep ==
    ASSUME IInv, NEW p \in Process, NEW phase \in Phases, NEW l, Transition(p, phase, l),
           at[p].pc \notin {"idle", "reserve", "create", "get", "interrupted"},
           phase = "Conflict" \/ at[p].copy.phase # "Conflict"
    PROVE  ClaimStep
  <1>1. CASE p \notin fresh
    BY <1>1, Zenon DEF Transition, Write, Goto, ClaimStep
  <1>2. CASE p \in fresh
    <2>1. claim \in Claim /\ at[p].copy = claim
      BY <1>2, OwnCopy, Zenon
    <2>2. claim' = [claim EXCEPT !.phase = phase]
      BY <1>2, <2>1, Zenon DEF Transition, Write
    <2>3. claim' \in Claim /\ claim'.pid = claim.pid /\ claim'.phase = phase
      BY <2>1, <2>2, Zenon DEF Claim
    <2> QED
      BY <2>1, <2>3, ClaimFields, Zenon DEF ClaimStep
  <1> QED
    BY <1>1, <1>2, Zenon

\* A write that leaves the phase as it is.
LEMMA WriteStep ==
    ASSUME IInv, NEW p \in Process, NEW c, NEW l, Write(p, c, l),
           at[p].pc \notin {"idle", "reserve", "create", "get", "interrupted"},
           c = NoClaim => (p \notin fresh \/ created = {}) /\ at[p].copy.phase # "Conflict",
           c # NoClaim => /\ c.phase = at[p].copy.phase
                          /\ \/ c.pid = at[p].copy.pid
                             \/ at[p].copy.pid = NoId
                             \/ p \notin fresh \/ created = {}
    PROVE  ClaimStep
  <1>1. CASE p \notin fresh
    BY <1>1, Zenon DEF Write, Goto, ClaimStep
  <1>2. CASE p \in fresh
    BY <1>2, OwnCopy, Zenon DEF Write, ClaimStep
  <1> QED
    BY <1>1, <1>2, Zenon

\* The steps of a process.
LEMMA WorkChangesClaim == ASSUME IInv, NEW p \in Process, Work(p) \/ Abort(p) PROVE ClaimStep
  <1>1. Consistent(p)
    BY Zenon DEF IInv
  <1>2. at[p].copy \in Claim \cup {NoClaim}
    BY Zenon DEF IInv, TypeOK, State
  <1>3. CASE UNCHANGED claim
    BY <1>3, Zenon DEF ClaimStep
  <1>4. CASE CreateClaim(p)
    BY <1>4, Zenon DEF CreateClaim, Goto, ClaimStep
  <1>5. CASE MarkReserved(p)
    BY <1>1, <1>5, TransitionStep, Zenon DEF MarkReserved, Consistent, CopyShape, Phases
  <1>6. CASE MarkConfirmed(p)
    BY <1>1, <1>6, TransitionStep, Zenon DEF MarkConfirmed, Consistent, CopyShape, Phases
  <1>7. CASE MarkConflict(p)
    BY <1>7, TransitionStep, Zenon DEF MarkConflict, Phases
  <1>8. CASE MarkOrphaned(p)
    BY <1>1, <1>8, TransitionStep, Zenon DEF MarkOrphaned, Consistent, CopyShape, Phases
  <1>9. CASE ResetClaim(p)
    <2> DEFINE c == [at[p].copy EXCEPT !.fp = at[p].op.fp, !.pid = NoId, !.fin = TRUE]
    <2>1. at[p].pc = "reset" /\ Write(p, c, "reserved") /\ at[p].copy \in Claim
      BY <1>1, <1>2, <1>9, Zenon DEF ResetClaim, Consistent, CopyShape
    <2>2. c.phase = at[p].copy.phase
      BY <2>1, Zenon DEF Claim
    <2>3. p \notin fresh \/ created = {}
      BY <1>1, <2>1, Zenon DEF Consistent, Cleared, Relies
    <2>4. c = NoClaim => at[p].copy.phase # "Conflict"
      BY <1>1, <2>1, Zenon DEF Consistent, CopyShape
    <2> HIDE DEF c
    <2> QED
      BY <2>1, <2>2, <2>3, <2>4, WriteStep, Zenon
  <1>10. CASE AddFinalizer(p)
    <2> DEFINE c == [at[p].copy EXCEPT !.fin = TRUE]
    <2>1. /\ at[p].pc = "finalizer" /\ Write(p, c, PhaseLabel(at[p].copy))
          /\ at[p].copy \in Claim
      BY <1>1, <1>2, <1>10, Zenon DEF AddFinalizer, Consistent, CopyShape
    <2>2. c \in Claim /\ c.phase = at[p].copy.phase /\ c.pid = at[p].copy.pid
      BY <2>1, Zenon DEF Claim
    <2> HIDE DEF c
    <2> QED
      BY <2>1, <2>2, ClaimFields, WriteStep, Zenon
  <1>11. CASE BindProviderID(p)
    <2> DEFINE c == [at[p].copy EXCEPT !.pid = at[p].op.id]
    <2>1. /\ at[p].pc = "bind" /\ Write(p, c, "confirmed") /\ at[p].copy \in Claim
          /\ at[p].copy.pid = NoId /\ at[p].op.id \in Id \cup {NoId}
      BY <1>1, <1>2, <1>11, Zenon DEF BindProviderID, Consistent, CopyShape, IInv, TypeOK, Op
    <2>2. c \in Claim /\ c.phase = at[p].copy.phase
      BY <2>1, Zenon DEF Claim
    <2> HIDE DEF c
    <2> QED
      BY <2>1, <2>2, ClaimFields, WriteStep, Zenon
  <1>12. CASE UpdateFingerprint(p)
    <2> DEFINE c == [at[p].copy EXCEPT !.fp = at[p].op.fp]
    <2>1. /\ at[p].pc = "fingerprint" /\ Write(p, c, "confirmed") /\ at[p].copy \in Claim
          /\ at[p].op.fp \in Fp
      BY <1>1, <1>2, <1>12, Zenon DEF UpdateFingerprint, Consistent, CopyShape, OpShape
    <2>2. c \in Claim /\ c.phase = at[p].copy.phase /\ c.pid = at[p].copy.pid
      BY <2>1, Zenon DEF Claim
    <2> HIDE DEF c
    <2> QED
      BY <2>1, <2>2, ClaimFields, WriteStep, Zenon
  <1>13. CASE ReleaseFinalizer(p)
    <2> DEFINE c == [at[p].copy EXCEPT !.fin = FALSE]
    <2>1. /\ at[p].pc = "unfinalize" /\ at[p].copy \in Claim /\ created = {}
          /\ at[p].copy.phase = "Orphaned"
      BY <1>1, <1>2, <1>13, Zenon DEF ReleaseFinalizer, Consistent, CopyShape, Cleared, Relies
    <2>2. c \in Claim /\ c.phase = at[p].copy.phase
      BY <2>1, Zenon DEF Claim
    <2>3. \/ Goto(p, "conflict")
          \/ Write(p, NoClaim, "idle")
          \/ Write(p, c, "delete")
      BY <1>13, Zenon DEF ReleaseFinalizer
    <2> HIDE DEF c
    <2>4. CASE Goto(p, "conflict")
      BY <2>4, Zenon DEF Goto, ClaimStep
    <2> QED
      BY <2>1, <2>2, <2>3, <2>4, ClaimFields, WriteStep, Zenon
  <1>14. CASE DeleteClaim(p)
    <2>1. /\ at[p].pc = "delete" /\ Write(p, NoClaim, "idle")
          /\ at[p].copy.phase = "Orphaned" /\ (p \notin fresh \/ created = {})
      BY <1>1, <1>14, Zenon DEF DeleteClaim, Consistent, CopyShape, Cleared, Relies
    <2> QED
      BY <2>1, WriteStep, Zenon
  <1> QED
    BY <1>3, <1>4, <1>5, <1>6, <1>7, <1>8, <1>9, <1>10, <1>11, <1>12, <1>13, <1>14, ZenonT(60)
       DEF Work, Create, Settle, ApplyExisting, Recover, Plan, Reserve, RecoverOrphaned,
           InspectBeforeCreate, PostCommits, PostFails, RelistCreated, RefreshClaim, Confirm,
           GetClaim, TakeSnapshot, RelistBeforeMutation, AuthorizeMutation, MutateCommits,
           MutateResponseLost, MutateFails, RelistMutated, ReconcileClaim,
           ReleaseClaimFinalizer, RebindConfirmed, RecoverInterrupted, InspectEvidence, Abort,
           Goto, Fetch

\* Every step changes an existing claim in this way only.
LEMMA ClaimSteps == ASSUME IInv, Next PROVE ClaimStep
  <1>1. CASE UserDeletesClaim
    <2>1. /\ claim \in Claim
          /\ claim' = IF claim.fin THEN [claim EXCEPT !.deleting = TRUE] ELSE NoClaim
      BY <1>1, Zenon DEF UserDeletesClaim, IInv, TypeOK
    <2>2. CASE claim.fin
      <3>1. claim' \in Claim /\ claim'.pid = claim.pid /\ claim'.phase = claim.phase
        BY <2>1, <2>2, Zenon DEF Claim
      <3> QED
        BY <3>1, ClaimFields, Zenon DEF ClaimStep
    <2>3. CASE ~claim.fin
      BY <1>1, <2>1, <2>3, Zenon DEF IInv, Unfinalized, ClaimStep
    <2> QED
      BY <2>2, <2>3, Zenon
  <1>2. CASE UNCHANGED claim
    BY <1>2, Zenon DEF ClaimStep
  <1> QED
    BY <1>1, <1>2, WorkChangesClaim, Zenon DEF Next, People, EditRow, ToggleTwin, ChangeSources

\* Only the relist leads to the last look at the claim, and only that to a
\* mutation.
Guarded == {"revalidate", "mutate"}
LEMMA OnlyAuthorizedMutates ==
    ASSUME IInv, NEW p \in Process, Work(p) \/ Abort(p), at'[p].pc \in Guarded
    PROVE  \/ RelistBeforeMutation(p) /\ at'[p].pc = "revalidate"
           \/ AuthorizeMutation(p) /\ at'[p].pc = "mutate"
  <1>1. at[p] \in State /\ at \in [Process -> State] /\ Idle.pc = "idle"
    BY StateFields, Zenon DEF IInv, TypeOK, State
  <1>2. ASSUME NEW s, Moved(p, s), s.pc # "mutate", s.pc # "revalidate" PROVE FALSE
    BY <1>1, <1>2, Zenon DEF Moved, Guarded
  <1>3. ASSUME NEW l, Goto(p, l) \/ Fetch(p, l), l # "mutate", l # "revalidate" PROVE FALSE
    BY <1>1, <1>2, <1>3, Zenon DEF Goto, Fetch, State
  <1>4. ASSUME NEW c, NEW l, Write(p, c, l), l # "mutate", l # "revalidate" PROVE FALSE
    BY <1>1, <1>2, <1>3, <1>4, Zenon DEF Write, State
  <1>5. ASSUME NEW phase, NEW l, Transition(p, phase, l), l # "mutate", l # "revalidate"
        PROVE  FALSE
    BY <1>4, <1>5, Zenon DEF Transition
  <1>6. ASSUME Plan(p) PROVE FALSE
    <2>1. PICK o \in Planned(p) :
              at' = [at EXCEPT ![p] = [Idle EXCEPT !.pc = Entry(o.kind), !.op = o]]
      BY <1>6, Zenon DEF Plan
    <2>2. Entry(o.kind) # "mutate" /\ Entry(o.kind) # "revalidate"
      BY Zenon DEF Entry
    <2>3. at'[p] = [Idle EXCEPT !.pc = Entry(o.kind), !.op = o]
      BY <1>1, <2>1, Zenon
    <2>4. at'[p].pc = Entry(o.kind)
      BY <2>3, StateFields, Zenon DEF State
    <2> QED
      BY <2>2, <2>4, Zenon DEF Guarded
  <1>7. ASSUME Create(p) PROVE FALSE
    <2>1. CASE Reserve(p) \/ RecoverOrphaned(p)
      BY <1>3, <2>1, Zenon DEF Reserve, RecoverOrphaned, ReserveLabel, ExistingLabel, PhaseLabel
    <2>2. CASE CreateClaim(p)
      BY <1>1, <1>2, <1>3, <2>2, Zenon DEF CreateClaim, State
    <2>3. CASE MarkReserved(p) \/ ResetClaim(p) \/ AddFinalizer(p)
      BY <1>4, <1>5, <2>3, Zenon DEF MarkReserved, ResetClaim, AddFinalizer, PhaseLabel
    <2>4. CASE InspectBeforeCreate(p)
      BY <1>1, <1>2, <2>4, Zenon DEF InspectBeforeCreate, Observed, State
    <2>5. CASE PostCommits(p) \/ PostFails(p)
      BY <1>3, <2>5, Zenon DEF PostCommits, PostFails
    <2>6. CASE RelistCreated(p)
      BY <1>1, <1>2, <2>6, Zenon DEF RelistCreated, State
    <2>7. CASE RefreshClaim(p)
      BY <1>3, <2>7, Zenon DEF RefreshClaim, Observed
    <2> QED
      BY <1>7, <2>1, <2>2, <2>3, <2>4, <2>5, <2>6, <2>7, Zenon DEF Create
  <1>8. ASSUME Settle(p) PROVE FALSE
    <2>1. CASE Confirm(p)
      BY <1>3, <2>1, Zenon DEF Confirm, Revalidated, ConfirmLabel
    <2>2. CASE BindProviderID(p)
      BY <1>4, <2>2, Zenon DEF BindProviderID
    <2>3. CASE MarkConfirmed(p) \/ MarkConflict(p) \/ MarkOrphaned(p)
      BY <1>5, <2>3, Zenon DEF MarkConfirmed, MarkConflict, MarkOrphaned
    <2> QED
      BY <1>8, <2>1, <2>2, <2>3, Zenon DEF Settle
  <1>9. ASSUME ApplyExisting(p), ~RelistBeforeMutation(p), ~AuthorizeMutation(p) PROVE FALSE
    <2>1. CASE GetClaim(p) \/ MutateCommits(p) \/ MutateResponseLost(p) \/ MutateFails(p)
      BY <1>3, <2>1, Zenon DEF GetClaim, MutateCommits, MutateResponseLost, MutateFails
    <2>2. CASE TakeSnapshot(p) \/ RelistMutated(p)
      BY <1>1, <1>2, <2>2, Zenon DEF TakeSnapshot, RelistMutated, State
    <2>3. CASE ReconcileClaim(p)
      BY <1>1, <1>2, <2>3, Zenon DEF ReconcileClaim, Revalidated, State
    <2>4. CASE ReleaseClaimFinalizer(p) \/ RebindConfirmed(p)
      BY <1>3, <2>4, Zenon DEF ReleaseClaimFinalizer, RebindConfirmed, Revalidated
    <2>5. CASE ReleaseFinalizer(p) \/ DeleteClaim(p) \/ UpdateFingerprint(p)
      BY <1>3, <1>4, <2>5, Zenon DEF ReleaseFinalizer, DeleteClaim, UpdateFingerprint
    <2> QED
      BY <1>9, <2>1, <2>2, <2>3, <2>4, <2>5, Zenon DEF ApplyExisting
  <1>10. ASSUME Recover(p) PROVE FALSE
    <2>1. CASE RecoverInterrupted(p)
      BY <1>3, <2>1, Zenon DEF RecoverInterrupted
    <2>2. CASE InspectEvidence(p)
      BY <1>1, <1>2, <2>2, Zenon DEF InspectEvidence, State
    <2> QED
      BY <1>10, <2>1, <2>2, Zenon DEF Recover
  <1>11. ASSUME Abort(p) PROVE FALSE
    BY <1>3, <1>11, Zenon DEF Abort
  <1>12. ASSUME RelistBeforeMutation(p), at'[p].pc = "mutate" PROVE FALSE
    <2>1. PICK l \in {"idle", "revalidate"} : Goto(p, l)
      BY <1>12, Zenon DEF RelistBeforeMutation
    <2> QED
      BY <1>1, <1>12, <2>1, Zenon DEF Goto, Moved, State
  <1>13. ASSUME AuthorizeMutation(p), at'[p].pc = "revalidate" PROVE FALSE
    <2>1. PICK l \in {"idle", "conflict", "mutate"} : Goto(p, l)
      BY <1>13, Zenon DEF AuthorizeMutation, Revalidated
    <2> QED
      BY <1>1, <1>13, <2>1, Zenon DEF Goto, Moved, State
  <1> QED
    BY <1>6, <1>7, <1>8, <1>9, <1>10, <1>11, <1>12, <1>13, Zenon DEF Work, Guarded

\* A step of q moves no other process.
LEMMA OthersStay ==
    ASSUME IInv, NEW p \in Process, NEW q \in Process, q # p, Work(q) \/ Abort(q)
    PROVE  at'[p] = at[p]
  <1>1. at \in [Process -> State]
    BY Zenon DEF IInv, TypeOK, State
  <1>2. ASSUME NEW s, Moved(q, s) PROVE at'[p] = at[p]
    BY <1>1, <1>2, Zenon DEF Moved
  <1>3. ASSUME NEW l, Goto(q, l) \/ Fetch(q, l) PROVE at'[p] = at[p]
    BY <1>2, <1>3, Zenon DEF Goto, Fetch
  <1>4. ASSUME NEW c, NEW l, Write(q, c, l) PROVE at'[p] = at[p]
    BY <1>2, <1>3, <1>4, Zenon DEF Write
  <1>5. CASE Plan(q)
    BY <1>1, <1>5, Zenon DEF Plan
  <1>6. CASE Create(q)
    BY <1>2, <1>3, <1>4, <1>6, Zenon
       DEF Create, Reserve, CreateClaim, MarkReserved, RecoverOrphaned, ResetClaim, AddFinalizer,
           InspectBeforeCreate, PostCommits, PostFails, RelistCreated, RefreshClaim, Transition
  <1>7. CASE Settle(q)
    BY <1>3, <1>4, <1>7, Zenon
       DEF Settle, Confirm, BindProviderID, MarkConfirmed, MarkConflict, MarkOrphaned, Transition
  <1>8. CASE ApplyExisting(q)
    BY <1>2, <1>3, <1>4, <1>8, Zenon
       DEF ApplyExisting, GetClaim, TakeSnapshot, RelistBeforeMutation, AuthorizeMutation,
           MutateCommits, MutateResponseLost, MutateFails, RelistMutated, ReconcileClaim,
           ReleaseClaimFinalizer, ReleaseFinalizer, DeleteClaim, RebindConfirmed,
           UpdateFingerprint
  <1>9. CASE Recover(q) \/ Abort(q)
    BY <1>2, <1>3, <1>9, Zenon DEF Recover, RecoverInterrupted, InspectEvidence, Abort
  <1> QED
    BY <1>5, <1>6, <1>7, <1>8, <1>9, Zenon DEF Work

\* A step of q changes the rows only by a request it was cleared to send.
LEMMA RowSteps ==
    ASSUME NEW q \in Process, Work(q) \/ Abort(q)
    PROVE  edits' = edits /\ (rows' = rows \/ at[q].pc \in {"post", "mutate"})
  <1>1. CASE Plan(q) \/ Create(q) \/ Settle(q)
    BY <1>1, Zenon
       DEF Plan, Create, Settle, Reserve, CreateClaim, MarkReserved, RecoverOrphaned, ResetClaim,
           AddFinalizer, InspectBeforeCreate, PostCommits, PostFails, RelistCreated, RefreshClaim,
           Confirm, BindProviderID, MarkConfirmed, MarkConflict, MarkOrphaned, Same
  <1>2. CASE ApplyExisting(q)
    BY <1>2, Zenon
       DEF ApplyExisting, GetClaim, TakeSnapshot, RelistBeforeMutation, AuthorizeMutation,
           MutateCommits, MutateResponseLost, MutateFails, Commit, RelistMutated, ReconcileClaim,
           ReleaseClaimFinalizer, ReleaseFinalizer, DeleteClaim, RebindConfirmed,
           UpdateFingerprint, Same
  <1>3. CASE Recover(q) \/ Abort(q)
    BY <1>3, Zenon DEF Recover, RecoverInterrupted, InspectEvidence, Abort, Same
  <1> QED
    BY <1>1, <1>2, <1>3, Zenon DEF Work

\* Between the relist and the last look at the claim the zone stays as it was
\* listed unless people edit: the claim is p's own, so nobody else is cleared to
\* write.
RelistStands ==
  \A p \in Process : edits = 0 /\ at[p].pc = "revalidate" => at[p].seen = rows

LEMMA RelistStandsKept == ASSUME IInv, RelistStands, [Next]_vars PROVE RelistStands'
  <1> SUFFICES ASSUME NEW p \in Process, edits' = 0, at'[p].pc = "revalidate"
               PROVE  at'[p].seen = rows'
    BY Zenon DEF RelistStands
  <1>1. CASE UNCHANGED vars
    BY <1>1, Zenon DEF vars, RelistStands
  <1>2. CASE Work(p) \/ Abort(p)
    <2>1. RelistBeforeMutation(p)
      BY <1>2, OnlyAuthorizedMutates, Zenon DEF Guarded
    <2>2. /\ Goto(p, "idle") \/ (Goto(p, "revalidate") /\ rows = at[p].seen)
          /\ rows' = rows /\ at[p] \in State /\ "revalidate" \in Labels
      BY <2>1, Zenon DEF RelistBeforeMutation, Same, IInv, TypeOK, State, Labels
    <2>3. ~Goto(p, "idle")
      BY StateFields DEF Goto, Moved, IInv, TypeOK
    <2> QED
      BY <2>2, <2>3, Goes, Zenon
  <1>3. ASSUME NEW q \in Process, q # p, Work(q) \/ Abort(q) PROVE at'[p].seen = rows'
    <2>1. at'[p] = at[p] /\ edits' = edits /\ (rows' = rows \/ at[q].pc \in {"post", "mutate"})
      BY <1>3, OthersStay, RowSteps, Zenon
    <2>2. claim.cid = Cid[p]
      BY <2>1, Zenon DEF IInv, Consistent, HoldsClaim, Holding, Labels
    <2>3. at[q].pc \in {"post", "mutate"} => claim.cid = Cid[q]
      BY Zenon DEF IInv, Consistent, HoldsClaim, Holding, Labels
    <2> QED
      BY <1>3, <2>1, <2>2, <2>3, OwnershipAssumption, Zenon DEF RelistStands
  <1>4. CASE People
    <2>1. at' = at /\ ((rows' = rows /\ edits' = edits) \/ edits' = edits + 1)
      BY <1>4, Zenon DEF People, EditRow, UserDeletesClaim, ToggleTwin, ChangeSources, Edit
    <2>2. edits' = edits + 1 => FALSE
      BY DEF IInv, TypeOK
    <2> QED
      BY <2>1, <2>2, Zenon DEF RelistStands
  <1> QED
    BY <1>1, <1>2, <1>3, <1>4, Zenon DEF Next

-----------------------------------------------------------------------------
\* The variables always have the declared types.
THEOREM OwnershipTyped == Spec => []TypeOK
  <1>1. IInv => TypeOK
    BY Zenon DEF IInv
  <1> QED
    BY <1>1, OwnershipInvariant, PTL

\* Whatever is lost, interrupted or edited, and however many controllers compete,
\* at most one of the rows that ReconcileCreate posted exists.
THEOREM OneRowPerRecord == Spec => []AtMostOneCreatedRow
  <1>1. IInv => AtMostOneCreatedRow
    BY Zenon DEF IInv, OneCreated
  <1> QED
    BY <1>1, OwnershipInvariant, PTL

\* A claim disappears, or lets go of its provider ID, only when no row that a
\* controller created is left.
THEOREM BindingIsKept == Spec => BindingKeptWhileRowExists
  <1>1. IInv /\ [Next]_vars => [BindingStep]_vars
    BY ClaimSteps, Zenon DEF ClaimStep, BindingStep, LetsGo
  <1> QED
    BY <1>1, OwnershipInvariant, PTL DEF Spec, BindingKeptWhileRowExists

\* A claim in Conflict leaves that phase only by people.
THEOREM ConflictsStay == Spec => ConflictIsForPeople
  <1>1. ASSUME IInv, Next, claim # NoClaim, claim.phase = "Conflict", edits' = edits
        PROVE  claim' # NoClaim /\ claim'.phase = "Conflict"
    <2>1. ~UserDeletesClaim
      BY <1>1 DEF UserDeletesClaim, Edit, IInv, TypeOK
    <2> QED
      BY <1>1, <2>1, ClaimSteps, Zenon DEF ClaimStep
  <1>2. IInv /\ [Next]_vars => [ConflictStep]_vars
    BY <1>1, Zenon DEF ConflictStep
  <1> QED
    BY <1>2, OwnershipInvariant, PTL DEF Spec, ConflictIsForPeople

\* A mutation begins only under the controller's own, unique and Confirmed claim,
\* and its row had the claimed fingerprint when the zone was relisted and has it
\* still while nobody edits, for any number of controllers and rows.
THEOREM MutationsAreAuthorized == Spec => MutationsAuthorized
  <1>1. ASSUME IInv, RelistStands, Next, NEW p \in Process, at[p].pc # "mutate",
               at'[p].pc = "mutate"
        PROVE  /\ claim # NoClaim /\ claim.phase = "Confirmed" /\ claim.cid = Cid[p] /\ ~twin
               /\ claim.pid \in Id /\ at[p].seen[claim.pid] = claim.fp
               /\ edits = 0 => rows[claim.pid] = claim.fp
    <2>1. AuthorizeMutation(p)
      <3>1. ASSUME NEW q \in Process, q # p, Work(q) \/ Abort(q) PROVE at'[p] = at[p]
        BY <1>1, <3>1, OthersStay, Zenon
      <3>2. CASE People
        BY <1>1, <3>2, Zenon DEF People, EditRow, UserDeletesClaim, ToggleTwin, ChangeSources
      <3> QED
        BY <1>1, <3>1, <3>2, OnlyAuthorizedMutates, Zenon DEF Next, Guarded
    <2> DEFINE c == at[p].copy
               l == Revalidated(p, IF c.pid = NoId THEN "idle"
                                   ELSE IF c.pid # NoId /\ at[p].seen[c.pid] = c.fp
                                   THEN "mutate" ELSE "conflict")
    <2>2. at[p].pc = "revalidate" /\ Goto(p, l)
      BY <2>1, Zenon DEF AuthorizeMutation
    <2>3. l = "mutate"
      <3> HIDE DEF l
      <3> QED
        BY <1>1, <2>2, StateFields DEF Goto, Moved, IInv, TypeOK
    <2>4. p \in fresh /\ ~twin /\ c.pid # NoId /\ at[p].seen[c.pid] = c.fp
      BY <2>3, Zenon DEF Revalidated
    <2>5. c = claim /\ claim \in Claim /\ claim # NoClaim /\ claim.cid = Cid[p]
      BY <1>1, <2>2, <2>4, OwnCopy, Zenon
    <2>6. c.phase = "Confirmed"
      BY <1>1, <2>2, Zenon DEF IInv, Consistent, CopyShape
    <2>7. edits = 0 => at[p].seen = rows
      BY <1>1, <2>2, Zenon DEF RelistStands
    <2> QED
      BY <2>4, <2>5, <2>6, <2>7, ClaimFields, Zenon
  <1>2. IInv /\ RelistStands /\ [Next]_vars => [AuthorizeStep]_vars
    BY <1>1, Zenon DEF AuthorizeStep
  <1>3. Init => RelistStands
    BY StateFields, Zenon DEF Init, RelistStands
  <1>4. Spec => []RelistStands
    BY <1>3, RelistStandsKept, OwnershipInvariant, PTL DEF Spec
  <1> QED
    BY <1>2, <1>4, OwnershipInvariant, PTL DEF Spec, MutationsAuthorized
=============================================================================
