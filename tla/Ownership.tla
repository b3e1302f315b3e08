------------------------------ MODULE Ownership ------------------------------
(***************************************************************************)
(* The shared-zone ownership protocol: internal/ownership (Manager and     *)
(* Repository) driven by cmd/fortigate-external-dns/shared.go.             *)
(*                                                                         *)
(* One record identity (target, zone, name, type and value) is modelled.   *)
(* Its claim is one Kubernetes object; its rows live in a FortiGate zone   *)
(* that people and other controllers edit as well.  A process is one       *)
(* controller working through one planned operation at a time; every call  *)
(* to the Kubernetes API or to the FortiGate is a step of its own, and the *)
(* process may stop (error return, cancelled context, restart) between any *)
(* two of them.                                                            *)
(*                                                                         *)
(* Optimistic concurrency is modelled by the set "fresh" of the processes  *)
(* whose copy still carries the claim's current resourceVersion.  A        *)
(* provider revision is a hash of all the rows, so two snapshots have the  *)
(* same revision exactly when they are equal.                              *)
(***************************************************************************)
EXTENDS Naturals, FiniteSets

CONSTANTS
  Process,     \* controller processes
  Cid,         \* Cid[p]: the controller identity p runs under
  Id,          \* provider row identifiers, positive numbers
  Fp,          \* fingerprints of this record: its TTL and status variants
  NoRow,       \* rows[i] = NoRow: the zone has no row i
  Other,       \* rows[i] = Other: row i is some other record
  NoClaim,     \* the claim object does not exist
  Steady,      \* the fingerprint the sources settle on
  NoFp,        \* a process whose sources do not publish the record
  MaxEdits,    \* bound on row edits, claim edits and changes of the sources
  MaxAborts    \* bound on processes stopping in the middle of an operation

NoId == 0
Phases == {"", "Reserved", "Confirmed", "Orphaned", "Conflict"}
RowValue == Fp \cup {NoRow, Other}

ASSUME OwnershipAssumption ==
  /\ Id \subseteq Nat \ {0}
  /\ MaxEdits \in Nat
  /\ MaxAborts \in Nat
  /\ Steady \in Fp
  /\ NoRow \notin Fp /\ Other \notin Fp /\ NoFp \notin Fp /\ NoRow # Other
  /\ \A p, q \in Process : Cid[p] = Cid[q] => p = q

VARIABLES
  claim,    \* the FortiGateDNSRecordOwnership object, or NoClaim
  twin,     \* somebody made a second claim for the same record
  rows,     \* the FortiGate zone: row identifier -> what the row says
  want,     \* want[p]: the fingerprint p's sources ask for, or NoFp
  at,       \* at[p]: where p is, its operation, its claim copy, its snapshot
  fresh,    \* the processes whose copy has the current resourceVersion
  edits,    \* row edits and claim edits so far
  changes,  \* changes of the sources so far
  aborts,   \* operations cut short so far
  created   \* history: the rows a controller's POST created and nobody else
            \* has touched since

vars == <<claim, twin, rows, want, at, fresh, edits, changes, aborts, created>>

Claim == [phase : Phases, fp : Fp, pid : Id \cup {NoId}, cid : {Cid[p] : p \in Process},
          fin : BOOLEAN, deleting : BOOLEAN]

ASSUME NothingAssumption == NoClaim \notin Claim

Op == [kind : {"None", "Create", "Update", "Delete", "Conflict"},
       id : Id \cup {NoId}, fp : Fp \cup {NoFp}]

Labels == {"idle", "reserve", "create", "reserved", "recover", "reset", "finalizer",
           "inspect", "post", "relist", "refresh", "confirm", "bind", "confirmed",
           "conflict", "orphan", "get", "snapshot", "authorize", "revalidate", "mutate",
           "after", "reconcile", "release", "unfinalize", "delete", "rebind", "fingerprint",
           "interrupted", "evidence"}

Blank == [i \in Id |-> NoRow]
NoOp == [kind |-> "None", id |-> NoId, fp |-> NoFp]
Idle == [pc |-> "idle", op |-> NoOp, copy |-> NoClaim, seen |-> Blank]

\* The variables hold values of the types the code declares.
TypeOK ==
  /\ claim \in Claim \cup {NoClaim}
  /\ twin \in BOOLEAN
  /\ rows \in [Id -> RowValue]
  /\ want \in [Process -> Fp \cup {NoFp}]
  /\ at \in [Process -> [pc : Labels, op : Op, copy : Claim \cup {NoClaim},
                         seen : [Id -> RowValue]]]
  /\ fresh \subseteq Process
  /\ edits \in 0..MaxEdits
  /\ changes \in 0..MaxEdits
  /\ aborts \in 0..MaxAborts
  /\ created \subseteq Id

\* The claim of a finished publication of fingerprint f by p, as row i.
Bound(p, i, f) ==
  [phase |-> "Confirmed", fp |-> f, pid |-> i, cid |-> Cid[p], fin |-> TRUE, deleting |-> FALSE]

\* The record was never published, or an earlier life of one of the processes
\* published it, with any fingerprint.
Init ==
  /\ twin = FALSE
  /\ \/ claim = NoClaim /\ rows = Blank /\ created = {}
     \/ \E p \in Process, i \in Id, f \in Fp :
          /\ claim = Bound(p, i, f)
          /\ rows = [Blank EXCEPT ![i] = f]
          /\ created = {i}
  /\ want \in [Process -> Fp \cup {NoFp}]
  /\ at = [p \in Process |-> Idle]
  /\ fresh = {}
  /\ edits = 0
  /\ changes = 0
  /\ aborts = 0

-----------------------------------------------------------------------------
(***************************************************************************)
(* What a snapshot says about the record: inspectRecord and                *)
(* inspectClaimRecords.                                                    *)
(***************************************************************************)
Exact(zone, f) == {i \in Id : zone[i] = f}
Divergent(zone, f) == {i \in Id : zone[i] \in Fp \ {f}}
Disputed(zone, f) == Cardinality(Exact(zone, f)) > 1 \/ Divergent(zone, f) # {}

(***************************************************************************)
(* Moving a process on.  A process that goes idle forgets what it read.    *)
(***************************************************************************)
Moved(p, s) ==
  /\ at' = [at EXCEPT ![p] = IF s.pc = "idle" THEN Idle ELSE s]

Goto(p, l) ==
  /\ Moved(p, [at[p] EXCEPT !.pc = l])
  /\ fresh' = IF l = "idle" THEN fresh \ {p} ELSE fresh
  /\ UNCHANGED claim

\* A Get or List of the claim.
Fetch(p, l) ==
  /\ Moved(p, [at[p] EXCEPT !.pc = l, !.copy = claim])
  /\ fresh' = IF l = "idle" THEN fresh \ {p} ELSE fresh \cup {p}
  /\ UNCHANGED claim

\* Mutant: the write carries no resourceVersion.
WriteUnconditionally(p, c, l) ==
  /\ claim' = c
  /\ Moved(p, [at[p] EXCEPT !.pc = l, !.copy = c])
  /\ fresh' = IF l = "idle" THEN {} ELSE {p}

\* A write carrying the copy's resourceVersion.  The API server refuses it
\* when the claim has moved on, and the operation ends with ErrStaleClaim.
\* Writing what is already there leaves the resourceVersion alone; a new
\* confirmation time in it would only make more copies stale.
Write(p, c, l) ==
  IF p \in fresh
  THEN /\ claim' = c
       /\ Moved(p, [at[p] EXCEPT !.pc = l, !.copy = c])
       /\ fresh' = (IF c = claim THEN fresh \ {p} ELSE {})
                     \cup (IF l = "idle" THEN {} ELSE {p})
  ELSE Goto(p, "idle")

Transition(p, phase, l) == Write(p, [at[p].copy EXCEPT !.phase = phase], l)

\* Repository.RevalidateUnique: the copy is current and the claim is the only
\* one for its record; a second claim turns it into a conflict.
Revalidated(p, l) == IF p \notin fresh THEN "idle" ELSE IF twin THEN "conflict" ELSE l

Same == UNCHANGED <<twin, rows, want, edits, changes, aborts, created>>

-----------------------------------------------------------------------------
(***************************************************************************)
(* Planning: list the rows, label those a Confirmed claim of this          *)
(* controller matches as owned, and compare with what the sources ask for. *)
(***************************************************************************)
Present == {i \in Id : rows[i] \in Fp}

Owned(p) ==
  {i \in Present : /\ claim # NoClaim
                   /\ claim.phase = "Confirmed"
                   /\ claim.cid = Cid[p]
                   /\ claim.fp = rows[i]}

Planned(p) ==
  LET own == Owned(p)
      keep == CHOOSE i \in own : \A j \in own : i <= j
  IN  IF want[p] = NoFp
      THEN {[kind |-> "Delete", id |-> i, fp |-> NoFp] : i \in own}
      ELSE IF Present \ own # {}
      THEN {[kind |-> "Conflict", id |-> i, fp |-> want[p]] : i \in Present \ own}
      ELSE IF own = {}
      THEN {[kind |-> "Create", id |-> NoId, fp |-> want[p]]}
      ELSE {[kind |-> "Update", id |-> i, fp |-> want[p]] : i \in {keep} \cap {j \in Id : rows[j] # want[p]}}
             \cup {[kind |-> "Delete", id |-> i, fp |-> NoFp] : i \in own \ {keep}}

\* sharedDNSClient.applyOne: where each kind of operation starts.
Entry(kind) ==
  CASE kind = "Create" -> "reserve"
    [] kind = "Conflict" -> "interrupted"
    [] OTHER -> "get"

Plan(p) ==
  /\ at[p].pc = "idle"
  /\ \E o \in Planned(p) :
       at' = [at EXCEPT ![p] = [Idle EXCEPT !.pc = Entry(o.kind), !.op = o]]
  /\ Same /\ UNCHANGED <<claim, fresh>>

-----------------------------------------------------------------------------
(***************************************************************************)
(* Repository.Reserve.                                                     *)
(***************************************************************************)
PhaseLabel(c) ==
  CASE c.phase \in {"Reserved", "Confirmed"} -> "inspect"
    [] c.phase = "" -> "reserved"
    [] OTHER -> "idle"

\* Mutant: the controller identity is not compared.
ClaimSpecMatchesAnyone(p, c) == c.fp = at[p].op.fp

ClaimSpecMatches(p, c) == c.fp = at[p].op.fp /\ c.cid = Cid[p]

ExistingLabel(p, c) ==
  IF ~ClaimSpecMatches(p, c) THEN "conflict"
  ELSE IF ~c.fin THEN "finalizer"
  ELSE PhaseLabel(c)

\* Mutant: orphaned claims are never recovered.
ReserveLabelWithoutRecovery(p) ==
  IF twin THEN IF claim = NoClaim THEN "idle" ELSE "conflict"
  ELSE IF claim = NoClaim THEN "create"
  ELSE ExistingLabel(p, claim)

ReserveLabel(p) ==
  IF twin THEN IF claim = NoClaim THEN "idle" ELSE "conflict"
  ELSE IF claim = NoClaim THEN "create"
  ELSE IF claim.phase = "Orphaned" /\ ~claim.deleting /\ claim.cid = Cid[p] THEN "recover"
  ELSE ExistingLabel(p, claim)

Reserve(p) ==
  /\ at[p].pc = "reserve"
  /\ Fetch(p, ReserveLabel(p))
  /\ Same

\* Create fails when another controller has created the claim meanwhile.
CreateClaim(p) ==
  /\ at[p].pc = "create"
  /\ IF claim = NoClaim
     THEN LET c == [phase |-> "", fp |-> at[p].op.fp, pid |-> NoId, cid |-> Cid[p],
                    fin |-> TRUE, deleting |-> FALSE]
          IN  /\ claim' = c
              /\ Moved(p, [at[p] EXCEPT !.pc = "reserved", !.copy = c])
              /\ fresh' = {p}
     ELSE Goto(p, "idle")
  /\ Same

MarkReserved(p) ==
  /\ at[p].pc = "reserved"
  /\ Transition(p, "Reserved", "inspect")
  /\ Same

\* Repository.recoverOrphaned: only when neither the bound row nor any row of
\* the record exists; otherwise Reserve goes on as for any existing claim.
RecoverOrphaned(p) ==
  LET c == at[p].copy
      gone == Present = {} /\ (c.pid # NoId => rows[c.pid] = NoRow)
  IN  /\ at[p].pc = "recover"
      /\ Goto(p, IF gone THEN "reset" ELSE ExistingLabel(p, c))
      /\ Same

ResetClaim(p) ==
  /\ at[p].pc = "reset"
  /\ Write(p, [at[p].copy EXCEPT !.fp = at[p].op.fp, !.pid = NoId, !.fin = TRUE], "reserved")
  /\ Same

AddFinalizer(p) ==
  /\ at[p].pc = "finalizer"
  /\ Write(p, [at[p].copy EXCEPT !.fin = TRUE], PhaseLabel(at[p].copy))
  /\ Same

-----------------------------------------------------------------------------
(***************************************************************************)
(* Manager.ReconcileCreate: relist before the POST, POST, relist again.    *)
(***************************************************************************)
\* Manager.confirmObserved; "unseen" is where a record without rows leads.
Observed(zone, f, phase, unseen) ==
  IF Disputed(zone, f) THEN "conflict"
  ELSE IF Exact(zone, f) # {} THEN "confirm"
  ELSE IF phase = "Confirmed" THEN "orphan"
  ELSE unseen

ExactId(zone, f) == IF Exact(zone, f) = {} THEN NoId ELSE CHOOSE i \in Exact(zone, f) : TRUE

InspectBeforeCreate(p) ==
  LET f == at[p].op.fp
      l == Observed(rows, f, at[p].copy.phase, "post")
  IN  /\ at[p].pc = "inspect"
      /\ Moved(p, [at[p] EXCEPT !.pc = l, !.op.id = ExactId(rows, f)])
      /\ Same /\ UNCHANGED <<claim, fresh>>

\* The POST commits or it does not; whether the response arrives makes no
\* difference, because the code relists in either case.
PostCommits(p) ==
  /\ at[p].pc = "post"
  /\ Goto(p, "relist")
  /\ \E i \in {j \in Id : rows[j] = NoRow} :
       /\ rows' = [rows EXCEPT ![i] = at[p].op.fp]
       /\ created' = created \cup {i}
  /\ UNCHANGED <<twin, want, edits, changes, aborts>>

PostFails(p) ==
  /\ at[p].pc = "post"
  /\ Goto(p, "relist")
  /\ Same

RelistCreated(p) ==
  /\ at[p].pc = "relist"
  /\ Moved(p, [at[p] EXCEPT !.pc = "refresh", !.seen = rows, !.op.id = ExactId(rows, at[p].op.fp)])
  /\ Same /\ UNCHANGED <<claim, fresh>>

RefreshClaim(p) ==
  /\ at[p].pc = "refresh"
  /\ Fetch(p, IF claim = NoClaim THEN "idle"
              ELSE Observed(at[p].seen, at[p].op.fp, claim.phase, "idle"))
  /\ Same

-----------------------------------------------------------------------------
(***************************************************************************)
(* Repository.Confirm and the phase transitions.                           *)
(***************************************************************************)
\* Mutant: a claim is confirmed from any phase.
ConfirmLabelAnyPhase(p, c) ==
  IF c.pid # NoId /\ c.pid # at[p].op.id THEN "conflict"
  ELSE IF c.pid = NoId THEN "bind"
  ELSE "confirmed"

ConfirmLabel(p, c) ==
  IF c.phase \notin {"Reserved", "Orphaned", "Confirmed"} THEN "idle"
  ELSE IF c.pid # NoId /\ c.pid # at[p].op.id THEN "conflict"
  ELSE IF c.pid = NoId THEN "bind"
  ELSE "confirmed"

Confirm(p) ==
  /\ at[p].pc = "confirm"
  /\ Goto(p, Revalidated(p, ConfirmLabel(p, at[p].copy)))
  /\ Same

BindProviderID(p) ==
  /\ at[p].pc = "bind"
  /\ Write(p, [at[p].copy EXCEPT !.pid = at[p].op.id], "confirmed")
  /\ Same

MarkConfirmed(p) ==
  /\ at[p].pc = "confirmed"
  /\ Transition(p, "Confirmed", "idle")
  /\ Same

MarkConflict(p) ==
  /\ at[p].pc = "conflict"
  /\ Transition(p, "Conflict", "idle")
  /\ Same

\* After a controller's own delete the claim is released next.
MarkOrphaned(p) ==
  /\ at[p].pc = "orphan"
  /\ Transition(p, "Orphaned", IF at[p].op.kind = "Delete" THEN "release" ELSE "idle")
  /\ Same

-----------------------------------------------------------------------------
(***************************************************************************)
(* sharedDNSClient.applyExisting: Update and Delete.                       *)
(***************************************************************************)
GetClaim(p) ==
  /\ at[p].pc = "get"
  /\ Fetch(p, IF claim = NoClaim THEN "idle" ELSE "snapshot")
  /\ Same

TakeSnapshot(p) ==
  /\ at[p].pc = "snapshot"
  /\ Moved(p, [at[p] EXCEPT !.pc = "authorize", !.seen = rows])
  /\ Same /\ UNCHANGED <<claim, fresh>>

\* Manager.ExecuteMutation relists; AuthorizeMutation compares the revision with
\* the one of the snapshot before, and looks at the planned phase.
RelistBeforeMutation(p) ==
  /\ at[p].pc = "authorize"
  /\ Goto(p, IF rows # at[p].seen \/ at[p].copy.phase # "Confirmed" THEN "idle" ELSE "revalidate")
  /\ Same

\* Mutant: the copy is not compared with the claim once more.
AuthorizeMutationFromCopy(p) ==
  LET c == at[p].copy
      evidence == c.pid # NoId /\ at[p].seen[c.pid] = c.fp
  IN  /\ at[p].pc = "revalidate"
      /\ Goto(p, IF c.pid = NoId THEN "idle" ELSE IF evidence THEN "mutate" ELSE "conflict")
      /\ Same

\* The rest of Manager.AuthorizeMutation: the claim once more, then the bound row
\* in the relisted snapshot, which the zone may have left behind by now.
AuthorizeMutation(p) ==
  LET c == at[p].copy
      evidence == c.pid # NoId /\ at[p].seen[c.pid] = c.fp
  IN  /\ at[p].pc = "revalidate"
      /\ Goto(p, Revalidated(p, IF c.pid = NoId THEN "idle"
                                ELSE IF evidence THEN "mutate" ELSE "conflict"))
      /\ Same

\* The provider request addresses the row the operation was planned for.  A
\* request that reports an error, committed or not, ends the operation.
Commit(p) ==
  LET o == at[p].op
  IN  /\ rows[o.id] # NoRow
      /\ rows' = [rows EXCEPT ![o.id] = IF o.kind = "Delete" THEN NoRow ELSE o.fp]
      /\ created' = IF o.kind = "Delete" THEN created \ {o.id} ELSE created
      /\ UNCHANGED <<twin, want, edits, changes, aborts>>

MutateCommits(p) ==
  /\ at[p].pc = "mutate"
  /\ Commit(p)
  /\ Goto(p, "after")

MutateResponseLost(p) ==
  /\ at[p].pc = "mutate"
  /\ Commit(p)
  /\ Goto(p, "idle")

MutateFails(p) ==
  /\ at[p].pc = "mutate"
  /\ Goto(p, "idle")
  /\ Same

RelistMutated(p) ==
  LET o == at[p].op
      l == IF o.kind = "Delete" THEN "reconcile"
           ELSE IF rows[o.id] = o.fp THEN "rebind" ELSE "idle"
  IN  /\ at[p].pc = "after"
      /\ Moved(p, [at[p] EXCEPT !.pc = l, !.seen = rows])
      /\ fresh' = IF l = "idle" THEN fresh \ {p} ELSE fresh
      /\ Same /\ UNCHANGED claim

\* Manager.ReconcileClaim, against the snapshot taken after the mutation.
ReconcileClaim(p) ==
  LET c == at[p].copy
      zone == at[p].seen
      l == IF Disputed(zone, c.fp) THEN "conflict"
           ELSE IF Exact(zone, c.fp) = {} THEN IF c.phase = "Reserved" THEN "idle" ELSE "orphan"
           ELSE IF c.pid # NoId /\ ExactId(zone, c.fp) # c.pid THEN "conflict"
           ELSE "confirm"
      m == Revalidated(p, l)
  IN  /\ at[p].pc = "reconcile"
      /\ Moved(p, [at[p] EXCEPT !.pc = m, !.op.id = ExactId(zone, c.fp)])
      /\ fresh' = IF m = "idle" THEN fresh \ {p} ELSE fresh
      /\ Same /\ UNCHANGED claim

\* Manager.ReleaseClaimFinalizer, still against that snapshot.
ReleaseClaimFinalizer(p) ==
  LET c == at[p].copy
      gone == (c.pid # NoId => at[p].seen[c.pid] = NoRow) /\ Exact(at[p].seen, c.fp) = {}
  IN  /\ at[p].pc = "release"
      /\ Goto(p, Revalidated(p, IF gone THEN "unfinalize" ELSE "idle"))
      /\ Same

\* Removing the last finalizer of an object being deleted removes the object.
ReleaseFinalizer(p) ==
  LET c == at[p].copy
  IN  /\ at[p].pc = "unfinalize"
      /\ IF twin /\ p \in fresh THEN Goto(p, "conflict")
         ELSE IF c.deleting THEN Write(p, NoClaim, "idle")
         ELSE Write(p, [c EXCEPT !.fin = FALSE], "delete")
      /\ Same

DeleteClaim(p) ==
  /\ at[p].pc = "delete"
  /\ Write(p, NoClaim, "idle")
  /\ Same

RebindConfirmed(p) ==
  LET c == at[p].copy
  IN  /\ at[p].pc = "rebind"
      /\ Goto(p, Revalidated(p, IF c.phase # "Confirmed" \/ c.pid # at[p].op.id
                                THEN "idle" ELSE "fingerprint"))
      /\ Same

UpdateFingerprint(p) ==
  /\ at[p].pc = "fingerprint"
  /\ Write(p, [at[p].copy EXCEPT !.fp = at[p].op.fp], "confirmed")
  /\ Same

-----------------------------------------------------------------------------
(***************************************************************************)
(* sharedDNSClient.recoverInterruptedClaim: finish a confirmation or a     *)
(* rebind whose provider write went through.                               *)
(***************************************************************************)
\* Mutant: only interrupted creates are resumed, not interrupted updates.
RecoverInterruptedCreate(p) ==
  LET o == at[p].op
      mine == claim # NoClaim /\ ~claim.deleting /\ claim.cid = Cid[p]
  IN  /\ at[p].pc = "interrupted"
      /\ Fetch(p, IF mine /\ claim.phase = "Reserved" /\ claim.fp = o.fp
                       /\ claim.pid \in {NoId, o.id}
                  THEN "evidence" ELSE "idle")
      /\ Same

RecoverInterrupted(p) ==
  LET o == at[p].op
      mine == claim # NoClaim /\ ~claim.deleting /\ claim.cid = Cid[p]
      resumable == \/ claim.phase = "Reserved" /\ claim.fp = o.fp /\ claim.pid \in {NoId, o.id}
                   \/ claim.phase = "Confirmed" /\ claim.pid = o.id
  IN  /\ at[p].pc = "interrupted"
      /\ Fetch(p, IF mine /\ resumable THEN "evidence" ELSE "idle")
      /\ Same

InspectEvidence(p) ==
  LET o == at[p].op
      l == IF rows[o.id] # o.fp THEN "idle"
           ELSE IF at[p].copy.phase = "Reserved" THEN "reconcile"
           ELSE IF at[p].copy.fp = o.fp THEN "idle" ELSE "rebind"
  IN  /\ at[p].pc = "evidence"
      /\ Moved(p, [at[p] EXCEPT !.pc = l, !.seen = rows])
      /\ fresh' = IF l = "idle" THEN fresh \ {p} ELSE fresh
      /\ Same /\ UNCHANGED claim

-----------------------------------------------------------------------------
(***************************************************************************)
(* The environment.                                                        *)
(***************************************************************************)
\* An error return, a cancelled context or a restart: nothing but the objects
\* outside the process survives.
Abort(p) ==
  /\ at[p].pc # "idle"
  /\ aborts < MaxAborts
  /\ aborts' = aborts + 1
  /\ Goto(p, "idle")
  /\ UNCHANGED <<twin, rows, want, edits, changes, created>>

Edit == edits + changes < MaxEdits /\ edits' = edits + 1

\* Somebody else adds, changes or deletes a row of the zone.
EditRow(i, v) ==
  /\ Edit
  /\ rows[i] # v
  /\ rows' = [rows EXCEPT ![i] = v]
  /\ created' = created \ {i}
  /\ UNCHANGED <<claim, twin, want, at, fresh, changes, aborts>>

\* kubectl delete on the claim: its finalizer holds it back.
UserDeletesClaim ==
  /\ Edit
  /\ claim # NoClaim
  /\ claim' = IF claim.fin THEN [claim EXCEPT !.deleting = TRUE] ELSE NoClaim
  /\ fresh' = IF claim' = claim THEN fresh ELSE {}
  /\ UNCHANGED <<twin, rows, want, at, changes, aborts, created>>

\* Somebody makes, or removes, a second claim for the same record.
ToggleTwin ==
  /\ Edit
  /\ twin' = ~twin
  /\ UNCHANGED <<claim, rows, want, at, fresh, changes, aborts, created>>

\* The sources of p change what they publish.
ChangeSources(p, f) ==
  /\ edits + changes < MaxEdits
  /\ changes' = changes + 1
  /\ want[p] # f
  /\ want' = [want EXCEPT ![p] = f]
  /\ UNCHANGED <<claim, twin, rows, at, fresh, edits, aborts, created>>

Create(p) ==
  \/ Reserve(p) \/ CreateClaim(p) \/ MarkReserved(p) \/ RecoverOrphaned(p) \/ ResetClaim(p)
  \/ AddFinalizer(p) \/ InspectBeforeCreate(p) \/ PostCommits(p) \/ PostFails(p)
  \/ RelistCreated(p) \/ RefreshClaim(p)

Settle(p) ==
  \/ Confirm(p) \/ BindProviderID(p) \/ MarkConfirmed(p) \/ MarkConflict(p) \/ MarkOrphaned(p)

ApplyExisting(p) ==
  \/ GetClaim(p) \/ TakeSnapshot(p) \/ RelistBeforeMutation(p) \/ AuthorizeMutation(p)
  \/ MutateCommits(p) \/ MutateResponseLost(p) \/ MutateFails(p) \/ RelistMutated(p)
  \/ ReconcileClaim(p) \/ ReleaseClaimFinalizer(p) \/ ReleaseFinalizer(p) \/ DeleteClaim(p)
  \/ RebindConfirmed(p) \/ UpdateFingerprint(p)

Recover(p) == RecoverInterrupted(p) \/ InspectEvidence(p)

Work(p) == Plan(p) \/ Create(p) \/ Settle(p) \/ ApplyExisting(p) \/ Recover(p)

People ==
  \/ \E i \in Id, v \in RowValue : EditRow(i, v)
  \/ UserDeletesClaim
  \/ ToggleTwin
  \/ \E p \in Process, f \in Fp \cup {NoFp} : ChangeSources(p, f)

Next == (\E p \in Process : Work(p) \/ Abort(p)) \/ People

Spec == Init /\ [][Next]_vars

(***************************************************************************)
(* Fairness: a controller audits periodically, so it keeps working, and a  *)
(* FortiGate that is asked again and again finally commits.  Only the      *)
(* properties of a zone nobody else edits need it, so no more is assumed.  *)
(***************************************************************************)
Fairness(p) ==
  /\ WF_vars(edits = 0 /\ Work(p))
  /\ SF_vars(edits = 0 /\ PostCommits(p))
  /\ SF_vars(edits = 0 /\ MutateCommits(p))

FairSpec == Spec /\ \A p \in Process : Fairness(p)

-----------------------------------------------------------------------------
(***************************************************************************)
(* Properties.                                                             *)
(***************************************************************************)
\* A lost POST response, a restart or a rival controller never leads to a
\* second row: of the rows controllers created, at most one exists
\* (Manager.ReconcileCreate relists before every POST).
AtMostOneCreatedRow == \A i, j \in created : i = j

\* The claim lets go of its row - the claim is removed, or its provider ID is
\* cleared for a new one - only when no row a controller created remains
\* (Repository.recoverOrphaned, Manager.ReleaseAndDeleteClaim).
LetsGo ==
  /\ claim # NoClaim
  /\ \/ claim' = NoClaim
     \/ claim' # NoClaim /\ claim.pid # NoId /\ claim'.pid # claim.pid
BindingStep == LetsGo => created = {}
BindingKeptWhileRowExists == [][BindingStep]_vars

\* A mutation is authorized only by this controller's own, unique, Confirmed
\* claim, and the row it is bound to carried the claimed fingerprint when the zone
\* was relisted; it still does unless somebody else edits, whatever the other
\* controllers do between the relist and the last look at the claim
\* (Manager.ExecuteMutation, AuthorizeMutation).  The code compares the claim with
\* itself, so that it is the controller's own is a matter of the whole protocol.
AuthorizeStep ==
  \A p \in Process :
    (at[p].pc # "mutate" /\ at'[p].pc = "mutate") =>
      /\ claim # NoClaim
      /\ claim.phase = "Confirmed"
      /\ claim.cid = Cid[p]
      /\ ~twin
      /\ claim.pid \in Id /\ at[p].seen[claim.pid] = claim.fp
      /\ edits = 0 => rows[claim.pid] = claim.fp
MutationsAuthorized == [][AuthorizeStep]_vars

\* No controller step takes a claim out of Conflict: only people resolve it.
ConflictStep ==
  (claim # NoClaim /\ claim.phase = "Conflict" /\ edits' = edits) =>
    claim' # NoClaim /\ claim'.phase = "Conflict"
ConflictIsForPeople == [][ConflictStep]_vars

\* What openspec/specs/shared-zone-ownership/spec.md asks of a mutation: the
\* row that is updated or deleted is the one the claim is bound to.
BoundRowStep ==
  \A p \in Process :
    (at[p].pc # "mutate" /\ at'[p].pc = "mutate") => at[p].op.id = claim.pid
MutatesBoundRowOnly == [][BoundRowStep]_vars

\* The record is p's alone: nobody edits rows or claims, the claim is p's own
\* and no other controller's sources ask for the record.
Alone(p) ==
  /\ edits = 0
  /\ claim = NoClaim \/ claim.cid = Cid[p]
  /\ \A q \in Process \ {p} : want[q] = NoFp

Published(p) ==
  /\ claim # NoClaim
  /\ claim.phase = "Confirmed"
  /\ claim.cid = Cid[p]
  /\ claim.fp = want[p]
  /\ Present = {claim.pid}
  /\ rows[claim.pid] = want[p]
Satisfied(p) == IF want[p] = NoFp THEN Present = {} ELSE Published(p)

\* Interrupted operations converge: however often a controller is stopped while
\* its sources stay as they are, the zone ends up with exactly the row they ask
\* for, bound by a Confirmed claim, or with no row when they ask for none
\* (recoverInterruptedClaim, Reserve and ReconcileCreate together).
InterruptedWritesConverge ==
  \A p \in Process : <>[](Alone(p) /\ changes = 0 => Satisfied(p))

\* The scenario "Deleted hostname is published again" of the shared-zone
\* ownership specification, for sources that publish the same record as before
\* or nothing: whatever is interrupted, once they settle on publishing, the
\* record is there and its claim Confirmed.
SameRecord(p) == want[p] \in {Steady, NoFp} /\ (claim = NoClaim \/ claim.fp = Steady)
DeletedHostnamePublishedAgain ==
  \A p \in Process :
    [](Alone(p) /\ SameRecord(p)) => <>[](want[p] # NoFp => Published(p))

=============================================================================
