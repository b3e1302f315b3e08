--------------------------- MODULE TargetRuntimes ---------------------------
(***************************************************************************)
(* The runtimes of the configured targets: RuntimeManager                  *)
(* (internal/target/runtime.go), the isolation of conflicting targets      *)
(* (internal/target/target.go), and the audits and applies of the event    *)
(* mode that use them (cmd/fortigate-external-dns/platform.go).            *)
(*                                                                         *)
(* Several workers audit different targets at once.  Each lists all the    *)
(* targets, isolates the conflicting ones, and synchronizes the manager    *)
(* with what it found; only the synchronization holds a lock.  Meanwhile   *)
(* targets are created, edited and deleted and credentials rotated.        *)
(*                                                                         *)
(* A version stands for a UID and generation, an instance number for a     *)
(* pointer, a set of names for the domain filters.  Other targets keep the *)
(* informer scope as it is: audits that end because it changed are left    *)
(* out.                                                                    *)
(***************************************************************************)
EXTENDS Naturals, FiniteSets

CONSTANTS
  Key,         \* targets
  NoKey,       \* the job of the handler of a deleted target
  Worker,      \* goroutines
  Specs,       \* what a target can ask for: a scope and a mode
  NoTarget,    \* there is no such target
  NoRuntime,   \* there is no such runtime
  MaxEdits,    \* bound on changes of targets and credentials
  MaxFaults    \* bound on failing calls

\* keep: writes, but never removes and accepts others that do so;
\* dry: never writes; invalid: does not pass validation.
Modes == {"write", "keep", "dry", "invalid"}

ASSUME RuntimesAssumption ==
  /\ NoKey \notin Key
  /\ \A s \in Specs : s.mode \in Modes
  /\ MaxEdits \in Nat
  /\ MaxFaults \in Nat
  /\ IsFiniteSet(Key) /\ IsFiniteSet(Worker)

VARIABLES
  target,    \* the target objects
  secret,    \* the credentials they refer to
  deleted,   \* a deletion waits for its handler
  edits,     \* changes so far
  faults,    \* failed calls so far
  runtimes,  \* RuntimeManager.runtimes
  alive,     \* instances whose context is not cancelled
  job,       \* what each worker is doing
  during     \* history: what was live since an authorization began

vars == <<target, secret, deleted, edits, faults, runtimes, alive, job, during>>
world == <<target, secret, deleted, edits>>

Versions == 0..MaxEdits
\* The fingerprint of credentials covers the version of their objects, so that
\* what is restored is not what was there before.
Credential == 1..(MaxEdits + 1)
NoSecret == 0  \* missing, or not usable
Instances == 1..(2 * Cardinality(Key) + Cardinality(Worker))
Target == [ver : Versions, spec : Specs]
Runtime == [ver : Versions, spec : Specs, secret : Credential, inst : Instances]

ASSUME NothingAssumption == NoTarget \notin Target /\ NoRuntime \notin Runtime

Steps == {"idle", "listed", "active", "loaded", "swap", "look", "authorize", "get", "secrets",
          "again", "send"}
NoTargets == [k \in Key |-> NoTarget]
NoRuntimes == [k \in Key |-> NoRuntime]
Job == [pc : Steps, key : Key \cup {NoKey},
        list : [Key -> Target \cup {NoTarget}],
        keys : SUBSET Key,  \* the active targets, then the valid ones
        next : [Key -> Runtime \cup {NoRuntime}],
        runtime : Runtime \cup {NoRuntime}]
Idle == [pc |-> "idle", key |-> NoKey, list |-> NoTargets, keys |-> {},
         next |-> NoRuntimes, runtime |-> NoRuntime]

\* The variables hold values of the types the code declares; a runtime always
\* has credentials.
TypeOK ==
  /\ target \in [Key -> Target \cup {NoTarget}]
  /\ secret \in [Key -> Credential \cup {NoSecret}]
  /\ deleted \in BOOLEAN
  /\ edits \in 0..MaxEdits
  /\ faults \in 0..MaxFaults
  /\ runtimes \in [Key -> Runtime \cup {NoRuntime}]
  /\ alive \subseteq Instances
  /\ job \in [Worker -> Job]
  /\ during \in [Worker -> SUBSET [target : Target \cup {NoTarget},
                                   secret : Credential \cup {NoSecret}]]

\* The process starts with targets that exist and no runtime.
Init ==
  /\ target \in [Key -> [ver : {0}, spec : Specs] \cup {NoTarget}]
  /\ secret = [k \in Key |-> 1]
  /\ deleted = FALSE
  /\ edits = 0
  /\ faults = 0
  /\ runtimes = NoRuntimes
  /\ alive = {}
  /\ job = [w \in Worker |-> Idle]
  /\ during = [w \in Worker |-> {}]

-----------------------------------------------------------------------------
Go(w, l) == job' = [job EXCEPT ![w].pc = l]
Stop(w) == job' = [job EXCEPT ![w] = Idle] /\ during' = [during EXCEPT ![w] = {}]
At(w, l) == job[w].pc = l

\* writeScopesOverlap and nonDestructiveOverlapAllowed.
Conflict(s, t) ==
  /\ "dry" \notin {s.mode, t.mode}
  /\ s.scope \cap t.scope # {}
  /\ ~(s.mode = "keep" /\ t.mode = "keep")

\* validateDefinition.
Valid(t) == t # NoTarget /\ t.spec.mode # "invalid"

\* Resolver.Resolve: the token, its binding to the target and the CA are there.
Resolved(k) == secret[k] # NoSecret

(***************************************************************************)
(* loadTargetDefinitions.                                                  *)
(***************************************************************************)
\* A worker takes a target from the queue, which gives no other worker the same
\* one, and lists the targets.  The target may be gone by then.
List(w, k) ==
  /\ At(w, "idle")
  /\ \A v \in Worker : job[v].key # k
  /\ job' = [job EXCEPT ![w].pc = "listed", ![w].key = k, ![w].list = target]
  /\ UNCHANGED <<world, faults, runtimes, alive, during>>

\* TargetDeleted does the same for the one goroutine that handles deletions.
ListAfterDeletion(w) ==
  /\ At(w, "idle")
  /\ deleted
  /\ \A v \in Worker : At(v, "idle") \/ job[v].key # NoKey
  /\ deleted' = FALSE
  /\ job' = [job EXCEPT ![w].pc = "listed", ![w].key = NoKey, ![w].list = target]
  /\ UNCHANGED <<target, secret, edits, faults, runtimes, alive, during>>

\* ActiveDefinitions and sameActiveTarget: the listed targets that have a runtime
\* of the same version.
Snapshot(w) ==
  /\ At(w, "listed")
  /\ job' = [job EXCEPT ![w].pc = "active",
                         ![w].keys = {k \in Key : /\ job[w].list[k] # NoTarget
                                                  /\ runtimes[k] # NoRuntime
                                                  /\ runtimes[k].ver = job[w].list[k].ver}]
  /\ UNCHANGED <<world, faults, runtimes, alive, during>>

\* CheckCredentials: the reads of the targets in fails return an error.
Checked(k, fails) == k \notin fails /\ Resolved(k)

\* IsolateDefinitionsWithActive: which of the listed targets may run.
Isolated(list, active, fails) ==
  LET Candidate == {k \in Key : Valid(list[k]) /\ Checked(k, fails)}
      Incumbent == Candidate \cap active
      Clashes(k, S) == \E j \in S \ {k} : Conflict(list[j].spec, list[k].spec)
      Eligible == Incumbent \cup {k \in Candidate : ~Clashes(k, Incumbent)}
  IN  {k \in Eligible : ~Clashes(k, Eligible)}

\* Reads of Secrets fail for the targets in fails.
Faulty(fails) ==
  /\ fails # {} => faults < MaxFaults
  /\ faults' = IF fails = {} THEN faults ELSE faults + 1

Isolate(w) ==
  /\ At(w, "active")
  /\ \E fails \in SUBSET {k \in Key : job[w].list[k] # NoTarget} :
       /\ Faulty(fails)
       /\ job' = [job EXCEPT ![w].pc = "loaded",
                              ![w].keys = Isolated(job[w].list, @, fails)]
  /\ UNCHANGED <<world, runtimes, alive, during>>

(***************************************************************************)
(* RuntimeManager.Sync.                                                    *)
(***************************************************************************)
\* Mutant: a rotated Secret does not make the runtime another one.
ReusableWhateverSecret(k, t) == runtimes[k] # NoRuntime /\ runtimes[k].ver = t.ver

\* Definition and credentials have the fingerprints of the existing runtime.
Reusable(k, t) ==
  /\ runtimes[k] # NoRuntime
  /\ runtimes[k].ver = t.ver
  /\ runtimes[k].secret = secret[k]

Built(k, t, i) == [ver |-> t.ver, spec |-> t.spec, secret |-> secret[k], inst |-> i]

\* Mutant: only runtimes without a successor are stopped.
StoppedWithoutSuccessor(next) ==
  {k \in Key : runtimes[k] # NoRuntime /\ next[k] = NoRuntime}

\* Every old runtime that is not kept is stopped.
Stopped(next) == {k \in Key : runtimes[k] # NoRuntime /\ next[k] # runtimes[k]}

\* Runtime.stop cancels the context of the instance.
Cancelled(next) == {runtimes[k].inst : k \in Stopped(next)}

InUse ==
  {runtimes[k].inst : k \in {l \in Key : runtimes[l] # NoRuntime}}
  \cup {job[v].runtime.inst : v \in {u \in Worker : job[u].runtime # NoRuntime}}

\* ValidateAll: Sync refuses definitions that conflict.
Validated(list, keys) ==
  \A k, l \in keys : k # l => ~Conflict(list[k].spec, list[l].spec)

\* Numbers for the instances that are built.
Numbering(K) == {f \in [K -> Instances \ InUse] : \A k, l \in K : f[k] = f[l] => k = l}

\* Under syncMu: the new runtimes are built and the old ones stopped.  A target in
\* fails has an error with its Secret, client or resources, and no runtime.
SyncWith(w, fails) ==
  LET list == job[w].list
      Wanted == {k \in job[w].keys \ fails : Resolved(k)}
      Kept == {k \in Wanted : Reusable(k, list[k])}
      New == Wanted \ Kept
      inst == CHOOSE f \in Numbering(New) : TRUE
      next == [k \in Key |-> IF k \in Kept THEN runtimes[k]
                             ELSE IF k \in New THEN Built(k, list[k], inst[k])
                             ELSE NoRuntime]
  IN  /\ alive' = (alive \ Cancelled(next)) \cup {next[k].inst : k \in New}
      /\ job' = [job EXCEPT ![w].pc = "swap", ![w].next = next,
                             ![w].list = NoTargets, ![w].keys = {}]

Sync(w) ==
  /\ At(w, "loaded")
  /\ \A v \in Worker : ~At(v, "swap")
  /\ IF Validated(job[w].list, job[w].keys)
     THEN /\ \E fails \in SUBSET job[w].keys : Faulty(fails) /\ SyncWith(w, fails)
          /\ UNCHANGED during
     ELSE Stop(w) /\ UNCHANGED <<faults, alive>>
  /\ UNCHANGED <<world, runtimes>>

\* syncTargets: the target of the job is excluded, or its setup failed.
SetupFailed(w) == job[w].next[job[w].key] = NoRuntime

\* The map is replaced and the lock released.  A deletion is thereby handled, and
\* an audit goes on if its own target has been set up.
Swap(w) ==
  /\ At(w, "swap")
  /\ runtimes' = job[w].next
  /\ IF job[w].key = NoKey \/ SetupFailed(w)
     THEN Stop(w)
     ELSE /\ job' = [job EXCEPT ![w].pc = "look", ![w].next = NoRuntimes]
          /\ UNCHANGED during
  /\ UNCHANGED <<world, faults, alive>>

(***************************************************************************)
(* eventTargetExecutor.audit and Apply.                                    *)
(***************************************************************************)
\* The audit is prepared on whatever runtime the manager has by now.
LookUp(w) ==
  /\ At(w, "look")
  /\ LET r == runtimes[job[w].key]
     IN  IF r = NoRuntime
         THEN Stop(w)
         ELSE /\ job' = [job EXCEPT ![w].pc = "authorize", ![w].runtime = r]
              /\ UNCHANGED during
  /\ UNCHANGED <<world, faults, runtimes, alive>>

\* BindContext: the context of the job ends with that of its runtime.
Bound(w) == job[w].runtime.inst \in alive

RuntimeCurrent(w) == runtimes[job[w].key] = job[w].runtime /\ Bound(w)

Now(k) == [target |-> target[k], secret |-> secret[k]]

\* authorizeTargetRuntime, before each operation: the runtime is current, ...
Authorize(w) ==
  /\ At(w, "authorize")
  /\ IF RuntimeCurrent(w)
     THEN Go(w, "get") /\ during' = [during EXCEPT ![w] = {Now(job[w].key)}]
     ELSE Stop(w)
  /\ UNCHANGED <<world, faults, runtimes, alive>>

\* Mutant: the live target is not looked at.
GetTargetCached(w) ==
  /\ At(w, "get")
  /\ Go(w, "secrets")
  /\ UNCHANGED <<world, faults, runtimes, alive, during>>

\* ... the live target is the one it was built from, ...
GetTarget(w) ==
  /\ At(w, "get")
  /\ IF target[job[w].key] # NoTarget /\ target[job[w].key].ver = job[w].runtime.ver
     THEN Go(w, "secrets") /\ UNCHANGED during
     ELSE Stop(w)
  /\ UNCHANGED <<world, faults, runtimes, alive>>

\* ... so are the credentials, ...
CredentialsCurrent(w) ==
  /\ At(w, "secrets")
  /\ IF secret[job[w].key] = job[w].runtime.secret
     THEN Go(w, "again") /\ UNCHANGED during
     ELSE Stop(w)
  /\ UNCHANGED <<world, faults, runtimes, alive>>

\* ... and the runtime is still current.
AuthorizeAgain(w) ==
  /\ At(w, "again")
  /\ IF RuntimeCurrent(w)
     THEN Go(w, "send") /\ UNCHANGED during
     ELSE Stop(w)
  /\ UNCHANGED <<world, faults, runtimes, alive>>

\* The request is sent unless the context of the runtime has been cancelled, and
\* there is another operation.
Send(w) ==
  /\ At(w, "send")
  /\ Bound(w)
  /\ Go(w, "authorize")
  /\ during' = [during EXCEPT ![w] = {}]
  /\ UNCHANGED <<world, faults, runtimes, alive>>

\* The last operation, sent or cancelled.
Finish(w) ==
  /\ At(w, "send")
  /\ Stop(w)
  /\ UNCHANGED <<world, faults, runtimes, alive>>

\* A call to the API server or the device fails and the job ends with an error.
CallFails(w) ==
  /\ job[w].pc \in {"look", "authorize", "get", "secrets"}
  /\ faults < MaxFaults
  /\ faults' = faults + 1
  /\ Stop(w)
  /\ UNCHANGED <<world, runtimes, alive>>

(***************************************************************************)
(* Operators.                                                              *)
(***************************************************************************)
Remember ==
  during' = [w \in Worker |-> IF during[w] = {} THEN {}
                              ELSE during[w] \cup {Now(job[w].key)'}]

SetTarget(k, t) ==
  /\ target' = [target EXCEPT ![k] = t]
  /\ edits' = edits + 1
  /\ UNCHANGED <<secret, faults, runtimes, alive, job>>

\* Created, or edited: in both cases the version is a new one.
WriteTarget(k, s) ==
  /\ edits < MaxEdits
  /\ target[k] # NoTarget => target[k].spec # s
  /\ SetTarget(k, [ver |-> edits + 1, spec |-> s])
  /\ UNCHANGED deleted
  /\ Remember

DeleteTarget(k) ==
  /\ edits < MaxEdits
  /\ target[k] # NoTarget
  /\ SetTarget(k, NoTarget)
  /\ deleted' = TRUE
  /\ Remember

\* Rewritten, or removed.
Rotate(k, c) ==
  /\ edits < MaxEdits
  /\ secret[k] # c
  /\ secret' = [secret EXCEPT ![k] = c]
  /\ edits' = edits + 1
  /\ UNCHANGED <<target, deleted, faults, runtimes, alive, job>>
  /\ Remember

Work(w) ==
  \/ ListAfterDeletion(w) \/ Snapshot(w) \/ Isolate(w) \/ Sync(w) \/ Swap(w)
  \/ LookUp(w) \/ Authorize(w) \/ GetTarget(w) \/ CredentialsCurrent(w)
  \/ AuthorizeAgain(w) \/ Send(w) \/ Finish(w)

Operators ==
  \E k \in Key :
    \/ \E s \in Specs : WriteTarget(k, s)
    \/ DeleteTarget(k)
    \/ \E c \in {edits + 2, NoSecret} : Rotate(k, c)

Next ==
  \/ \E w \in Worker : Work(w) \/ CallFails(w) \/ \E k \in Key : List(w, k)
  \/ Operators

Spec == Init /\ [][Next]_vars

\* Goroutines run; periodic audits give every target its turn again and again;
\* an apply has finitely many operations.
Fairness ==
  /\ \A w \in Worker : WF_vars(Work(w)) /\ SF_vars(Finish(w))
  /\ \A k \in Key : SF_vars(target[k] # NoTarget /\ \E w \in Worker : List(w, k))

FairSpec == Spec /\ Fairness

-----------------------------------------------------------------------------
\* Runtimes whose context is not cancelled, in the map or in the hands of a worker.
Running ==
  {[key |-> k, runtime |-> runtimes[k]] : k \in {l \in Key : runtimes[l] # NoRuntime}}
  \cup {[key |-> job[w].key, runtime |-> job[w].runtime] :
          w \in {v \in Worker : job[v].runtime # NoRuntime}}

\* Two targets whose scopes conflict never run at once, whichever lists the
\* workers synchronized the manager with and in whatever order: Sync replaces
\* all runtimes under its lock and stops the old ones first.
OneWriterPerScope ==
  \A a, b \in {r \in Running : r.runtime.inst \in alive} :
    a.key # b.key => ~Conflict(a.runtime.spec, b.runtime.spec)

\* A request is about to be sent only for a target that existed in the version of
\* its runtime, with the credentials of its runtime, at some moment after its
\* authorization began: what was edited, deleted or rotated before that is
\* never used, although no lock is held across the four reads.
RequestsAuthorized ==
  \A w \in Worker :
    (At(w, "send") /\ Bound(w)) =>
      /\ \E n \in during[w] : n.target # NoTarget /\ n.target.ver = job[w].runtime.ver
      /\ \E n \in during[w] : n.secret = job[w].runtime.secret

Usable(k) == Valid(target[k]) /\ secret[k] # NoSecret

Uncontested(k) ==
  Usable(k) /\ \A l \in Key \ {k} : Usable(l) => ~Conflict(target[k].spec, target[l].spec)

Served(k) == /\ runtimes[k] # NoRuntime
             /\ runtimes[k].ver = target[k].ver
             /\ runtimes[k].secret = secret[k]
             /\ runtimes[k].inst \in alive

\* Once edits and failures end, every usable target without a conflict finally has
\* a live runtime of its current version and credentials for good, and while any
\* target is audited the runtimes of deleted ones are gone: no late Sync from an
\* old list has the last word.
RuntimesCatchUp ==
  \A k \in Key :
    <>[](/\ Uncontested(k) => Served(k)
         /\ (target[k] = NoTarget /\ \E l \in Key : target[l] # NoTarget)
              => runtimes[k] = NoRuntime)

\* A Sync keeps the current runtime of a target if its list had that target in its
\* present version: a newcomer does not revoke an unchanged writer by claiming
\* its scope.
UnchangedWriterKept ==
  [][\A w \in Worker, k \in Key :
       (/\ Sync(w) /\ faults' = faults
        /\ target[k] # NoTarget /\ job[w].list[k] = target[k]
        /\ Served(k))
       => runtimes[k].inst \in alive']_vars
=============================================================================
