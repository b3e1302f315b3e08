------------------------ MODULE TargetRuntimesProofs ------------------------
(***************************************************************************)
(* Proofs about the runtimes of the targets for every finite set of        *)
(* targets and of workers, all scopes and modes, and any number of edits   *)
(* and failures.                                                           *)
(***************************************************************************)
EXTENDS TargetRuntimes, FiniteSetTheorems, TLAPS

\* How far a worker has come, and what its job then holds.
JobShape(w) ==
  /\ job[w].pc \in {"look", "authorize", "get", "secrets", "again", "send"} => job[w].key \in Key
  /\ job[w].pc \in {"idle", "listed", "active", "loaded", "swap", "look"} =>
       job[w].runtime = NoRuntime
  /\ job[w].pc \in {"active", "loaded"} => \A k \in job[w].keys : job[w].list[k] # NoTarget

\* What an authorization has seen so far is part of the history since it began.
Evidence(w) ==
  /\ during[w] # {} => job[w].pc \in {"get", "secrets", "again", "send"}
  /\ job[w].pc \in {"get", "secrets", "again", "send"} => Now(job[w].key) \in during[w]
  /\ job[w].pc \in {"secrets", "again", "send"} =>
       \E n \in during[w] : n.target # NoTarget /\ n.target.ver = job[w].runtime.ver
  /\ job[w].pc \in {"again", "send"} =>
       \E n \in during[w] : n.secret = job[w].runtime.secret

\* Somewhere version v of target k says s.
Mentions(k, v, s) ==
  \/ target[k] # NoTarget /\ target[k].ver = v /\ target[k].spec = s
  \/ runtimes[k] # NoRuntime /\ runtimes[k].ver = v /\ runtimes[k].spec = s
  \/ \E w \in Worker :
       \/ job[w].list[k] # NoTarget /\ job[w].list[k].ver = v /\ job[w].list[k].spec = s
       \/ job[w].next[k] # NoRuntime /\ job[w].next[k].ver = v /\ job[w].next[k].spec = s

\* A version says one thing, wherever it is kept, and later versions are new.
VersionsFixed ==
  \A k \in Key, v \in Versions, s \in Specs :
    Mentions(k, v, s) => v <= edits /\ \A t \in Specs : Mentions(k, v, t) => s = t

\* No two targets of a set of runtimes conflict.
Compatible(map) ==
  \A k, l \in Key : (k # l /\ map[k] # NoRuntime /\ map[l] # NoRuntime) =>
                       ~Conflict(map[k].spec, map[l].spec)

\* The map, or a worker, has the runtime r of target k.
Holds(k, r) ==
  /\ r # NoRuntime
  /\ runtimes[k] = r \/ \E w \in Worker : job[w].key = k /\ job[w].runtime = r

\* Only the runtimes of the present map are live; while a worker replaces the
\* map, only those that the new one keeps.
LiveIsCurrent ==
  \A k \in Key, r \in Runtime : Holds(k, r) /\ r.inst \in alive =>
    /\ \A w \in Worker : At(w, "swap") => job[w].next[k] = r
    /\ (\A w \in Worker : ~At(w, "swap")) => runtimes[k] = r

\* The lock of Sync, and what it protects.
Locked ==
  /\ \A v, w \in Worker : At(v, "swap") /\ At(w, "swap") => v = w
  /\ Compatible(runtimes)
  /\ \A w \in Worker : At(w, "swap") => Compatible(job[w].next)

IInv ==
  /\ TypeOK
  /\ \A w \in Worker : JobShape(w) /\ Evidence(w)
  /\ VersionsFixed
  /\ Locked
  /\ LiveIsCurrent

-----------------------------------------------------------------------------
(***************************************************************************)
(* Jobs.                                                                   *)
(***************************************************************************)
\* The fields of a job have their types, and an idle worker has a job.
LEMMA JobFields ==
    /\ \A j \in Job : /\ j.pc \in Steps /\ j.key \in Key \cup {NoKey}
                      /\ j.list \in [Key -> Target \cup {NoTarget}] /\ j.keys \subseteq Key
                      /\ j.next \in [Key -> Runtime \cup {NoRuntime}]
                      /\ j.runtime \in Runtime \cup {NoRuntime}
    /\ Idle \in Job
    /\ Idle.pc = "idle" /\ Idle.key = NoKey /\ Idle.list = NoTargets /\ Idle.keys = {}
    /\ Idle.next = NoRuntimes /\ Idle.runtime = NoRuntime
  BY Zenon DEF Job, Idle, Steps, NoTargets, NoRuntimes

\* A worker that goes on with its job changes nothing but its position.
LEMMA GoesOn ==
    ASSUME TypeOK, NEW w \in Worker, NEW l \in Steps, Go(w, l)
    PROVE  /\ job' \in [Worker -> Job]
           /\ \A v \in Worker \ {w} : job'[v] = job[v]
           /\ job'[w].pc = l /\ job'[w].key = job[w].key /\ job'[w].list = job[w].list
           /\ job'[w].keys = job[w].keys /\ job'[w].next = job[w].next
           /\ job'[w].runtime = job[w].runtime
  BY ZenonT(60) DEF Go, TypeOK, Job

\* A worker that stops forgets its job and its history.
LEMMA Stops ==
    ASSUME TypeOK, NEW w \in Worker, Stop(w)
    PROVE  /\ job' \in [Worker -> Job]
           /\ during' \in [Worker -> SUBSET [target : Target \cup {NoTarget},
                                            secret : Credential \cup {NoSecret}]]
           /\ \A v \in Worker \ {w} : job'[v] = job[v] /\ during'[v] = during[v]
           /\ job'[w] = Idle /\ during'[w] = {}
  BY JobFields, Zenon DEF Stop, TypeOK

\* What is said of a version stays what it was when the targets are left alone and
\* the map and the jobs only take what is there.
LEMMA CopiesKeepVersions ==
    ASSUME IInv, UNCHANGED <<target, edits>>,
           \A k \in Key : \/ runtimes'[k] = runtimes[k]
                         \/ \E u \in Worker : runtimes'[k] = job[u].next[k],
           \A u \in Worker : /\ job'[u].list \in {job[u].list, target, NoTargets}
                             /\ job'[u].next \in {job[u].next, NoRuntimes}
    PROVE  VersionsFixed'
  <1>1. ASSUME NEW k \in Key, NEW v \in Versions, NEW s \in Specs, Mentions(k, v, s)'
        PROVE  Mentions(k, v, s)
    <2>1. NoTargets[k] = NoTarget /\ NoRuntimes[k] = NoRuntime
      BY Zenon DEF NoTargets, NoRuntimes
    <2>2. CASE target'[k] # NoTarget /\ target'[k].ver = v /\ target'[k].spec = s
      BY <2>2, Zenon DEF Mentions
    <2>3. CASE runtimes'[k] # NoRuntime /\ runtimes'[k].ver = v /\ runtimes'[k].spec = s
      <3>1. CASE runtimes'[k] = runtimes[k]
        BY <2>3, <3>1, Zenon DEF Mentions
      <3>2. ASSUME NEW u \in Worker, runtimes'[k] = job[u].next[k] PROVE Mentions(k, v, s)
        BY <2>3, <3>2, Zenon DEF Mentions
      <3> QED
        BY <3>1, <3>2, Zenon
    <2>4. ASSUME NEW u \in Worker, job'[u].list[k] # NoTarget,
                 job'[u].list[k].ver = v, job'[u].list[k].spec = s
          PROVE  Mentions(k, v, s)
      <3>1. job'[u].list[k] = job[u].list[k] \/ job'[u].list[k] = target[k]
        BY <2>1, <2>4, Zenon
      <3> QED
        BY <2>4, <3>1, Zenon DEF Mentions
    <2>5. ASSUME NEW u \in Worker, job'[u].next[k] # NoRuntime,
                 job'[u].next[k].ver = v, job'[u].next[k].spec = s
          PROVE  Mentions(k, v, s)
      <3>1. job'[u].next[k] = job[u].next[k]
        BY <2>1, <2>5, Zenon
      <3> QED
        BY <2>5, <3>1, Zenon DEF Mentions
    <2> QED
      BY <1>1, <2>2, <2>3, <2>4, <2>5, Zenon DEF Mentions
  <1> QED
    BY <1>1, Zenon DEF IInv, VersionsFixed

\* A worker whose job and history stay as they are keeps what holds of them.
LEMMA OthersKeep ==
    ASSUME IInv, UNCHANGED <<target, secret>>, NEW v \in Worker,
           job'[v] = job[v], during'[v] = during[v]
    PROVE  JobShape(v)' /\ Evidence(v)'
  <1>1. JobShape(v)'
    BY Zenon DEF IInv, JobShape
  <1>2. Evidence(v)'
    BY Zenon DEF IInv, Evidence, Now
  <1> QED
    BY <1>1, <1>2, Zenon

\* Nobody takes or gives back the lock, or holds a runtime that it did not.
LEMMA LockKept ==
    ASSUME Locked, LiveIsCurrent, UNCHANGED <<runtimes, alive>>,
           \A v \in Worker : /\ At(v, "swap")' <=> At(v, "swap")
                             /\ At(v, "swap") => job'[v].next = job[v].next,
           \A k \in Key, r \in Runtime : Holds(k, r)' => Holds(k, r)
    PROVE  Locked' /\ LiveIsCurrent'
  <1>1. Locked'
    BY Zenon DEF Locked, Compatible
  <1>2. LiveIsCurrent'
    BY Zenon DEF LiveIsCurrent
  <1> QED
    BY <1>1, <1>2, Zenon

\* A step of w that leaves the targets, the map and the live instances alone, does
\* not take or release the lock, and copies no more than the live targets and the
\* runtime of its own target keeps the invariant if it keeps that of its own job.
LEMMA JobStepKeeps ==
    ASSUME IInv, TypeOK', NEW w \in Worker,
           UNCHANGED <<target, secret, edits, runtimes, alive>>,
           \A v \in Worker \ {w} : job'[v] = job[v] /\ during'[v] = during[v],
           job[w].pc # "swap", job'[w].pc # "swap",
           job'[w].next \in {job[w].next, NoRuntimes},
           job'[w].list \in {job[w].list, target, NoTargets},
           \/ job'[w].runtime = NoRuntime
           \/ job'[w].runtime = job[w].runtime /\ job'[w].key = job[w].key
           \/ job'[w].runtime = runtimes[job'[w].key],
           JobShape(w)', Evidence(w)'
    PROVE  IInv'
  <1>1. ASSUME NEW v \in Worker PROVE JobShape(v)' /\ Evidence(v)'
    BY OthersKeep, Zenon
  <1>2. ASSUME NEW u \in Worker
        PROVE  /\ job'[u].list \in {job[u].list, target, NoTargets}
               /\ job'[u].next \in {job[u].next, NoRuntimes}
    BY Zenon
  <1>3. VersionsFixed'
    BY <1>2, CopiesKeepVersions, Zenon
  <1>4. ASSUME NEW v \in Worker
        PROVE  /\ At(v, "swap")' <=> At(v, "swap")
               /\ At(v, "swap") => job'[v].next = job[v].next
    BY Zenon DEF At
  <1>5. ASSUME NEW k \in Key, NEW r \in Runtime, Holds(k, r)' PROVE Holds(k, r)
    BY <1>5, ZenonT(60) DEF Holds
  <1>6. Locked' /\ LiveIsCurrent'
    BY <1>4, <1>5, LockKept, Zenon DEF IInv
  <1> QED
    BY <1>1, <1>3, <1>6, Zenon DEF IInv

\* A worker stops without having the lock.
LEMMA StopKeeps ==
    ASSUME IInv, NEW w \in Worker, Stop(w), job[w].pc # "swap",
           UNCHANGED <<target, secret, deleted, edits, runtimes, alive>>,
           faults' \in 0..MaxFaults
    PROVE  IInv'
  <1>1. TypeOK'
    BY Stops, Zenon DEF IInv, TypeOK
  <1>2. job'[w] = Idle /\ during'[w] = {}
        /\ \A v \in Worker \ {w} : job'[v] = job[v] /\ during'[v] = during[v]
    BY Stops, Zenon DEF IInv
  <1>3. JobShape(w)' /\ Evidence(w)'
    BY <1>2, JobFields, Zenon DEF JobShape, Evidence
  <1> QED
    BY <1>1, <1>2, <1>3, JobFields, JobStepKeeps, Zenon

\* A call fails.
LEMMA CallFailsKeeps == ASSUME IInv, NEW w \in Worker, CallFails(w) PROVE IInv'
  <1>1. faults' \in 0..MaxFaults
    BY RuntimesAssumption DEF CallFails, IInv, TypeOK
  <1> QED
    BY <1>1, StopKeeps, Zenon DEF CallFails, world

\* The last operation is over.
LEMMA FinishKeeps == ASSUME IInv, NEW w \in Worker, Finish(w) PROVE IInv'
  BY StopKeeps, Zenon DEF Finish, At, world, IInv, TypeOK

\* A worker lists the targets.
LEMMA ListKeeps == ASSUME IInv, NEW w \in Worker, NEW k \in Key, List(w, k) PROVE IInv'
  <1>1. /\ job' \in [Worker -> Job]
        /\ \A v \in Worker \ {w} : job'[v] = job[v]
        /\ job'[w].pc = "listed" /\ job'[w].key = k /\ job'[w].list = target
        /\ job'[w].next = job[w].next /\ job'[w].runtime = job[w].runtime
    BY DEF List, IInv, TypeOK, Job, Steps
  <1>2. /\ job[w].pc = "idle"
        /\ UNCHANGED <<target, secret, deleted, edits, faults, runtimes, alive, during>>
    BY Zenon DEF List, At, world
  <1>3. TypeOK'
    BY <1>1, <1>2, Zenon DEF IInv, TypeOK
  <1>4. JobShape(w)' /\ Evidence(w)' /\ job'[w].runtime = NoRuntime
    BY <1>1, <1>2, Zenon DEF IInv, JobShape, Evidence
  <1> QED
    BY <1>1, <1>2, <1>3, <1>4, JobStepKeeps, ZenonT(60)

\* The handler of deletions lists the targets.
LEMMA ListAfterDeletionKeeps == ASSUME IInv, NEW w \in Worker, ListAfterDeletion(w) PROVE IInv'
  <1>1. /\ job' \in [Worker -> Job]
        /\ \A v \in Worker \ {w} : job'[v] = job[v]
        /\ job'[w].pc = "listed" /\ job'[w].key = NoKey /\ job'[w].list = target
        /\ job'[w].next = job[w].next /\ job'[w].runtime = job[w].runtime
    <2>1. job \in [Worker -> Job] /\ target \in [Key -> Target \cup {NoTarget}]
      BY Zenon DEF IInv, TypeOK
    <2> DEFINE listed == [job[w] EXCEPT !.pc = "listed", !.key = NoKey, !.list = target]
    <2>2. listed \in Job
      BY <2>1, ZenonT(60) DEF Job, Steps
    <2>3. job' = [job EXCEPT ![w] = listed]
      BY <2>1, Zenon DEF ListAfterDeletion
    <2>4. /\ listed.pc = "listed" /\ listed.key = NoKey /\ listed.list = target
          /\ listed.next = job[w].next /\ listed.runtime = job[w].runtime
      BY <2>1, ZenonT(60) DEF Job
    <2> HIDE DEF listed
    <2> QED
      BY <2>1, <2>2, <2>3, <2>4, Zenon
  <1>2. /\ job[w].pc = "idle" /\ deleted' = FALSE
        /\ UNCHANGED <<target, secret, edits, faults, runtimes, alive, during>>
    BY Zenon DEF ListAfterDeletion, At
  <1>3. TypeOK'
    BY <1>1, <1>2, Zenon DEF IInv, TypeOK
  <1>4. JobShape(w)' /\ Evidence(w)' /\ job'[w].runtime = NoRuntime
    BY <1>1, <1>2, Zenon DEF IInv, JobShape, Evidence
  <1> QED
    BY <1>1, <1>2, <1>3, <1>4, JobStepKeeps, Zenon

\* A worker takes its snapshot of the active targets.
LEMMA SnapshotKeeps == ASSUME IInv, NEW w \in Worker, Snapshot(w) PROVE IInv'
  <1> DEFINE active == {k \in Key : /\ job[w].list[k] # NoTarget
                                     /\ runtimes[k] # NoRuntime
                                     /\ runtimes[k].ver = job[w].list[k].ver}
  <1>1. active \in SUBSET Key /\ \A k \in active : job[w].list[k] # NoTarget
    BY Zenon
  <1>2. job' = [job EXCEPT ![w].pc = "active", ![w].keys = active]
    BY Zenon DEF Snapshot
  <1> HIDE DEF active
  <1>3. /\ job' \in [Worker -> Job]
        /\ \A v \in Worker \ {w} : job'[v] = job[v]
        /\ job'[w].pc = "active" /\ job'[w].key = job[w].key /\ job'[w].list = job[w].list
        /\ job'[w].keys = active
        /\ job'[w].next = job[w].next /\ job'[w].runtime = job[w].runtime
    <2>1. job \in [Worker -> Job] /\ job[w] \in Job
      BY Zenon DEF IInv, TypeOK
    <2>2. [job[w] EXCEPT !.pc = "active", !.keys = active] \in Job
      BY <1>1, <2>1, ZenonT(60) DEF Job, Steps
    <2>3. job' = [job EXCEPT ![w] = [job[w] EXCEPT !.pc = "active", !.keys = active]]
      BY <1>2, <2>1, ZenonT(60)
    <2>4. /\ job'[w] = [job[w] EXCEPT !.pc = "active", !.keys = active]
          /\ job' \in [Worker -> Job]
          /\ \A v \in Worker \ {w} : job'[v] = job[v]
      BY <2>1, <2>2, <2>3, ZenonT(60)
    <2> QED
      BY <2>1, <2>4, ZenonT(60) DEF Job
  <1>4. /\ job[w].pc = "listed"
        /\ UNCHANGED <<target, secret, deleted, edits, faults, runtimes, alive, during>>
    BY Zenon DEF Snapshot, At, world
  <1>5. TypeOK'
    BY <1>3, <1>4, Zenon DEF IInv, TypeOK
  <1>6. JobShape(w)' /\ Evidence(w)'
    BY <1>1, <1>3, <1>4, ZenonT(60) DEF IInv, JobShape, Evidence
  <1> QED
    BY <1>3, <1>4, <1>5, <1>6, JobStepKeeps, Zenon

\* A worker isolates the conflicting targets.
LEMMA IsolateKeeps == ASSUME IInv, NEW w \in Worker, Isolate(w) PROVE IInv'
  <1>1. PICK fails \in SUBSET {k \in Key : job[w].list[k] # NoTarget} :
          /\ Faulty(fails)
          /\ job' = [job EXCEPT ![w].pc = "loaded",
                                 ![w].keys = Isolated(job[w].list, @, fails)]
    BY Zenon DEF Isolate
  <1>2. faults' \in 0..MaxFaults
    BY <1>1, RuntimesAssumption DEF Faulty, IInv, TypeOK
  <1>3. \A k \in Isolated(job[w].list, job[w].keys, fails) : k \in Key /\ job[w].list[k] # NoTarget
    BY Zenon DEF Isolated, Valid
  <1>4. /\ job' \in [Worker -> Job]
        /\ \A v \in Worker \ {w} : job'[v] = job[v]
        /\ job'[w].pc = "loaded" /\ job'[w].key = job[w].key /\ job'[w].list = job[w].list
        /\ job'[w].keys = Isolated(job[w].list, job[w].keys, fails)
        /\ job'[w].next = job[w].next /\ job'[w].runtime = job[w].runtime
    <2>1. job \in [Worker -> Job] /\ Isolated(job[w].list, job[w].keys, fails) \subseteq Key
      BY <1>3, Zenon DEF IInv, TypeOK
    <2> QED
      BY <1>1, <2>1, ZenonT(60) DEF Job, Steps
  <1>5. /\ job[w].pc = "active"
        /\ UNCHANGED <<target, secret, deleted, edits, runtimes, alive, during>>
    BY Zenon DEF Isolate, At, world
  <1>6. TypeOK'
    BY <1>2, <1>4, <1>5, Zenon DEF IInv, TypeOK
  <1>7. JobShape(w)' /\ Evidence(w)'
    BY <1>3, <1>4, <1>5, ZenonT(60) DEF IInv, JobShape, Evidence
  <1> QED
    BY <1>4, <1>5, <1>6, <1>7, JobStepKeeps, Zenon

\* The audit gets its runtime.
LEMMA LookUpKeeps == ASSUME IInv, NEW w \in Worker, LookUp(w) PROVE IInv'
  <1>1. job[w].pc = "look" /\ UNCHANGED <<target, secret, deleted, edits, faults, runtimes, alive>>
    BY Zenon DEF LookUp, At, world
  <1>2. CASE Stop(w)
    BY <1>1, <1>2, StopKeeps, Zenon DEF IInv, TypeOK
  <1>3. CASE ~Stop(w)
    <2>1. /\ job[w].key \in Key /\ runtimes[job[w].key] \in Runtime /\ UNCHANGED during
          /\ job' = [job EXCEPT ![w].pc = "authorize", ![w].runtime = runtimes[job[w].key]]
      BY <1>1, <1>3, Zenon DEF LookUp, IInv, TypeOK, JobShape
    <2>2. /\ job' \in [Worker -> Job]
          /\ \A v \in Worker \ {w} : job'[v] = job[v]
          /\ job'[w].pc = "authorize" /\ job'[w].key = job[w].key /\ job'[w].list = job[w].list
          /\ job'[w].next = job[w].next /\ job'[w].runtime = runtimes[job[w].key]
      <3>1. job \in [Worker -> Job]
        BY Zenon DEF IInv, TypeOK
      <3> DEFINE found == [job[w] EXCEPT !.pc = "authorize", !.runtime = runtimes[job[w].key]]
      <3>2. found \in Job
        BY <2>1, <3>1, ZenonT(60) DEF Job, Steps
      <3>3. job' = [job EXCEPT ![w] = found]
        BY <2>1, <3>1, Zenon
      <3>4. /\ found.pc = "authorize" /\ found.key = job[w].key /\ found.list = job[w].list
            /\ found.next = job[w].next /\ found.runtime = runtimes[job[w].key]
        BY <3>1, ZenonT(60) DEF Job
      <3> HIDE DEF found
      <3> QED
        BY <3>1, <3>2, <3>3, <3>4, Zenon
    <2>3. TypeOK'
      BY <1>1, <2>1, <2>2, Zenon DEF IInv, TypeOK
    <2>4. JobShape(w)' /\ Evidence(w)'
      BY <1>1, <2>1, <2>2, Zenon DEF IInv, JobShape, Evidence
    <2> QED
      BY <1>1, <2>1, <2>2, <2>3, <2>4, JobStepKeeps, Zenon
  <1> QED
    BY <1>2, <1>3, Zenon

\* An authorization begins, and with it its history.
LEMMA AuthorizeKeeps == ASSUME IInv, NEW w \in Worker, Authorize(w) PROVE IInv'
  <1>1. /\ job[w].pc = "authorize"
        /\ UNCHANGED <<target, secret, deleted, edits, faults, runtimes, alive>>
    BY Zenon DEF Authorize, At, world
  <1>2. CASE Stop(w)
    BY <1>1, <1>2, StopKeeps, Zenon DEF IInv, TypeOK
  <1>3. CASE ~Stop(w)
    <2>1. Go(w, "get") /\ during' = [during EXCEPT ![w] = {Now(job[w].key)}]
      BY <1>3, Zenon DEF Authorize
    <2>2. /\ job' \in [Worker -> Job]
          /\ \A v \in Worker \ {w} : job'[v] = job[v]
          /\ job'[w].pc = "get" /\ job'[w].key = job[w].key /\ job'[w].list = job[w].list
          /\ job'[w].next = job[w].next /\ job'[w].runtime = job[w].runtime
      BY <2>1, GoesOn, Zenon DEF IInv, Steps
    <2>3. TypeOK' /\ (\A v \in Worker \ {w} : during'[v] = during[v])
          /\ Now(job[w].key) \in during'[w]
      <3>1. job[w].key \in Key
        BY <1>1, Zenon DEF IInv, JobShape
      <3>2. Now(job[w].key) \in [target : Target \cup {NoTarget},
                                 secret : Credential \cup {NoSecret}]
        BY <3>1, Zenon DEF IInv, TypeOK, Now
      <3> QED
        BY <1>1, <2>1, <2>2, <3>2, Zenon DEF IInv, TypeOK
    <2>4. Evidence(w)'
      BY <1>1, <2>2, <2>3, Zenon DEF Evidence, Now
    <2>5. JobShape(w)'
      BY <1>1, <2>2, Zenon DEF IInv, JobShape
    <2> QED
      BY <1>1, <2>1, <2>2, <2>3, <2>4, <2>5, JobStepKeeps, Zenon
  <1> QED
    BY <1>2, <1>3, Zenon

\* The live target has the version of the runtime.
LEMMA GetTargetKeeps == ASSUME IInv, NEW w \in Worker, GetTarget(w) PROVE IInv'
  <1>1. job[w].pc = "get" /\ UNCHANGED <<target, secret, deleted, edits, faults, runtimes, alive>>
    BY Zenon DEF GetTarget, At, world
  <1>2. CASE Stop(w)
    BY <1>1, <1>2, StopKeeps, Zenon DEF IInv, TypeOK
  <1>3. CASE ~Stop(w)
    <2>1. Go(w, "secrets") /\ UNCHANGED during
      BY <1>3, Zenon DEF GetTarget
    <2>2. /\ job' \in [Worker -> Job]
          /\ \A v \in Worker \ {w} : job'[v] = job[v]
          /\ job'[w].pc = "secrets" /\ job'[w].key = job[w].key /\ job'[w].list = job[w].list
          /\ job'[w].next = job[w].next /\ job'[w].runtime = job[w].runtime
      BY <2>1, GoesOn, Zenon DEF IInv, Steps
    <2>3. TypeOK'
      BY <1>1, <2>1, <2>2, Zenon DEF IInv, TypeOK
    <2>4. Evidence(w)'
      <3>1. target[job[w].key] # NoTarget /\ target[job[w].key].ver = job[w].runtime.ver
        BY <1>3, Zenon DEF GetTarget
      <3>2. Now(job[w].key) \in during[w]
        BY <1>1, Zenon DEF IInv, Evidence
      <3> QED
        BY <1>1, <2>1, <2>2, <3>1, <3>2, Zenon DEF Evidence, Now
    <2>5. JobShape(w)'
      BY <1>1, <2>2, Zenon DEF IInv, JobShape
    <2> QED
      BY <1>1, <2>1, <2>2, <2>3, <2>4, <2>5, JobStepKeeps, Zenon
  <1> QED
    BY <1>2, <1>3, Zenon

\* The live credentials are those of the runtime.
LEMMA CredentialsCurrentKeeps == ASSUME IInv, NEW w \in Worker, CredentialsCurrent(w) PROVE IInv'
  <1>1. /\ job[w].pc = "secrets"
        /\ UNCHANGED <<target, secret, deleted, edits, faults, runtimes, alive>>
    BY Zenon DEF CredentialsCurrent, At, world
  <1>2. CASE Stop(w)
    BY <1>1, <1>2, StopKeeps, Zenon DEF IInv, TypeOK
  <1>3. CASE ~Stop(w)
    <2>1. Go(w, "again") /\ UNCHANGED during
      BY <1>3, Zenon DEF CredentialsCurrent
    <2>2. /\ job' \in [Worker -> Job]
          /\ \A v \in Worker \ {w} : job'[v] = job[v]
          /\ job'[w].pc = "again" /\ job'[w].key = job[w].key /\ job'[w].list = job[w].list
          /\ job'[w].next = job[w].next /\ job'[w].runtime = job[w].runtime
      BY <2>1, GoesOn, Zenon DEF IInv, Steps
    <2>3. TypeOK'
      BY <1>1, <2>1, <2>2, Zenon DEF IInv, TypeOK
    <2>4. Evidence(w)'
      <3>1. secret[job[w].key] = job[w].runtime.secret
        BY <1>3, Zenon DEF CredentialsCurrent
      <3>2. Evidence(w) /\ Now(job[w].key) \in during[w]
        BY <1>1, Zenon DEF IInv, Evidence
      <3> QED
        BY <1>1, <2>1, <2>2, <3>1, <3>2, Zenon DEF Evidence, Now
    <2>5. JobShape(w)'
      BY <1>1, <2>2, Zenon DEF IInv, JobShape
    <2> QED
      BY <1>1, <2>1, <2>2, <2>3, <2>4, <2>5, JobStepKeeps, Zenon
  <1> QED
    BY <1>2, <1>3, Zenon

\* The runtime is still the current one.
LEMMA AuthorizeAgainKeeps == ASSUME IInv, NEW w \in Worker, AuthorizeAgain(w) PROVE IInv'
  <1>1. job[w].pc = "again" /\ UNCHANGED <<target, secret, deleted, edits, faults, runtimes, alive>>
    BY Zenon DEF AuthorizeAgain, At, world
  <1>2. CASE Stop(w)
    BY <1>1, <1>2, StopKeeps, Zenon DEF IInv, TypeOK
  <1>3. CASE ~Stop(w)
    <2>1. Go(w, "send") /\ UNCHANGED during
      BY <1>3, Zenon DEF AuthorizeAgain
    <2>2. /\ job' \in [Worker -> Job]
          /\ \A v \in Worker \ {w} : job'[v] = job[v]
          /\ job'[w].pc = "send" /\ job'[w].key = job[w].key /\ job'[w].list = job[w].list
          /\ job'[w].next = job[w].next /\ job'[w].runtime = job[w].runtime
      BY <2>1, GoesOn, Zenon DEF IInv, Steps
    <2>3. TypeOK'
      BY <1>1, <2>1, <2>2, Zenon DEF IInv, TypeOK
    <2>4. Evidence(w)'
      <3>1. Now(job[w].key)' = Now(job[w].key)
        BY <1>1, <2>2, Zenon DEF Now
      <3>2. Evidence(w)
        BY Zenon DEF IInv
      <3> QED
        BY <1>1, <2>1, <2>2, <3>1, <3>2, ZenonT(60) DEF Evidence
    <2>5. JobShape(w)'
      BY <1>1, <2>2, Zenon DEF IInv, JobShape
    <2> QED
      BY <1>1, <2>1, <2>2, <2>3, <2>4, <2>5, JobStepKeeps, Zenon
  <1> QED
    BY <1>2, <1>3, Zenon

\* A request is sent, and the next operation is authorized anew.
LEMMA SendKeeps == ASSUME IInv, NEW w \in Worker, Send(w) PROVE IInv'
  <1>1. /\ job[w].pc = "send" /\ Go(w, "authorize") /\ during' = [during EXCEPT ![w] = {}]
        /\ UNCHANGED <<target, secret, deleted, edits, faults, runtimes, alive>>
    BY Zenon DEF Send, At, world
  <1>2. /\ job' \in [Worker -> Job]
        /\ \A v \in Worker \ {w} : job'[v] = job[v]
        /\ job'[w].pc = "authorize" /\ job'[w].key = job[w].key /\ job'[w].list = job[w].list
        /\ job'[w].next = job[w].next /\ job'[w].runtime = job[w].runtime
    BY <1>1, GoesOn, Zenon DEF IInv, Steps
  <1>3. TypeOK' /\ during'[w] = {} /\ \A v \in Worker \ {w} : during'[v] = during[v]
    BY <1>1, <1>2, Zenon DEF IInv, TypeOK
  <1>4. JobShape(w)' /\ Evidence(w)'
    BY <1>1, <1>2, <1>3, Zenon DEF IInv, JobShape, Evidence
  <1> QED
    BY <1>1, <1>2, <1>3, <1>4, JobStepKeeps, Zenon

-----------------------------------------------------------------------------
(***************************************************************************)
(* Operators.                                                              *)
(***************************************************************************)
\* An edit that gives a target no content but under a new version.
LEMMA EditKeeps ==
    ASSUME IInv, edits < MaxEdits, edits' = edits + 1, Remember, deleted' \in BOOLEAN,
           UNCHANGED <<faults, runtimes, alive, job>>,
           target' \in [Key -> Target \cup {NoTarget}],
           secret' \in [Key -> Credential \cup {NoSecret}],
           \A k \in Key : \/ target'[k] \in {target[k], NoTarget}
                          \/ target'[k].ver = edits + 1
    PROVE  IInv'
  <1>1. ASSUME NEW w \in Worker
        PROVE  /\ during'[w] = IF during[w] = {} THEN {} ELSE during[w] \cup {Now(job[w].key)'}
               /\ during'[w] \subseteq [target : Target \cup {NoTarget},
                                       secret : Credential \cup {NoSecret}]
    <2>1. during'[w] = IF during[w] = {} THEN {} ELSE during[w] \cup {Now(job[w].key)'}
      BY Zenon DEF Remember
    <2>2. CASE during[w] # {}
      <3>1. job[w].key \in Key
        BY <2>2, Zenon DEF IInv, Evidence, JobShape
      <3>2. Now(job[w].key)' \in [target : Target \cup {NoTarget},
                                  secret : Credential \cup {NoSecret}]
        BY <3>1, Zenon DEF Now
      <3> QED
        BY <2>1, <2>2, <3>2 DEF IInv, TypeOK
    <2> QED
      BY <2>1, <2>2, Zenon
  <1>2. TypeOK'
    <2>1. during' \in [Worker -> SUBSET [target : Target \cup {NoTarget},
                                         secret : Credential \cup {NoSecret}]]
      BY <1>1, Zenon DEF Remember
    <2>2. edits' \in 0..MaxEdits
      BY RuntimesAssumption DEF IInv, TypeOK
    <2> QED
      BY <2>1, <2>2, Zenon DEF IInv, TypeOK
  <1>3. ASSUME NEW w \in Worker PROVE JobShape(w)' /\ Evidence(w)'
    <2>1. JobShape(w)'
      BY Zenon DEF IInv, JobShape
    <2>2. Evidence(w)'
      BY <1>1, Zenon DEF IInv, Evidence
    <2> QED
      BY <2>1, <2>2, Zenon
  <1>4. VersionsFixed'
    <2>1. ASSUME NEW k \in Key, NEW v \in Versions, NEW s \in Specs, Mentions(k, v, s)'
          PROVE  \/ Mentions(k, v, s) /\ v <= edits
                 \/ v = edits + 1 /\ target'[k] # NoTarget /\ target'[k].spec = s
      <3>1. CASE target'[k] # NoTarget /\ target'[k].ver = v /\ target'[k].spec = s
        <4>1. CASE target'[k] = target[k]
          <5>1. Mentions(k, v, s)
            BY <3>1, <4>1, Zenon DEF Mentions
          <5> QED
            BY <5>1, Zenon DEF IInv, VersionsFixed
        <4> QED
          BY <3>1, <4>1, Zenon
      <3>2. CASE ~(target'[k] # NoTarget /\ target'[k].ver = v /\ target'[k].spec = s)
        <4>1. Mentions(k, v, s)
          BY <2>1, <3>2, Zenon DEF Mentions
        <4> QED
          BY <4>1, Zenon DEF IInv, VersionsFixed
      <3> QED
        BY <3>1, <3>2, Zenon
    <2>2. edits \in Nat /\ Versions \subseteq Nat
      BY RuntimesAssumption DEF IInv, TypeOK, Versions
    <2>3. ASSUME NEW v \in Versions
          PROVE  /\ v <= edits => v <= edits' /\ v # edits + 1
                 /\ v = edits + 1 => v <= edits'
      BY <2>2
    <2>4. ASSUME NEW k \in Key, NEW v \in Versions, NEW s \in Specs, Mentions(k, v, s)',
                 NEW t \in Specs, Mentions(k, v, t)'
          PROVE  v <= edits' /\ s = t
      <3>1. CASE v <= edits
        <4>1. Mentions(k, v, s) /\ Mentions(k, v, t)
          BY <2>1, <2>3, <2>4, <3>1, Zenon
        <4> QED
          BY <2>3, <3>1, <4>1, Zenon DEF IInv, VersionsFixed
      <3>2. CASE ~(v <= edits)
        <4>1. v = edits + 1 /\ target'[k].spec = s
          BY <2>1, <2>4, <3>2, Zenon
        <4>2. target'[k].spec = t
          BY <2>1, <2>4, <3>2, Zenon
        <4> QED
          BY <2>3, <4>1, <4>2, Zenon
      <3> QED
        BY <3>1, <3>2, Zenon
    <2> QED
      BY <2>4, Zenon DEF VersionsFixed
  <1>5. Locked' /\ LiveIsCurrent'
    <2>1. ASSUME NEW v \in Worker
          PROVE  /\ At(v, "swap")' <=> At(v, "swap")
                 /\ At(v, "swap") => job'[v].next = job[v].next
      BY Zenon DEF At
    <2>2. ASSUME NEW k \in Key, NEW r \in Runtime, Holds(k, r)' PROVE Holds(k, r)
      BY <2>2, Zenon DEF Holds
    <2> QED
      BY <2>1, <2>2, LockKept, Zenon DEF IInv
  <1> QED
    BY <1>2, <1>3, <1>4, <1>5, Zenon DEF IInv

\* The operators' steps.
LEMMA OperatorsKeep == ASSUME IInv, Operators PROVE IInv'
  <1>1. PICK k \in Key : \/ \E s \in Specs : WriteTarget(k, s)
                         \/ DeleteTarget(k)
                         \/ \E c \in {edits + 2, NoSecret} : Rotate(k, c)
    BY Zenon DEF Operators
  <1>2. edits \in Nat /\ MaxEdits \in Nat
    BY RuntimesAssumption DEF IInv, TypeOK
  <1>3. ASSUME NEW s \in Specs, WriteTarget(k, s) PROVE IInv'
    <2>1. [ver |-> edits + 1, spec |-> s] \in Target
      BY <1>2, <1>3 DEF WriteTarget, Target, Versions
    <2> QED
      BY <1>3, <2>1, EditKeeps, Zenon DEF WriteTarget, SetTarget, IInv, TypeOK
  <1>4. CASE DeleteTarget(k)
    BY <1>4, EditKeeps, Zenon DEF DeleteTarget, SetTarget, IInv, TypeOK
  <1>5. ASSUME NEW c \in {edits + 2, NoSecret}, Rotate(k, c) PROVE IInv'
    <2>1. c \in Credential \cup {NoSecret}
      BY <1>2, <1>5 DEF Rotate, Credential
    <2> QED
      BY <1>5, <2>1, EditKeeps, Zenon DEF Rotate, IInv, TypeOK
  <1> QED
    BY <1>1, <1>3, <1>4, <1>5, Zenon

-----------------------------------------------------------------------------
(***************************************************************************)
(* Synchronization.                                                        *)
(***************************************************************************)
\* The worker with the lock replaces the map and goes on or stops.
LEMMA SwapKeeps == ASSUME IInv, NEW w \in Worker, Swap(w) PROVE IInv'
  <1>1. /\ job[w].pc = "swap" /\ runtimes' = job[w].next
        /\ UNCHANGED <<target, secret, deleted, edits, faults, alive>>
    BY Zenon DEF Swap, At, world
  <1>2. /\ job \in [Worker -> Job] /\ job[w].runtime = NoRuntime /\ during[w] = {}
        /\ job[w].next \in [Key -> Runtime \cup {NoRuntime}]
    BY <1>1, JobFields, Zenon DEF IInv, TypeOK, JobShape, Evidence
  <1>3. /\ job' \in [Worker -> Job]
        /\ \A v \in Worker \ {w} : job'[v] = job[v] /\ during'[v] = during[v]
        /\ during' \in [Worker -> SUBSET [target : Target \cup {NoTarget},
                                         secret : Credential \cup {NoSecret}]]
        /\ during'[w] = {} /\ job'[w].runtime = NoRuntime /\ job'[w].next = NoRuntimes
        /\ job'[w].list \in {job[w].list, NoTargets}
        /\ \/ job'[w].pc = "look" /\ job'[w].key \in Key
           \/ job'[w].pc = "idle"
    <2>1. CASE Stop(w)
      BY <2>1, Stops, JobFields, Zenon DEF IInv
    <2>2. CASE ~Stop(w)
      <3>1. /\ job' = [job EXCEPT ![w].pc = "look", ![w].next = NoRuntimes]
            /\ UNCHANGED during /\ job[w].key # NoKey
        BY <2>2, Zenon DEF Swap
      <3> DEFINE going == [job[w] EXCEPT !.pc = "look", !.next = NoRuntimes]
      <3>2. going \in Job
        <4>1. NoRuntimes \in [Key -> Runtime \cup {NoRuntime}]
          BY Zenon DEF NoRuntimes
        <4>2. job[w] \in Job /\ "look" \in Steps
          BY <1>2, Zenon DEF Steps
        <4> QED
          BY <4>1, <4>2, Zenon DEF Job
      <3>3. job' = [job EXCEPT ![w] = going]
        BY <1>2, <3>1, Zenon
      <3>4. /\ going.pc = "look" /\ going.key = job[w].key /\ going.list = job[w].list
            /\ going.next = NoRuntimes /\ going.runtime = job[w].runtime
        BY <1>2 DEF Job
      <3>5. job[w].key \in Key
        BY <1>2, <3>1, JobFields, Zenon
      <3> HIDE DEF going
      <3> QED
        BY <1>2, <3>1, <3>2, <3>3, <3>4, <3>5, ZenonT(60) DEF IInv, TypeOK
    <2> QED
      BY <2>1, <2>2, Zenon
  <1>4. TypeOK'
    BY <1>1, <1>2, <1>3, Zenon DEF IInv, TypeOK
  <1>5. ASSUME NEW v \in Worker PROVE JobShape(v)' /\ Evidence(v)'
    <2>1. CASE v = w
      BY <1>3, <2>1, Zenon DEF JobShape, Evidence
    <2>2. CASE v # w
      BY <1>1, <1>3, <2>2, OthersKeep, Zenon
    <2> QED
      BY <2>1, <2>2, Zenon
  <1>6. ASSUME NEW u \in Worker
        PROVE  /\ job'[u].list \in {job[u].list, target, NoTargets}
               /\ job'[u].next \in {job[u].next, NoRuntimes}
    BY <1>3, Zenon
  <1>7. VersionsFixed'
    BY <1>1, <1>6, CopiesKeepVersions, Zenon
  <1>8. (\A v \in Worker : job'[v].pc # "swap") /\ Locked'
    <2>1. ASSUME NEW v \in Worker PROVE job'[v].pc # "swap"
      <3>1. CASE v = w
        BY <1>3, <3>1, Zenon
      <3>2. CASE v # w
        BY <1>1, <1>3, <3>2, Zenon DEF IInv, Locked, At
      <3> QED
        BY <3>1, <3>2, Zenon
    <2>2. Compatible(job[w].next)
      BY <1>1, Zenon DEF IInv, Locked, At
    <2>3. Compatible(runtimes)'
      BY <1>1, <2>2, Zenon DEF Compatible
    <2> QED
      BY <2>1, <2>3, Zenon DEF Locked, At
  <1>9. LiveIsCurrent'
    <2>1. ASSUME NEW k \in Key, NEW r \in Runtime, Holds(k, r)', r.inst \in alive
          PROVE  runtimes'[k] = r
      <3>1. ASSUME NEW u \in Worker, job'[u].key = k, job'[u].runtime = r
            PROVE  Holds(k, r)
        BY <1>3, <2>1, <3>1, Zenon DEF Holds
      <3>2. Holds(k, r) => job[w].next[k] = r
        BY <1>1, <2>1, Zenon DEF IInv, LiveIsCurrent, At
      <3> QED
        BY <1>1, <2>1, <3>1, <3>2, Zenon DEF Holds
    <2> QED
      BY <1>1, <1>8, <2>1, ZenonT(60) DEF LiveIsCurrent, At
  <1> QED
    BY <1>4, <1>5, <1>7, <1>8, <1>9, Zenon DEF IInv

\* The map and the workers hold at most one instance each.
LEMMA FewInUse ==
    ASSUME TypeOK
    PROVE  IsFiniteSet(InUse) /\ Cardinality(InUse) <= Cardinality(Key) + Cardinality(Worker)
  <1> DEFINE K == {l \in Key : runtimes[l] # NoRuntime}
             W == {u \in Worker : job[u].runtime # NoRuntime}
             ofMap == {runtimes[k].inst : k \in K}
             ofWork == {job[v].runtime.inst : v \in W}
  <1>1. /\ IsFiniteSet(K) /\ Cardinality(K) <= Cardinality(Key)
        /\ IsFiniteSet(W) /\ Cardinality(W) <= Cardinality(Worker)
    BY FS_Subset, RuntimesAssumption, Zenon
  <1>2. IsFiniteSet(ofMap) /\ Cardinality(ofMap) <= Cardinality(K)
    <2>1. [k \in K |-> runtimes[k].inst] \in Surjection(K, ofMap)
      BY Zenon DEF Surjection
    <2> QED
      BY <1>1, <2>1, FS_Surjection, Zenon
  <1>3. IsFiniteSet(ofWork) /\ Cardinality(ofWork) <= Cardinality(W)
    <2>1. [v \in W |-> job[v].runtime.inst] \in Surjection(W, ofWork)
      BY Zenon DEF Surjection
    <2> QED
      BY <1>1, <2>1, FS_Surjection, Zenon
  <1>4. InUse = ofMap \cup ofWork
    BY Zenon DEF InUse
  <1>5. /\ IsFiniteSet(ofMap \cup ofWork)
        /\ Cardinality(ofMap \cup ofWork)
             = Cardinality(ofMap) + Cardinality(ofWork) - Cardinality(ofMap \cap ofWork)
    BY <1>2, <1>3, FS_Union, Zenon
  <1>6. /\ Cardinality(ofMap) \in Nat /\ Cardinality(ofWork) \in Nat
        /\ Cardinality(ofMap \cap ofWork) \in Nat
        /\ Cardinality(K) \in Nat /\ Cardinality(W) \in Nat
        /\ Cardinality(Key) \in Nat /\ Cardinality(Worker) \in Nat
    BY <1>1, <1>2, <1>3, FS_CardinalityType, FS_Intersection, RuntimesAssumption, Zenon
  <1> HIDE DEF K, W, ofMap, ofWork
  <1> QED
    BY <1>1, <1>2, <1>3, <1>4, <1>5, <1>6

\* There are numbers for all the instances a synchronization may have to build.
LEMMA NumbersForAll == ASSUME TypeOK, NEW K \in SUBSET Key PROVE Numbering(K) # {}
  <1> DEFINE free == Instances \ InUse
  <1>1. /\ Cardinality(Key) \in Nat /\ Cardinality(Worker) \in Nat
        /\ IsFiniteSet(K) /\ Cardinality(K) \in Nat /\ Cardinality(K) <= Cardinality(Key)
    BY FS_CardinalityType, FS_Subset, RuntimesAssumption, Zenon
  <1>2. /\ IsFiniteSet(Instances)
        /\ Cardinality(Instances) = 2 * Cardinality(Key) + Cardinality(Worker)
    <2> DEFINE n == 2 * Cardinality(Key) + Cardinality(Worker)
    <2>1. n \in Nat /\ n \in Int /\ 1 \in Int
      BY <1>1
    <2> HIDE DEF n
    <2>2. IsFiniteSet(1..n) /\ Cardinality(1..n) = IF 1 > n THEN 0 ELSE n - 1 + 1
      BY <2>1, FS_Interval, Zenon
    <2>3. Cardinality(1..n) = n
      BY <2>1, <2>2
    <2> QED
      BY <2>2, <2>3, Zenon DEF Instances, n
  <1>3. /\ IsFiniteSet(free)
        /\ Cardinality(free) = Cardinality(Instances) - Cardinality(Instances \cap InUse)
    BY <1>2, FS_Difference, Zenon
  <1>4. Cardinality(Instances \cap InUse) <= Cardinality(InUse)
    BY FewInUse, FS_Intersection, Zenon
  <1>5. /\ Cardinality(free) \in Nat /\ Cardinality(InUse) \in Nat
        /\ Cardinality(Instances \cap InUse) \in Nat
    BY <1>2, <1>3, FewInUse, FS_CardinalityType, FS_Intersection, Zenon
  <1>6. Cardinality(K) <= Cardinality(free)
    <2> HIDE DEF free
    <2> QED
      BY <1>1, <1>2, <1>3, <1>4, <1>5, FewInUse
  <1>7. PICK f \in Bijection(1..Cardinality(K), K) : TRUE
    BY <1>1, FS_CardinalityType, Zenon DEF ExistsBijection
  <1>8. PICK g \in Bijection(1..Cardinality(free), free) : TRUE
    BY <1>3, FS_CardinalityType, Zenon DEF ExistsBijection
  <1> DEFINE at(k) == CHOOSE i \in 1..Cardinality(K) : f[i] = k
             num == [k \in K |-> g[at(k)]]
  <1>9. ASSUME NEW k \in K
        PROVE  at(k) \in 1..Cardinality(K) /\ at(k) \in 1..Cardinality(free) /\ f[at(k)] = k
    <2>1. at(k) \in 1..Cardinality(K) /\ f[at(k)] = k
      BY <1>7, Zenon DEF Bijection, Surjection
    <2> HIDE DEF at, free
    <2> QED
      BY <1>1, <1>5, <1>6, <2>1
  <1>10. \A i, j \in 1..Cardinality(free) : g[i] = g[j] => i = j
    BY <1>8, Zenon DEF Bijection, Injection, IsInjective
  <1>11. g \in [1..Cardinality(free) -> free]
    BY <1>8, Zenon DEF Bijection, Injection
  <1> HIDE DEF at
  <1>12. num \in [K -> free] /\ \A k, l \in K : num[k] = num[l] => k = l
    <2> HIDE DEF free
    <2>1. \A k \in K : g[at(k)] \in free
      BY <1>9, <1>11, Zenon
    <2>2. ASSUME NEW k \in K, NEW l \in K, g[at(k)] = g[at(l)] PROVE k = l
      BY <1>9, <1>10, <2>2, Zenon
    <2> QED
      BY <2>1, <2>2, Zenon
  <1> QED
    BY <1>12, Zenon DEF Numbering

\* A worker with the lock has built the new runtimes and stopped the old ones.
LEMMA SyncWithKeeps ==
    ASSUME IInv, NEW w \in Worker, job[w].pc = "loaded", \A v \in Worker : job[v].pc # "swap",
           Validated(job[w].list, job[w].keys),
           NEW fails \in SUBSET job[w].keys, Faulty(fails), SyncWith(w, fails),
           UNCHANGED <<target, secret, deleted, edits, runtimes, during>>
    PROVE  IInv'
  <1> DEFINE list == job[w].list
             Wanted == {k \in job[w].keys \ fails : Resolved(k)}
             Kept == {k \in Wanted : Reusable(k, list[k])}
             New == Wanted \ Kept
             inst == CHOOSE f \in Numbering(New) : TRUE
             next == [k \in Key |-> IF k \in Kept THEN runtimes[k]
                                    ELSE IF k \in New THEN Built(k, list[k], inst[k])
                                    ELSE NoRuntime]
             done == [job[w] EXCEPT !.pc = "swap", !.next = next,
                                    !.list = NoTargets, !.keys = {}]
  <1>1. /\ alive' = (alive \ Cancelled(next)) \cup {next[k].inst : k \in New}
        /\ job' = [job EXCEPT ![w].pc = "swap", ![w].next = next,
                              ![w].list = NoTargets, ![w].keys = {}]
    BY Zenon DEF SyncWith
  <1>2. /\ job \in [Worker -> Job] /\ job[w] \in Job /\ job[w].runtime = NoRuntime /\ during[w] = {}
        /\ list \in [Key -> Target \cup {NoTarget}] /\ job[w].keys \subseteq Key
        /\ \A k \in job[w].keys : list[k] # NoTarget
    BY JobFields, Zenon DEF IInv, TypeOK, JobShape, Evidence
  <1>3. Wanted \subseteq Key /\ Kept \subseteq Wanted /\ New \subseteq Key
    BY <1>2, Zenon
  <1>4. ASSUME NEW k \in Wanted PROVE list[k] \in Target /\ secret[k] \in Credential
    BY <1>2, <1>4, Zenon DEF Resolved, IInv, TypeOK
  <1>5. inst \in [New -> Instances \ InUse]
    <2>1. Numbering(New) # {}
      BY <1>3, NumbersForAll, Zenon DEF IInv
    <2> QED
      BY <2>1, Zenon DEF Numbering
  <1> HIDE DEF inst
  <1>6. ASSUME NEW k \in Kept
        PROVE  /\ next[k] \in Runtime /\ next[k] # NoRuntime
               /\ next[k].ver = list[k].ver /\ next[k].spec = list[k].spec
    <2>1. /\ k \in Key /\ next[k] = runtimes[k] /\ runtimes[k] \in Runtime
          /\ runtimes[k] # NoRuntime /\ runtimes[k].ver = list[k].ver
      BY <1>3, <1>6, Zenon DEF Reusable, IInv, TypeOK
    <2>2. list[k] # NoTarget /\ list[k].ver \in Versions /\ list[k].spec \in Specs
          /\ runtimes[k].spec \in Specs
      BY <1>4, <1>6, <2>1, NothingAssumption, Zenon DEF Target, Runtime
    <2>3. Mentions(k, list[k].ver, list[k].spec) /\ Mentions(k, list[k].ver, runtimes[k].spec)
      BY <2>1, <2>2, ZenonT(60) DEF Mentions
    <2> QED
      BY <2>1, <2>2, <2>3, ZenonT(60) DEF IInv, VersionsFixed
  <1>7. ASSUME NEW k \in New
        PROVE  /\ next[k] \in Runtime /\ next[k] # NoRuntime
               /\ next[k].ver = list[k].ver /\ next[k].spec = list[k].spec
               /\ next[k].inst \in Instances \ InUse
    <2>1. next[k] = Built(k, list[k], inst[k]) /\ inst[k] \in Instances \ InUse
      BY <1>3, <1>5, <1>7, Zenon
    <2>2. list[k] \in Target /\ secret[k] \in Credential
      BY <1>4, <1>7, Zenon
    <2>3. list[k].ver \in Versions /\ list[k].spec \in Specs /\ inst[k] \in Instances
      BY <2>1, <2>2, ZenonT(60) DEF Target
    <2> HIDE DEF next, list
    <2>4. next[k] \in Runtime
      BY <2>1, <2>2, <2>3, SMTT(60) DEF Built, Runtime
    <2> QED
      BY <2>1, <2>4, NothingAssumption, SMTT(60) DEF Built
  <1>8. ASSUME NEW k \in Key \ Wanted PROVE next[k] = NoRuntime
    BY <1>8, Zenon
  <1>9. next \in [Key -> Runtime \cup {NoRuntime}]
    <2>1. \A k \in Key : next[k] \in Runtime \cup {NoRuntime}
      BY <1>6, <1>7, <1>8, Zenon
    <2> QED
      BY <2>1, Zenon
  <1> HIDE DEF next
  <1>10. Compatible(next)
    <2>1. ASSUME NEW k \in Key, next[k] # NoRuntime
          PROVE  k \in job[w].keys /\ next[k].spec = list[k].spec
      BY <1>6, <1>7, <1>8, <2>1, Zenon
    <2> QED
      BY <2>1, Zenon DEF Compatible, Validated
  <1>11. /\ job' \in [Worker -> Job]
         /\ \A v \in Worker \ {w} : job'[v] = job[v]
         /\ job'[w].pc = "swap" /\ job'[w].key = job[w].key /\ job'[w].list = NoTargets
         /\ job'[w].next = next /\ job'[w].runtime = NoRuntime
    <2>1. done \in Job
      <3>1. NoTargets \in [Key -> Target \cup {NoTarget}] /\ "swap" \in Steps
        BY Zenon DEF NoTargets, Steps
      <3> QED
        BY <1>2, <1>9, <3>1, Zenon DEF Job
    <2>2. job' = [job EXCEPT ![w] = done]
      BY <1>1, <1>2, Zenon
    <2>3. /\ done.pc = "swap" /\ done.key = job[w].key /\ done.list = NoTargets
          /\ done.next = next /\ done.runtime = NoRuntime
      BY <1>2, Zenon DEF Job
    <2> HIDE DEF done
    <2> QED
      BY <1>2, <2>1, <2>2, <2>3, Zenon
  <1>12. TypeOK'
    <2>1. faults' \in 0..MaxFaults
      BY RuntimesAssumption DEF Faulty, IInv, TypeOK
    <2>2. alive' \subseteq Instances
      BY <1>1, <1>7, ZenonT(60) DEF IInv, TypeOK
    <2> QED
      BY <1>11, <2>1, <2>2, ZenonT(60) DEF IInv, TypeOK
  <1>13. ASSUME NEW v \in Worker PROVE JobShape(v)' /\ Evidence(v)'
    <2>1. CASE v = w
      <3>1. JobShape(w)'
        BY <1>11, Zenon DEF JobShape
      <3>2. Evidence(w)'
        BY <1>2, <1>11, Zenon DEF Evidence
      <3> QED
        BY <2>1, <3>1, <3>2, Zenon
    <2>2. CASE v # w
      BY <1>11, <2>2, OthersKeep, Zenon
    <2> QED
      BY <2>1, <2>2, Zenon
  <1>14. ASSUME NEW k \in Key, NEW v \in Versions, NEW s \in Specs, Mentions(k, v, s)'
         PROVE  Mentions(k, v, s)
    <2>1. CASE next[k] # NoRuntime /\ next[k].ver = v /\ next[k].spec = s
      <3>1. list[k] # NoTarget /\ list[k].ver = v /\ list[k].spec = s
        BY <1>2, <1>6, <1>7, <1>8, <2>1, ZenonT(60)
      <3> QED
        BY <3>1, Zenon DEF Mentions
    <2>2. CASE ~(next[k] # NoRuntime /\ next[k].ver = v /\ next[k].spec = s)
      <3>1. NoTargets[k] = NoTarget
        BY Zenon DEF NoTargets
      <3>2. ASSUME NEW u \in Worker,
                   \/ /\ job'[u].list[k] # NoTarget
                      /\ job'[u].list[k].ver = v /\ job'[u].list[k].spec = s
                   \/ /\ job'[u].next[k] # NoRuntime
                      /\ job'[u].next[k].ver = v /\ job'[u].next[k].spec = s
            PROVE  job'[u] = job[u]
        BY <1>11, <2>2, <3>1, <3>2, Zenon
      <3> QED
        BY <1>14, <3>2, Zenon DEF Mentions
    <2> QED
      BY <2>1, <2>2, Zenon
  <1>15. VersionsFixed'
    BY <1>14, Zenon DEF IInv, VersionsFixed
  <1>16. Locked'
    BY <1>10, <1>11, ZenonT(60) DEF IInv, Locked, At, Compatible
  <1>17. LiveIsCurrent'
    <2>1. ASSUME NEW k \in Key, NEW r \in Runtime, Holds(k, r)', r.inst \in alive'
          PROVE  next[k] = r
      <3>1. Holds(k, r)
        BY <1>11, <2>1, Zenon DEF Holds
      <3>2. r.inst \in InUse
        BY <3>1, Zenon DEF Holds, InUse
      <3>3. r.inst \in alive /\ r.inst \notin Cancelled(next)
        BY <1>1, <1>7, <2>1, <3>2, ZenonT(60)
      <3>4. runtimes[k] = r /\ r # NoRuntime
        BY <3>1, <3>3, Zenon DEF IInv, LiveIsCurrent, At, Holds
      <3> QED
        BY <3>3, <3>4, Zenon DEF Cancelled, Stopped
    <2> QED
      BY <1>11, <2>1, Zenon DEF LiveIsCurrent, At
  <1> QED
    BY <1>12, <1>13, <1>15, <1>16, <1>17, ZenonT(60) DEF IInv

\* A synchronization, refused or carried out.
LEMMA SyncKeeps == ASSUME IInv, NEW w \in Worker, Sync(w) PROVE IInv'
  <1>1. /\ job[w].pc = "loaded" /\ \A v \in Worker : job[v].pc # "swap"
        /\ UNCHANGED <<target, secret, deleted, edits, runtimes>>
    BY Zenon DEF Sync, At, world
  <1>2. CASE Validated(job[w].list, job[w].keys)
    <2>1. UNCHANGED during /\ \E fails \in SUBSET job[w].keys : Faulty(fails) /\ SyncWith(w, fails)
      BY <1>2, Zenon DEF Sync
    <2> QED
      BY <1>1, <1>2, <2>1, SyncWithKeeps, Zenon
  <1>3. CASE ~Validated(job[w].list, job[w].keys)
    BY <1>1, <1>3, StopKeeps, Zenon DEF Sync, IInv, TypeOK
  <1> QED
    BY <1>2, <1>3, Zenon

-----------------------------------------------------------------------------
\* No runtime is live at the start, and no worker has a job.
LEMMA InitEstablishes == ASSUME Init PROVE IInv
  <1>1. TypeOK
    <2>1. target \in [Key -> Target \cup {NoTarget}]
      BY RuntimesAssumption DEF Init, Target, Versions
    <2>2. secret \in [Key -> Credential \cup {NoSecret}]
      BY RuntimesAssumption DEF Init, Credential
    <2>3. edits \in 0..MaxEdits /\ faults \in 0..MaxFaults
      BY RuntimesAssumption DEF Init
    <2> QED
      BY <2>1, <2>2, <2>3, JobFields, ZenonT(60) DEF Init, TypeOK, NoRuntimes
  <1>2. ASSUME NEW w \in Worker PROVE JobShape(w) /\ Evidence(w)
    BY JobFields, Zenon DEF Init, JobShape, Evidence
  <1>3. VersionsFixed
    <2>1. ASSUME NEW k \in Key, NEW v \in Versions, NEW s \in Specs, Mentions(k, v, s)
          PROVE  target[k] # NoTarget /\ target[k].ver = v /\ target[k].spec = s /\ v = 0
      <3>1. /\ runtimes[k] = NoRuntime
            /\ \A w \in Worker : job[w].list[k] = NoTarget /\ job[w].next[k] = NoRuntime
        BY JobFields, Zenon DEF Init, NoRuntimes, NoTargets
      <3> QED
        BY <2>1, <3>1, Zenon DEF Mentions, Init
    <2> QED
      BY <2>1 DEF VersionsFixed, Init
  <1>4. Locked /\ LiveIsCurrent
    BY JobFields, Zenon DEF Init, Locked, LiveIsCurrent, At, Compatible, NoRuntimes
  <1> QED
    BY <1>1, <1>2, <1>3, <1>4, Zenon DEF IInv

\* Every step keeps the invariant.
LEMMA InvariantInductive == ASSUME IInv, [Next]_vars PROVE IInv'
  <1>1. CASE UNCHANGED vars
    <2> USE <1>1 DEF vars
    <2>1. TypeOK'
      BY Zenon DEF IInv, TypeOK
    <2>2. \A w \in Worker : JobShape(w)' /\ Evidence(w)'
      BY Zenon DEF IInv, JobShape, Evidence, Now
    <2>3. VersionsFixed'
      <3>1. ASSUME NEW k \in Key, NEW v \in Versions, NEW s \in Specs
            PROVE  Mentions(k, v, s)' <=> Mentions(k, v, s)
        BY Zenon DEF Mentions
      <3> QED
        BY <3>1, Zenon DEF IInv, VersionsFixed
    <2>4. Locked'
      BY Zenon DEF IInv, Locked, Compatible, At
    <2>5. LiveIsCurrent'
      BY ZenonT(60) DEF IInv, LiveIsCurrent, Holds, At
    <2> QED
      BY <2>1, <2>2, <2>3, <2>4, <2>5, ZenonT(60) DEF IInv
  <1>2. CASE Operators
    BY <1>2, OperatorsKeep, Zenon
  <1>3. ASSUME NEW w \in Worker, Work(w) \/ CallFails(w) \/ \E k \in Key : List(w, k) PROVE IInv'
    BY <1>3, CallFailsKeeps, ListKeeps, ListAfterDeletionKeeps, SnapshotKeeps, IsolateKeeps,
       SyncKeeps, SwapKeeps, LookUpKeeps, AuthorizeKeeps, GetTargetKeeps,
       CredentialsCurrentKeeps, AuthorizeAgainKeeps, SendKeeps, FinishKeeps, Zenon DEF Work
  <1> QED
    BY <1>1, <1>2, <1>3, Zenon DEF Next

\* What the proofs rest on: a version of a target says one thing wherever a
\* copy of it is kept, and whoever holds a live runtime holds the one that the
\* manager has, or will have when it releases its lock.
THEOREM RuntimesInvariant == Spec => []IInv
  BY InitEstablishes, InvariantInductive, PTL DEF Spec

\* The variables always have the declared types, so that every runtime was built
\* with credentials.
THEOREM RuntimesTyped == Spec => []TypeOK
  <1>1. IInv => TypeOK
    BY Zenon DEF IInv
  <1> QED
    BY <1>1, RuntimesInvariant, PTL

\* Live runtimes of different targets never conflict: RuntimeManager.Sync stops
\* the old ones before the new ones can be seen, whatever lists the workers
\* bring and however the targets have changed since.
THEOREM LiveRuntimesCompatible == Spec => []OneWriterPerScope
  <1>1. IInv => OneWriterPerScope
    <2> SUFFICES ASSUME IInv, NEW a \in Running, NEW b \in Running, a.runtime.inst \in alive,
                        b.runtime.inst \in alive, a.key # b.key
                 PROVE  ~Conflict(a.runtime.spec, b.runtime.spec)
      BY Zenon DEF OneWriterPerScope
    <2>1. ASSUME NEW c \in Running
          PROVE  c.key \in Key /\ c.runtime \in Runtime /\ Holds(c.key, c.runtime)
      <3>1. CASE \E k \in Key : runtimes[k] # NoRuntime /\ c = [key |-> k, runtime |-> runtimes[k]]
        BY <3>1, SMTT(60) DEF Holds, IInv, TypeOK
      <3>2. ASSUME NEW w \in Worker, job[w].runtime # NoRuntime,
                   c = [key |-> job[w].key, runtime |-> job[w].runtime]
            PROVE  c.key \in Key /\ c.runtime \in Runtime /\ Holds(c.key, c.runtime)
        <4>1. job[w].pc \in Steps /\ job[w].runtime \in Runtime
          BY <3>2, JobFields, Zenon DEF IInv, TypeOK
        <4>2. job[w].key \in Key
          BY <3>2, <4>1, Zenon DEF IInv, JobShape, Steps
        <4> QED
          BY <3>2, <4>1, <4>2, Zenon DEF Holds
      <3> QED
        BY <3>1, <3>2, ZenonT(60) DEF Running
    <2>2. CASE \E w \in Worker : At(w, "swap")
      <3>1. PICK w \in Worker : At(w, "swap")
        BY <2>2, Zenon
      <3>2. job[w].next[a.key] = a.runtime /\ job[w].next[b.key] = b.runtime
        BY <2>1, <3>1, ZenonT(60) DEF IInv, LiveIsCurrent
      <3> QED
        BY <2>1, <3>1, <3>2, NothingAssumption, Zenon DEF IInv, Locked, Compatible
    <2>3. CASE \A w \in Worker : ~At(w, "swap")
      <3>1. runtimes[a.key] = a.runtime /\ runtimes[b.key] = b.runtime
        BY <2>1, <2>3, Zenon DEF IInv, LiveIsCurrent
      <3> QED
        BY <2>1, <3>1, NothingAssumption, Zenon DEF IInv, Locked, Compatible
    <2> QED
      BY <2>2, <2>3, Zenon
  <1> QED
    BY <1>1, RuntimesInvariant, PTL

\* When a request is about to be sent, its target has existed in the version of the
\* runtime, and with its credentials, since authorizeTargetRuntime began.
THEOREM RequestsAreAuthorized == Spec => []RequestsAuthorized
  <1>1. IInv => RequestsAuthorized
    BY Zenon DEF IInv, Evidence, RequestsAuthorized, At
  <1> QED
    BY <1>1, RuntimesInvariant, PTL
=============================================================================
