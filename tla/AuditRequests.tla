---------------------------- MODULE AuditRequests ----------------------------
(***************************************************************************)
(* What the rest of the program relies on when it hands audit requests to  *)
(* the work queue of the event runtime, without timers, holds, retries or  *)
(* the client-go queue: a request that was accepted is answered by a       *)
(* delivery that begins after it, a target is never audited twice at the   *)
(* same time or after its deletion, and no more than the configured number *)
(* of audits runs at once.                                                 *)
(***************************************************************************)
EXTENDS Naturals, FiniteSets

CONSTANTS
  Key,      \* target keys
  Workers   \* number of worker goroutines

VARIABLES
  asked,    \* keys with an accepted request that no delivery has answered
  busy,     \* keys a worker is auditing
  barred,   \* keys of deleted targets
  open      \* the queue accepts requests

vars == <<asked, busy, barred, open>>

Init ==
  /\ asked = {}
  /\ busy = {}
  /\ barred = {}
  /\ open = TRUE

\* An event or a periodic audit asks for k.
Ask(k) ==
  /\ open /\ k \notin barred
  /\ asked' = asked \cup {k}
  /\ UNCHANGED <<busy, barred, open>>

\* A worker begins to audit k, which answers every request so far.  Audits
\* nobody asked for are harmless.
Begin(k) ==
  /\ k \notin busy /\ k \notin barred
  /\ Cardinality(busy) < Workers
  /\ busy' = busy \cup {k}
  /\ asked' = asked \ {k}
  /\ UNCHANGED <<barred, open>>

\* The audit ends; a failed one may ask for another.
End(k) ==
  /\ k \in busy
  /\ busy' = busy \ {k}
  /\ \/ UNCHANGED asked
     \/ open /\ k \notin barred /\ asked' = asked \cup {k}
  /\ UNCHANGED <<barred, open>>

\* The target is deleted, and its requests with it, or created again.
Bar(k) ==
  /\ barred' = barred \cup {k}
  /\ asked' = asked \ {k}
  /\ UNCHANGED <<busy, open>>

Admit(k) ==
  /\ barred' = barred \ {k}
  /\ UNCHANGED <<asked, busy, open>>

\* The queue shuts down: no request survives and none is accepted.
Shut ==
  /\ open
  /\ open' = FALSE
  /\ asked' = {}
  /\ UNCHANGED <<busy, barred>>

Next ==
  \/ \E k \in Key : Ask(k) \/ Begin(k) \/ End(k) \/ Bar(k) \/ Admit(k)
  \/ Shut

Safe == Init /\ [][Next]_vars

\* Every request is answered unless its target is deleted or the queue shut,
\* however often the workers are busy with others, and every audit ends.
Answered ==
  \A k \in Key : (k \in asked ~> k \notin asked) /\ (k \in busy ~> k \notin busy)

Spec == Safe /\ Answered

=============================================================================
