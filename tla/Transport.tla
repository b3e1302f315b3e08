------------------------------ MODULE Transport ------------------------------
(***************************************************************************)
(* The calls of the FortiGate client (internal/fortigate/client.go): the   *)
(* attempts of doJSON, their retries and waits, and the paging of          *)
(* ListRecords, against a device whose zone other people edit meanwhile.   *)
(*                                                                         *)
(* A call is made of attempts.  The device acts on an attempt at most once *)
(* and then the client reads its answer, or gets none.  An attempt that    *)
(* the device carries out after the client has given it up is outside the  *)
(* model.  The device changes its revision whenever a row changes, or it   *)
(* reports no revision at all.                                             *)
(***************************************************************************)
EXTENDS Integers, FiniteSets, Sequences

CONSTANTS
  Id,             \* provider IDs, which are never reused
  Order,          \* Order[S]: the order in which the device lists the rows S
  Value,          \* what a row can contain
  NoRow,          \* there is no row with this ID
  PageSize,       \* fortiListPageSize
  Retries,        \* retries of an idempotent request
  BaseDelay,      \* retryBaseDelay
  MaxDelay,       \* retryMaxDelay
  MaxRetryAfter,  \* retryAfterMaxDelay
  RetryAfters,    \* what a Retry-After header can say; 0 stands for none
  MaxEdits        \* bound on edits by other people

ASSUME TransportAssumption ==
  /\ Id \subseteq Nat
  /\ Order \in [SUBSET Id -> Seq(Id)]
  /\ \A S \in SUBSET Id :
       /\ {Order[S][n] : n \in 1..Len(Order[S])} = S
       /\ \A m, n \in 1..Len(Order[S]) : Order[S][m] = Order[S][n] => m = n
  /\ NoRow \notin Value
  /\ PageSize \in Nat \ {0}
  /\ {Retries, MaxRetryAfter, MaxEdits} \subseteq Nat
  /\ {BaseDelay, MaxDelay} \subseteq Nat \ {0}
  /\ RetryAfters \subseteq Nat

VARIABLES
  rows,      \* the zone on the device
  used,      \* provider IDs the device has given out
  revision,  \* the device's revision, counted from the start of a listing
  reports,   \* whether its list answers carry the revision
  edits,     \* edits by other people so far
  call,      \* the client's call
  pc,        \* where the call is
  attempt,   \* number of the current attempt
  wait,      \* time left of the sleep before the next attempt
  listing,   \* what ListRecords has collected
  result,    \* how the last call ended
  throttle,  \* history: the pause the device asked for before the next attempt
             \* (left), and whether its answer was read in full (heard)
  seen,      \* history: the zones there have been since the listing began
  effects    \* history: how often the device has carried out the mutation

device == <<rows, used, revision>>
vars == <<rows, used, revision, reports, edits, call, pc, attempt, wait, listing, result,
          throttle, seen, effects>>

NoValue == NoRow
Call ==
  [method : {"GET"}, id : {0}, value : {NoValue}]
  \cup [method : {"POST"}, id : {0}, value : Value]
  \cup [method : {"PUT"}, id : Id, value : Value]
  \cup [method : {"DELETE"}, id : Id, value : {NoValue}]
Entry == [id : Id, value : Value]
NoRevision == -1
NoTotal == -1
Start == [total |-> NoTotal, revision |-> NoRevision, records |-> <<>>]
Delays == 0..(MaxDelay + MaxRetryAfter)
NoPause == [left |-> 0, heard |-> TRUE]

\* The variables hold values of the types the code declares; a call makes no
\* more than Retries + 1 attempts.
TypeOK ==
  /\ rows \in [Id -> Value \cup {NoRow}]
  /\ used \subseteq Id
  /\ revision \in Nat
  /\ reports \in BOOLEAN
  /\ edits \in 0..MaxEdits
  /\ call \in Call
  /\ pc \in {"idle", "send", "wait", "done"}
  /\ attempt \in 1..(Retries + 1)
  /\ wait \in Delays
  /\ listing.total \in Nat \cup {NoTotal}
  /\ listing.revision \in Nat \cup {NoRevision}
  /\ listing.records \in Seq(Entry)
  /\ result \in {"ok", "error"}
  /\ throttle \in [left : Delays, heard : BOOLEAN]
  /\ seen \subseteq [Id -> Value \cup {NoRow}]
  /\ effects \in Nat

\* The rows there are, in the order in which the device lists them.
Rows(zone) == {i \in Id : zone[i] # NoRow}
Listed(zone) ==
  LET ids == Order[Rows(zone)]
  IN  [n \in 1..Len(ids) |-> [id |-> ids[n], value |-> zone[ids[n]]]]

NoCall == [method |-> "GET", id |-> 0, value |-> NoValue]

Init ==
  /\ rows \in [Id -> Value \cup {NoRow}]
  /\ used = Rows(rows)
  /\ reports \in BOOLEAN
  /\ edits = 0
  /\ pc = "idle"
  /\ result = "ok"
  /\ call = NoCall /\ attempt = 1 /\ wait = 0 /\ listing = Start
  /\ revision = 0 /\ throttle = NoPause /\ seen = {} /\ effects = 0

-----------------------------------------------------------------------------
(***************************************************************************)
(* The device.                                                             *)
(***************************************************************************)
Listing == pc # "idle" /\ call.method = "GET"

Becomes(zone) ==
  /\ rows' = zone
  /\ used' = used \cup Rows(zone)
  /\ revision' = IF Listing /\ zone # rows THEN revision + 1 ELSE revision
  /\ seen' = IF Listing THEN seen \cup {zone} ELSE {}

\* What carrying out the call does.  A PUT or DELETE of a missing row cannot
\* be carried out.
Feasible == call.method \in {"PUT", "DELETE"} => rows[call.id] # NoRow

CarryOut ==
  /\ Feasible
  /\ effects' = IF call.method = "GET" THEN effects ELSE effects + 1
  /\ CASE call.method = "GET" -> Becomes(rows)
       [] call.method = "POST" ->
            \E i \in Id \ used : Becomes([rows EXCEPT ![i] = call.value])
       [] call.method = "PUT" -> Becomes([rows EXCEPT ![call.id] = call.value])
       [] call.method = "DELETE" -> Becomes([rows EXCEPT ![call.id] = NoRow])

LeaveAlone == UNCHANGED <<device, seen, effects>>

\* An answer: its HTTP status, what its body amounts to, and its Retry-After.
\*   success  a JSON envelope without an error, with a page if it is a list
\*   empty    nothing, or a list without usable paging metadata
\*   failed   an envelope that reports a lasting error
\*   busy     an envelope with a transient http_status
\*   garbage  not a JSON object
\*   cut      reading the body failed
\*   huge     more than maxResponseBytes
Answer ==
  [status : {200}, body : {"success", "empty", "failed", "busy", "garbage", "cut", "huge"},
   after : {0}]
  \cup [status : {404, 500}, body : {"empty", "cut"}, after : {0}]
  \cup [status : {429, 503}, body : {"empty", "cut"}, after : RetryAfters]

\* What a device that has, or has not, carried out the call can answer.
AnswersAfter == {a \in Answer : \/ a.status = 200 /\ a.body \notin {"failed", "busy"}
                                \/ a.status = 500}
AnswersWithout == {a \in Answer : a.status = 200 => a.body \notin {"success", "empty"}}

-----------------------------------------------------------------------------
(***************************************************************************)
(* doJSON.                                                                 *)
(***************************************************************************)
\* Mutant: every method is retried.
RetryableAny(method) == TRUE

\* Only a POST, which has no idempotency key, is never sent again.
Retryable(method) == method # "POST"

\* Mutant: a body that is no envelope passes whatever the method.
CheckEnvelopeLenient(method, a) == a.body \notin {"failed", "busy"}

\* checkEnvelope: does the body of a 2xx answer pass?
CheckEnvelope(method, a) ==
  /\ a.body \notin {"failed", "busy"}
  /\ a.body = "garbage" => method = "GET"

\* Whether a failed attempt is worth another.
Transient(a) ==
  \/ a.body = "cut"
  \/ a.body # "huge" /\ a.status = 200 /\ a.body = "busy"
  \/ a.body # "huge" /\ (a.status = 429 \/ a.status >= 500)

Accepted(method, a) ==
  a.body \notin {"cut", "huge"} /\ a.status = 200 /\ CheckEnvelope(method, a)

MinOf(x, y) == IF x < y THEN x ELSE y
MaxOf(x, y) == IF x < y THEN y ELSE x

\* The pause an answer asks for, as far as a client has to grant it.
Pause(a) == IF a.status \in {429, 503} THEN MinOf(a.after, MaxRetryAfter) ELSE 0

\* parseRetryAfter.  doJSON looks at the header of a 429 or 503 only when the body
\* could be read.
RetryAfter(a) == IF a.body = "cut" THEN 0 ELSE Pause(a)

\* Mutant: the header is a ceiling instead of a floor.
RetryDelaysBelow(n, after) ==
  {MinOf(j, after) : j \in {i \in 0..(MaxDelay - 1) : i < BaseDelay * 2^(n - 1)}}

\* retryDelay after the n-th attempt: full jitter, with Retry-After as a floor.
RetryDelays(n, after) ==
  {MaxOf(j, after) : j \in {i \in 0..(MaxDelay - 1) : i < BaseDelay * 2^(n - 1)}}

End(r) ==
  /\ pc' = "done"
  /\ result' = r
  /\ wait' = 0 /\ throttle' = NoPause
  /\ UNCHANGED <<call, attempt, listing>>

AnotherAttempt == Retryable(call.method) /\ attempt < Retries + 1

\* The attempt has failed with the answer a: another one after a wait, or the error.
Fail(transient, a) ==
  IF transient /\ AnotherAttempt
  THEN /\ pc' = "wait"
       /\ wait' \in RetryDelays(attempt, RetryAfter(a))
       /\ throttle' = [left |-> Pause(a), heard |-> a.body # "cut"]
       /\ UNCHANGED <<call, attempt, listing, result>>
  ELSE End("error")

NoAnswer == [status |-> 0, body |-> "none", after |-> 0]

\* httpClient.Do returns an error: nobody knows what the device did.
Unreachable ==
  /\ pc = "send"
  /\ CarryOut \/ LeaveAlone
  /\ Fail(TRUE, NoAnswer)
  /\ UNCHANGED <<reports, edits>>

\* The device answers, but not with what the call asked for.
Refused ==
  /\ pc = "send"
  /\ \E a \in Answer :
       /\ \/ a \in AnswersAfter /\ CarryOut
          \/ a \in AnswersWithout /\ LeaveAlone
       /\ ~Accepted(call.method, a)
       /\ Fail(Transient(a), a)
  /\ UNCHANGED <<reports, edits>>

\* A mutation needs no more than an acceptable answer.
Mutated ==
  /\ pc = "send"
  /\ call.method # "GET"
  /\ \E a \in Answer :
       /\ \/ a \in AnswersAfter /\ CarryOut
          \/ a \in AnswersWithout /\ LeaveAlone
       /\ Accepted(call.method, a)
  /\ End("ok")
  /\ UNCHANGED <<reports, edits>>

\* sleepContext runs out and the request is sent again.
Resend ==
  /\ pc = "wait"
  /\ wait = 0
  /\ pc' = "send"
  /\ attempt' = attempt + 1
  /\ throttle' = NoPause
  /\ UNCHANGED <<device, reports, edits, call, wait, listing, result, seen, effects>>

Tick ==
  /\ pc = "wait"
  /\ wait > 0
  /\ wait' = wait - 1
  /\ throttle' = [throttle EXCEPT !.left = MaxOf(@ - 1, 0)]
  /\ UNCHANGED <<device, reports, edits, call, pc, attempt, listing, result, seen, effects>>

\* The context of the call is cancelled: neither Do nor the sleep goes on.
Cancel ==
  /\ pc \in {"send", "wait"}
  /\ End("error")
  /\ UNCHANGED <<device, reports, edits, seen, effects>>

-----------------------------------------------------------------------------
(***************************************************************************)
(* ListRecords.                                                            *)
(***************************************************************************)
Continues(size) == listing.total \in {NoTotal, size}

\* Mutant: the revision of later pages is not compared with the first one's.
SameRevisionPresent(rev) == listing.total # NoTotal => rev # NoRevision

\* From the second page on the revision must be there and be the same.
SameRevision(rev) == listing.total # NoTotal => rev # NoRevision /\ rev = listing.revision

Collected(page) == listing.records \o page
Distinct(records) == \A m, n \in DOMAIN records : records[m].id = records[n].id => m = n

\* Mutant: an empty page is asked for again.
AdvancesAlways(page) == TRUE

Advances(page) == page # <<>>

\* The answer to a GET is a page of at most PageSize rows from the offset, with
\* the size and, if the device reports it, the revision of the whole zone.
ReceivePage ==
  /\ pc = "send"
  /\ call.method = "GET"
  /\ CarryOut
  /\ LET all == Listed(rows)
         from == Len(listing.records)
         rev == IF reports THEN revision ELSE NoRevision
         size == Len(all)
     IN \E k \in 0..PageSize :
          LET page == SubSeq(all, from + 1, MinOf(from + k, size))
              records == Collected(page)
          IN  IF ~Continues(size) \/ ~SameRevision(rev) \/ ~Distinct(records)
                 \/ Len(records) > size
              THEN End("error")
              ELSE IF Len(records) < size /\ ~Advances(page)
              THEN End("error")
              ELSE /\ listing' = [total |-> size,
                                  revision |-> rev, records |-> records]
                   /\ attempt' = 1
                   /\ pc' = IF Len(records) = size THEN "done" ELSE "send"
                   /\ result' = IF Len(records) = size THEN "ok" ELSE result
                   /\ UNCHANGED <<call, wait, throttle>>
  /\ UNCHANGED <<reports, edits>>

\* The answer passes, but there is no list or no paging metadata in it.
UnusablePage ==
  /\ pc = "send"
  /\ call.method = "GET"
  /\ \E a \in Answer : Accepted("GET", a) /\ a.body # "success"
  /\ LeaveAlone
  /\ End("error")
  /\ UNCHANGED <<reports, edits>>

-----------------------------------------------------------------------------
\* ListRecords and applyOne make their first request.
Begin(c) ==
  /\ pc = "idle"
  /\ call' = c
  /\ pc' = "send"
  /\ seen' = IF c.method = "GET" THEN {rows} ELSE {}
  /\ UNCHANGED <<device, reports, edits, attempt, wait, listing, result, throttle, effects>>

\* The caller has the result; nothing else of the call is looked at again.
Return ==
  /\ pc = "done"
  /\ pc' = "idle"
  /\ call' = NoCall /\ attempt' = 1 /\ wait' = 0 /\ listing' = Start
  /\ revision' = 0 /\ throttle' = NoPause /\ seen' = {} /\ effects' = 0 /\ result' = "ok"
  /\ UNCHANGED <<rows, used, reports, edits>>

\* Other people add, change and remove rows.
Edit ==
  /\ edits < MaxEdits
  /\ edits' = edits + 1
  /\ \E i \in Id, v \in Value \cup {NoRow} :
       /\ v # rows[i]
       /\ rows[i] = NoRow => i \notin used
       /\ Becomes([rows EXCEPT ![i] = v])
  /\ UNCHANGED <<reports, call, pc, attempt, wait, listing, result, throttle, effects>>

Client ==
  \/ Unreachable \/ Refused \/ Mutated \/ Resend \/ Tick \/ ReceivePage
  \/ UnusablePage \/ Return
Next == (\E c \in Call : Begin(c)) \/ Client \/ Cancel \/ Edit

Spec == Init /\ [][Next]_vars

\* Attempts end (the HTTP client has a timeout) and time passes.
FairSpec == Spec /\ WF_vars(Client)

-----------------------------------------------------------------------------
(***************************************************************************)
(* Properties.                                                             *)
(***************************************************************************)
\* A listing that succeeds is the zone as it was at one moment during the call,
\* however many pages it took and whatever was edited between them
\* (ListRecords); plans are made from it and cleanup is decided on it.
ListingIsSnapshot ==
  (pc = "done" /\ call.method = "GET" /\ result = "ok") =>
    \E zone \in seen : listing.records = Listed(zone)

\* One create makes at most one row, whatever is lost or retried (doJSON).
CreatesAtMostOneRow == call.method = "POST" => effects <= 1

\* A mutation that is reported as done has been carried out (checkEnvelope).
DoneMeansCarriedOut ==
  (pc = "done" /\ call.method # "GET" /\ result = "ok") => effects >= 1

\* A device that asked for a pause, up to retryAfterMaxDelay, is left alone for
\* it before the request is sent again, whatever the jitter (retryDelay,
\* parseRetryAfter).  The one exception is an answer whose body could not be read:
\* doJSON then resends without having looked at the header.
ResendStep == (pc = "wait" /\ pc' = "send") => throttle.left = 0 \/ ~throttle.heard
ThrottleRespected == [][ResendStep]_vars

\* Every call ends: retries are bounded and each page brings a listing closer
\* to its total, or ends it.
CallsEnd == [](pc # "idle" => <>(pc = "idle"))

=============================================================================
