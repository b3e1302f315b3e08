--------------------------- MODULE TransportProofs ---------------------------
(***************************************************************************)
(* Proofs about the calls of the FortiGate client for every zone and page  *)
(* size, every order in which the device lists its rows, any number of     *)
(* retries and edits, and all delays.                                      *)
(***************************************************************************)
EXTENDS Transport, SequenceTheorems, TLAPS

\* Before a call nothing of an earlier one is left.
AtRest == pc = "idle" => effects = 0 /\ listing = Start

\* A POST is over after one attempt.
PostedOnce ==
  call.method = "POST" => pc # "wait" /\ effects <= 1 /\ (pc = "send" => effects = 0)

\* There is a next attempt, and the wait before it covers the pause the device
\* asked for in an answer that could be read.
WaitCovers ==
  pc = "wait" => (throttle.heard => throttle.left <= wait) /\ attempt <= Retries

\* The history of a listing contains the present zone.
SeenNow == Listing => rows \in seen

\* The pages collected so far are the beginning of the present listing, unless the
\* device has changed its revision since, or reports none: then no further page
\* is accepted.
PrefixCollected ==
  /\ listing.total = NoTotal => listing.records = <<>>
  /\ (Listing /\ pc # "done" /\ listing.total # NoTotal) =>
       /\ listing.revision <= revision
       /\ reports /\ listing.revision = revision =>
            /\ listing.total = Len(Listed(rows))
            /\ Len(listing.records) <= listing.total
            /\ listing.records = SubSeq(Listed(rows), 1, Len(listing.records))

IInv ==
  /\ TypeOK
  /\ AtRest
  /\ PostedOnce
  /\ WaitCovers
  /\ SeenNow
  /\ PrefixCollected
  /\ ListingIsSnapshot
  /\ DoneMeansCarriedOut

-----------------------------------------------------------------------------
(***************************************************************************)
(* The device.                                                             *)
(***************************************************************************)
Zones == [Id -> Value \cup {NoRow}]

\* The numbers of the configuration.
LEMMA Configured ==
    /\ Retries \in Nat /\ MaxRetryAfter \in Nat /\ MaxEdits \in Nat
    /\ MaxDelay \in Nat \ {0} /\ PageSize \in Nat \ {0}
  BY TransportAssumption, Zenon

\* A listing is a sequence of rows, in whatever order the device lists them.
LEMMA ListedType ==
    ASSUME NEW zone \in Zones
    PROVE  Listed(zone) \in Seq(Entry)
  <1> DEFINE ids == Order[Rows(zone)]
  <1>1. Rows(zone) \in SUBSET Id
    BY Zenon DEF Rows
  <1>2. ids \in Seq(Id) /\ \A n \in 1..Len(ids) : ids[n] \in Rows(zone)
    BY <1>1, TransportAssumption
  <1>3. \A n \in 1..Len(ids) : [id |-> ids[n], value |-> zone[ids[n]]] \in Entry
    BY <1>2, Zenon DEF Rows, Entry, Zones
  <1>4. Listed(zone) = [n \in 1..Len(ids) |-> [id |-> ids[n], value |-> zone[ids[n]]]]
    BY Zenon DEF Listed
  <1> HIDE DEF ids
  <1> QED
    BY <1>2, <1>3, <1>4

\* What an edit or a request does to the zone and to the history of a listing.
LEMMA ZoneBecomes ==
    ASSUME TypeOK, NEW zone \in Zones, Becomes(zone)
    PROVE  /\ rows' = zone
           /\ used' \subseteq Id
           /\ revision' \in Nat
           /\ revision' >= revision
           /\ seen' \subseteq Zones
           /\ Listing => /\ seen \subseteq seen' /\ rows' \in seen'
                         /\ zone # rows => revision' > revision
           /\ zone = rows => revision' = revision
  BY DEF Becomes, TypeOK, Rows, Zones

\* The device carries out an attempt, or leaves it alone.
LEMMA DeviceActs ==
    ASSUME TypeOK, CarryOut \/ LeaveAlone
    PROVE  /\ rows' \in Zones /\ used' \subseteq Id /\ revision' \in Nat /\ seen' \subseteq Zones
           /\ effects' \in {effects, effects + 1}
           /\ CarryOut /\ call.method # "GET" => effects' = effects + 1
           /\ call.method = "GET" => rows' = rows /\ revision' = revision
           /\ Listing => seen \subseteq seen' /\ (rows \in seen => rows \in seen')
  <1>1. CASE LeaveAlone
    BY <1>1, Zenon DEF LeaveAlone, device, TypeOK, Zones, CarryOut
  <1>2. CASE CarryOut
    <2>1. effects' = IF call.method = "GET" THEN effects ELSE effects + 1
      BY <1>2, Zenon DEF CarryOut
    <2>2. CASE call.method = "GET"
      <3>1. Becomes(rows) /\ rows \in Zones
        BY <1>2, <2>2, Zenon DEF CarryOut, TypeOK, Zones
      <3> QED
        BY <2>1, <2>2, <3>1, ZoneBecomes, Zenon
    <2>3. CASE call.method # "GET"
      <3>1. PICK zone \in Zones : Becomes(zone)
        <4>1. call.method = "POST" => call.value \in Value
          BY Zenon DEF TypeOK, Call
        <4>2. call.method = "PUT" => call.value \in Value /\ call.id \in Id
          BY Zenon DEF TypeOK, Call
        <4>3. call.method \in {"GET", "POST", "PUT", "DELETE"}
          BY Zenon DEF TypeOK, Call
        <4>4. CASE call.method = "POST"
          <5>1. PICK i \in Id : Becomes([rows EXCEPT ![i] = call.value])
            BY <1>2, <4>4, Zenon DEF CarryOut
          <5> QED
            BY <4>1, <4>4, <5>1, Zenon DEF TypeOK, Zones
        <4>5. CASE call.method = "PUT"
          BY <1>2, <4>2, <4>5, Zenon DEF CarryOut, TypeOK, Zones
        <4>6. CASE call.method = "DELETE"
          BY <1>2, <4>6, Zenon DEF CarryOut, TypeOK, Zones
        <4> QED
          BY <2>3, <4>3, <4>4, <4>5, <4>6, Zenon
      <3>2. ~Listing
        BY <2>3, Zenon DEF Listing
      <3> QED
        BY <2>1, <2>3, <3>1, <3>2, ZoneBecomes, Zenon
    <2> QED
      BY <2>2, <2>3, Zenon
  <1> QED
    BY <1>1, <1>2, Zenon

-----------------------------------------------------------------------------
(***************************************************************************)
(* doJSON.                                                                 *)
(***************************************************************************)
Pauses == [left : Delays, heard : BOOLEAN]

\* What may come of an attempt: an answer, or none.
Outcome == Answer \cup {NoAnswer}

\* Retry-After is capped (parseRetryAfter), and used unless the body was cut.
LEMMA RetryAfterBounded ==
    ASSUME NEW a \in Outcome
    PROVE  /\ Pause(a) \in 0..MaxRetryAfter
           /\ RetryAfter(a) \in 0..MaxRetryAfter
           /\ a.body # "cut" => RetryAfter(a) = Pause(a)
  <1>1. a.after = 0 \/ a.after \in RetryAfters
    BY DEF Outcome, Answer, NoAnswer
  <1>2. MaxRetryAfter \in Nat /\ 0 \in Nat /\ \A n \in RetryAfters : n \in Nat
    BY TransportAssumption, Zenon
  <1>3. 0 \in 0..MaxRetryAfter /\ \A n \in Nat : MinOf(n, MaxRetryAfter) \in 0..MaxRetryAfter
    BY <1>2 DEF MinOf
  <1>4. a.after \in Nat
    BY <1>1, <1>2, Zenon
  <1>5. Pause(a) \in 0..MaxRetryAfter
    <2>1. MinOf(a.after, MaxRetryAfter) \in 0..MaxRetryAfter
      BY <1>3, <1>4, Zenon
    <2>2. CASE a.status \in {429, 503}
      BY <2>1, <2>2, ZenonT(60) DEF Pause
    <2>3. CASE a.status \notin {429, 503}
      BY <1>3, <2>3, ZenonT(60) DEF Pause
    <2> QED
      BY <2>2, <2>3, Zenon
  <1> QED
    BY <1>3, <1>5, ZenonT(60) DEF RetryAfter

\* Nothing is asked for when there is no answer, and between calls.
LEMMA NothingAsked == 0 \in Delays /\ NoPause \in Pauses /\ NoAnswer \in Outcome
  BY Configured DEF Delays, NoPause, Pauses, Outcome

\* A failed attempt leads to a wait that covers the pause asked for, never for a
\* POST, or to the error.
LEMMA AttemptFails ==
    ASSUME TypeOK, NEW transient \in BOOLEAN, NEW a \in Outcome, Fail(transient, a)
    PROVE  /\ UNCHANGED <<call, attempt, listing>>
           /\ \/ /\ pc' = "wait" /\ call.method # "POST" /\ result' = result /\ attempt <= Retries
                 /\ wait' \in Delays /\ throttle' \in Pauses
                 /\ throttle'.heard => throttle'.left <= wait'
              \/ pc' = "done" /\ result' = "error" /\ wait' = 0 /\ throttle' = NoPause
  <1>1. CASE transient /\ AnotherAttempt
    <2> DEFINE after == RetryAfter(a)
               pause == Pause(a)
    <2>0. /\ pause \in 0..MaxRetryAfter /\ after \in 0..MaxRetryAfter
          /\ a.body # "cut" => after = pause
      BY RetryAfterBounded, Zenon
    <2>1. PICK j \in 0..(MaxDelay - 1) : wait' = MaxOf(j, after)
      BY <1>1, Zenon DEF Fail, RetryDelays
    <2>2. /\ throttle' = [left |-> pause, heard |-> a.body # "cut"]
      BY <1>1, Zenon DEF Fail
    <2> HIDE DEF after, pause
    <2>5. MaxOf(j, after) \in Delays /\ pause \in Delays /\ after <= MaxOf(j, after)
      BY <2>0, <2>1, Configured DEF MaxOf, Delays
    <2>6. throttle' \in Pauses /\ (throttle'.heard => throttle'.left <= wait')
      BY <2>0, <2>1, <2>2, <2>5, ZenonT(60) DEF Pauses
    <2>3. attempt \in 1..(Retries + 1) /\ attempt < Retries + 1
      BY <1>1, Zenon DEF AnotherAttempt, TypeOK
    <2>4. attempt <= Retries
      BY <2>3, Configured
    <2> QED
      BY <1>1, <2>1, <2>4, <2>5, <2>6, Zenon DEF Fail, AnotherAttempt, Retryable
  <1>2. CASE ~(transient /\ AnotherAttempt)
    BY <1>2, Zenon DEF Fail, End
  <1> QED
    BY <1>1, <1>2, Zenon

\* A device that has not carried out a mutation gives no acceptable answer to it
\* (checkEnvelope).
LEMMA NotCarriedOutNotAccepted ==
    ASSUME NEW a \in AnswersWithout, NEW method, method # "GET"
    PROVE  ~Accepted(method, a)
  BY DEF AnswersWithout, Accepted, CheckEnvelope, Answer

-----------------------------------------------------------------------------
(***************************************************************************)
(* Every step keeps the invariant.                                         *)
(***************************************************************************)
\* An attempt that fails, whatever the device did with it.
LEMMA FailedAttemptKeeps ==
    ASSUME IInv, pc = "send", CarryOut \/ LeaveAlone,
           NEW transient \in BOOLEAN, NEW a \in Outcome, Fail(transient, a),
           UNCHANGED <<reports, edits>>
    PROVE  IInv'
  <1> DEFINE Waits == /\ pc' = "wait" /\ call.method # "POST" /\ result' = result
                      /\ attempt <= Retries
                      /\ wait' \in Delays /\ throttle' \in Pauses
                      /\ throttle'.heard => throttle'.left <= wait'
             Ends == pc' = "done" /\ result' = "error" /\ wait' = 0 /\ throttle' = NoPause
  <1>1. UNCHANGED <<call, attempt, listing, reports, edits>> /\ (Waits \/ Ends) /\ TypeOK
    BY AttemptFails, Zenon DEF IInv
  <1>2. /\ rows' \in Zones /\ used' \subseteq Id /\ revision' \in Nat /\ seen' \subseteq Zones
        /\ effects' \in {effects, effects + 1}
        /\ call.method = "GET" => rows' = rows /\ revision' = revision
        /\ Listing => seen \subseteq seen' /\ (rows \in seen => rows \in seen')
    BY <1>1, DeviceActs, Zenon
  <1>3. TypeOK'
    <2>1. wait' \in Delays /\ throttle' \in Pauses
      BY <1>1, NothingAsked, Zenon
    <2> QED
      BY <1>1, <1>2, <2>1 DEF TypeOK, Zones, Pauses
  <1>4. AtRest' /\ WaitCovers' /\ ListingIsSnapshot' /\ DoneMeansCarriedOut'
    BY <1>1, Zenon DEF AtRest, WaitCovers, ListingIsSnapshot, DoneMeansCarriedOut
  <1>5. PostedOnce'
    BY <1>1, <1>2 DEF IInv, TypeOK, PostedOnce
  <1>6. SeenNow'
    BY <1>1, <1>2, Zenon DEF IInv, SeenNow, Listing
  <1>7. PrefixCollected'
    BY <1>1, <1>2 DEF IInv, PrefixCollected, Listing
  <1> QED
    BY <1>3, <1>4, <1>5, <1>6, <1>7, Zenon DEF IInv

\* httpClient.Do returns an error.
LEMMA UnreachableKeeps == IInv /\ Unreachable => IInv'
  <1> SUFFICES ASSUME IInv, Unreachable PROVE IInv'
    OBVIOUS
  <1> QED
    BY NothingAsked, FailedAttemptKeeps, Zenon DEF Unreachable

\* The answer is not the one the call asked for.
LEMMA RefusedKeeps == IInv /\ Refused => IInv'
  <1> SUFFICES ASSUME IInv, Refused PROVE IInv'
    OBVIOUS
  <1>1. PICK a \in Answer : (CarryOut \/ LeaveAlone) /\ Fail(Transient(a), a)
    BY Zenon DEF Refused
  <1>2. Transient(a) \in BOOLEAN /\ a \in Outcome
    BY Zenon DEF Transient, Outcome
  <1> QED
    BY <1>1, <1>2, FailedAttemptKeeps, Zenon DEF Refused

\* A mutation is answered acceptably: the device has carried it out.
LEMMA MutatedKeeps == IInv /\ Mutated => IInv'
  <1> SUFFICES ASSUME IInv, Mutated PROVE IInv'
    OBVIOUS
  <1>1. CarryOut /\ call.method # "GET" /\ pc = "send" /\ End("ok")
        /\ UNCHANGED <<reports, edits>> /\ TypeOK
    BY NotCarriedOutNotAccepted, Zenon DEF Mutated, IInv
  <1>2. /\ rows' \in Zones /\ used' \subseteq Id /\ revision' \in Nat /\ seen' \subseteq Zones
        /\ effects' = effects + 1
    BY <1>1, DeviceActs, Zenon
  <1>3. TypeOK'
    BY <1>1, <1>2, NothingAsked DEF TypeOK, Zones, End, Pauses
  <1>4. AtRest' /\ WaitCovers' /\ ListingIsSnapshot' /\ SeenNow'
    BY <1>1, Zenon DEF AtRest, WaitCovers, ListingIsSnapshot, SeenNow, Listing, End
  <1>5. PostedOnce' /\ DoneMeansCarriedOut'
    BY <1>1, <1>2 DEF IInv, TypeOK, PostedOnce, DoneMeansCarriedOut, End
  <1>6. PrefixCollected'
    BY <1>1, Zenon DEF IInv, PrefixCollected, Listing, End
  <1> QED
    BY <1>3, <1>4, <1>5, <1>6, Zenon DEF IInv

\* The request is sent again.  No POST gets here.
LEMMA ResendKeeps == IInv /\ Resend => IInv'
  <1> SUFFICES ASSUME IInv, Resend PROVE IInv'
    OBVIOUS
  <1>1. /\ pc = "wait" /\ pc' = "send" /\ attempt' = attempt + 1 /\ attempt <= Retries
        /\ throttle' = NoPause
        /\ UNCHANGED <<rows, used, revision, reports, edits, call, wait, listing, result,
                       seen, effects>>
    BY Zenon DEF Resend, device, IInv, WaitCovers
  <1>2. TypeOK'
    <2>1. attempt \in 1..(Retries + 1)
      BY Zenon DEF IInv, TypeOK
    <2>2. attempt' \in 1..(Retries + 1)
      BY <1>1, <2>1, Configured
    <2> QED
      BY <1>1, <2>2, NothingAsked, Zenon DEF IInv, TypeOK, Pauses
  <1>3. /\ AtRest' /\ WaitCovers' /\ ListingIsSnapshot' /\ DoneMeansCarriedOut' /\ PostedOnce'
        /\ SeenNow'
    BY <1>1, Zenon DEF IInv, AtRest, WaitCovers, ListingIsSnapshot, DoneMeansCarriedOut, PostedOnce,
                SeenNow, Listing
  <1>4. PrefixCollected'
    BY <1>1, Zenon DEF IInv, PrefixCollected, Listing, Listed, Rows
  <1> QED
    BY <1>2, <1>3, <1>4, Zenon DEF IInv

\* Time passes: the wait and the pause asked for run out together.
LEMMA TickKeeps == IInv /\ Tick => IInv'
  <1> SUFFICES ASSUME IInv, Tick PROVE IInv'
    OBVIOUS
  <1>1. /\ pc = "wait" /\ wait > 0 /\ wait' = wait - 1
        /\ throttle' = [throttle EXCEPT !.left = MaxOf(@ - 1, 0)]
        /\ UNCHANGED <<rows, used, revision, reports, edits, call, pc, attempt, listing, result,
                       seen, effects>>
    BY Zenon DEF Tick, device
  <1>2. /\ wait' \in Delays /\ throttle' \in Pauses
        /\ throttle'.heard => throttle'.left <= wait'
    <2>1. wait \in Delays /\ throttle \in Pauses /\ (throttle.heard => throttle.left <= wait)
      BY <1>1, Zenon DEF IInv, TypeOK, WaitCovers, Pauses
    <2>2. throttle.left \in Delays /\ throttle.heard \in BOOLEAN
      BY <2>1, Zenon DEF Pauses
    <2>3. throttle' = [left |-> MaxOf(throttle.left - 1, 0), heard |-> throttle.heard]
      BY <1>1, <2>1 DEF Pauses
    <2>4. wait' \in Delays /\ MaxOf(throttle.left - 1, 0) \in Delays
      BY <1>1, <2>1, <2>2, Configured DEF Delays, MaxOf
    <2>5. throttle.left <= wait => MaxOf(throttle.left - 1, 0) <= wait'
      BY <1>1, <2>1, <2>2, Configured DEF Delays, MaxOf
    <2> QED
      BY <2>1, <2>2, <2>3, <2>4, <2>5 DEF Pauses
  <1>3. TypeOK'
    BY <1>1, <1>2, Zenon DEF IInv, TypeOK, Pauses
  <1>4. /\ AtRest' /\ WaitCovers' /\ ListingIsSnapshot' /\ DoneMeansCarriedOut' /\ PostedOnce'
        /\ SeenNow'
    BY <1>1, <1>2, Zenon
    DEF IInv, AtRest, WaitCovers, ListingIsSnapshot, DoneMeansCarriedOut, PostedOnce,
                SeenNow, Listing
  <1>5. PrefixCollected'
    BY <1>1, Zenon DEF IInv, PrefixCollected, Listing, Listed, Rows
  <1> QED
    BY <1>3, <1>4, <1>5, Zenon DEF IInv

\* The context is cancelled.
LEMMA CancelKeeps == IInv /\ Cancel => IInv'
  <1> SUFFICES ASSUME IInv, Cancel PROVE IInv'
    OBVIOUS
  <1>1. /\ pc \in {"send", "wait"} /\ pc' = "done" /\ result' = "error"
        /\ wait' = 0 /\ throttle' = NoPause
        /\ UNCHANGED <<rows, used, revision, reports, edits, call, attempt, listing,
                       seen, effects>>
    BY Zenon DEF Cancel, device, End
  <1>2. TypeOK'
    BY <1>1, NothingAsked, Zenon DEF IInv, TypeOK, Pauses
  <1>3. /\ AtRest' /\ WaitCovers' /\ ListingIsSnapshot' /\ DoneMeansCarriedOut' /\ PostedOnce'
        /\ SeenNow' /\ PrefixCollected'
    BY <1>1, Zenon DEF IInv, AtRest, WaitCovers, ListingIsSnapshot, DoneMeansCarriedOut, PostedOnce,
                SeenNow, Listing, PrefixCollected
  <1> QED
    BY <1>2, <1>3, Zenon DEF IInv

\* An answer without a list.
LEMMA UnusablePageKeeps == IInv /\ UnusablePage => IInv'
  <1> SUFFICES ASSUME IInv, UnusablePage PROVE IInv'
    OBVIOUS
  <1>1. FALSE \in BOOLEAN /\ NoAnswer \in Outcome /\ Fail(FALSE, NoAnswer)
    BY NothingAsked, Zenon DEF UnusablePage, Fail
  <1> QED
    BY <1>1, FailedAttemptKeeps, Zenon DEF UnusablePage

\* A call begins.
LEMMA BeginKeeps == ASSUME IInv, NEW c \in Call, Begin(c) PROVE IInv'
  <1>1. /\ pc = "idle" /\ pc' = "send" /\ call' = c
        /\ seen' = IF c.method = "GET" THEN {rows} ELSE {}
        /\ UNCHANGED <<rows, used, revision, reports, edits, attempt, wait, listing, result,
                       throttle, effects>>
    BY Zenon DEF Begin, device
  <1>2. TypeOK'
    BY <1>1, Zenon DEF IInv, TypeOK
  <1>3. effects = 0 /\ listing = Start
    BY <1>1, Zenon DEF IInv, AtRest
  <1>4. /\ AtRest' /\ WaitCovers' /\ ListingIsSnapshot' /\ DoneMeansCarriedOut' /\ PostedOnce'
        /\ SeenNow'
    BY <1>1, <1>3 DEF AtRest, WaitCovers, ListingIsSnapshot, DoneMeansCarriedOut, PostedOnce,
                      SeenNow, Listing
  <1>5. PrefixCollected'
    BY <1>1, <1>3, Zenon DEF PrefixCollected, Start
  <1> QED
    BY <1>2, <1>4, <1>5, Zenon DEF IInv

\* The caller has the result.
LEMMA ReturnKeeps == IInv /\ Return => IInv'
  <1> SUFFICES ASSUME IInv, Return PROVE IInv'
    OBVIOUS
  <1>1. TypeOK'
    <2>1. 1 \in 1..(Retries + 1) /\ 0 \in Delays /\ 0 \in Nat /\ <<>> \in Seq(Entry)
      BY Configured DEF Delays
    <2>2. NoCall \in Call
      BY Zenon DEF NoCall, Call
    <2>3. Start.total = NoTotal /\ Start.revision = NoRevision /\ Start.records = <<>>
      BY Zenon DEF Start
    <2> QED
      BY <2>1, <2>2, <2>3, NothingAsked, Zenon DEF IInv, TypeOK, Return, Pauses
  <1>2. /\ AtRest' /\ WaitCovers' /\ ListingIsSnapshot' /\ DoneMeansCarriedOut' /\ PostedOnce'
        /\ SeenNow' /\ PrefixCollected'
    BY Zenon DEF Return, NoCall, Start, AtRest, WaitCovers, ListingIsSnapshot, DoneMeansCarriedOut,
           PostedOnce, SeenNow, Listing, PrefixCollected
  <1> QED
    BY <1>1, <1>2, Zenon DEF IInv

\* Somebody edits a row: the revision moves on with it.
LEMMA EditKeeps == IInv /\ Edit => IInv'
  <1> SUFFICES ASSUME IInv, Edit PROVE IInv'
    OBVIOUS
  <1>1. PICK zone \in Zones : zone # rows /\ Becomes(zone)
    <2>1. PICK i \in Id, v \in Value \cup {NoRow} : v # rows[i] /\ Becomes([rows EXCEPT ![i] = v])
      BY Zenon DEF Edit
    <2>2. [rows EXCEPT ![i] = v] \in Zones /\ [rows EXCEPT ![i] = v] # rows
      BY <2>1, Zenon DEF IInv, TypeOK, Zones
    <2> QED
      BY <2>1, <2>2, Zenon
  <1>2. /\ rows' = zone /\ used' \subseteq Id /\ revision' \in Nat /\ revision' >= revision
        /\ seen' \subseteq Zones
        /\ Listing => seen \subseteq seen' /\ rows' \in seen' /\ revision' > revision
    BY <1>1, ZoneBecomes, Zenon DEF IInv
  <1>3. edits' \in 0..MaxEdits
        /\ UNCHANGED <<reports, call, pc, attempt, wait, listing, result, throttle, effects>>
    <2>1. edits \in 0..MaxEdits /\ edits < MaxEdits /\ edits' = edits + 1
      BY Zenon DEF Edit, IInv, TypeOK
    <2>2. edits' \in 0..MaxEdits
      BY <2>1, Configured
    <2> QED
      BY <2>2, Zenon DEF Edit
  <1>4. TypeOK'
    BY <1>2, <1>3, Zenon DEF IInv, TypeOK, Zones
  <1>5. AtRest' /\ WaitCovers' /\ DoneMeansCarriedOut' /\ PostedOnce' /\ SeenNow'
    BY <1>2, <1>3, Zenon
    DEF IInv, AtRest, WaitCovers, DoneMeansCarriedOut, PostedOnce, SeenNow, Listing
  <1>6. ListingIsSnapshot'
    BY <1>2, <1>3, Zenon DEF IInv, ListingIsSnapshot, Listing, Listed, Rows
  <1>7. PrefixCollected'
    BY <1>2, <1>3 DEF IInv, TypeOK, PrefixCollected, Listing, NoRevision
  <1> QED
    BY <1>4, <1>5, <1>6, <1>7, Zenon DEF IInv

\* A page extends what has been collected: as long as the revision is the one of
\* the page before, both are parts of one and the same listing.
LEMMA PageExtends ==
    ASSUME IInv, pc = "send", call.method = "GET",
           NEW rev, rev = IF reports THEN revision ELSE NoRevision,
           Continues(Len(Listed(rows))), SameRevision(rev),
           NEW k \in 0..PageSize,
           NEW upto, upto = MinOf(Len(listing.records) + k, Len(Listed(rows)))
    PROVE  /\ Listed(rows) \in Seq(Entry)
           /\ upto \in 0..Len(Listed(rows))
           /\ Collected(SubSeq(Listed(rows), Len(listing.records) + 1, upto))
                = SubSeq(Listed(rows), 1, upto)
  <1> DEFINE all == Listed(rows)
             from == Len(listing.records)
  <1>1. all \in Seq(Entry) /\ Len(all) \in Nat /\ from \in Nat
    BY ListedType DEF IInv, TypeOK, Zones
  <1>2. from \in 0..Len(all) /\ listing.records = SubSeq(all, 1, from)
    <2>1. CASE listing.total = NoTotal
      <3>1. listing.records = <<>>
        BY <2>1, Zenon DEF IInv, PrefixCollected
      <3>2. SubSeq(all, 1, 0) = <<>>
        BY SubSeqEmpty
      <3> QED
        BY <1>1, <3>1, <3>2
    <2>2. CASE listing.total # NoTotal
      <3>1. reports /\ listing.revision = revision
        BY <2>2, Zenon DEF SameRevision
      <3>2. Listing /\ pc # "done"
        BY Zenon DEF Listing
      <3> QED
        BY <1>1, <2>2, <3>1, <3>2 DEF IInv, PrefixCollected
    <2> QED
      BY <2>1, <2>2, Zenon
  <1>3. upto \in from..Len(all)
    BY <1>1, <1>2, Configured DEF MinOf
  <1>4. SubSeq(all, 1, from) \o SubSeq(all, from + 1, upto) = SubSeq(all, 1, upto)
    <2>1. 1 \in 1..Len(all) + 1 /\ from \in 1 - 1..Len(all)
      BY <1>1, <1>2
    <2> HIDE DEF all, from
    <2> QED
      BY <1>1, <1>3, <2>1, ConcatAdjacentSubSeq, Zenon
  <1>5. Collected(SubSeq(all, from + 1, upto)) = SubSeq(all, 1, upto)
    BY <1>2, <1>4, Zenon DEF Collected
  <1> HIDE DEF all, from
  <1>6. upto \in 0..Len(all)
    BY <1>1, <1>2, <1>3
  <1> QED
    BY <1>1, <1>5, <1>6, Zenon DEF all, from

\* A page arrives.
LEMMA ReceivePageKeeps == IInv /\ ReceivePage => IInv'
  <1> SUFFICES ASSUME IInv, ReceivePage PROVE IInv'
    OBVIOUS
  <1> DEFINE all == Listed(rows)
             from == Len(listing.records)
             rev == IF reports THEN revision ELSE NoRevision
             size == Len(all)
  <1>1. pc = "send" /\ call.method = "GET" /\ CarryOut /\ UNCHANGED <<reports, edits>>
    BY Zenon DEF ReceivePage
  <1>2. PICK k \in 0..PageSize :
          LET page == SubSeq(all, from + 1, MinOf(from + k, size))
              records == Collected(page)
          IN  IF ~Continues(size) \/ ~SameRevision(rev) \/ ~Distinct(records)
                 \/ Len(records) > size
              THEN End("error")
              ELSE IF Len(records) < size /\ ~Advances(page)
              THEN End("error")
              ELSE /\ listing' = [total |-> size, revision |-> rev, records |-> records]
                   /\ attempt' = 1
                   /\ pc' = IF Len(records) = size THEN "done" ELSE "send"
                   /\ result' = IF Len(records) = size THEN "ok" ELSE result
                   /\ UNCHANGED <<call, wait, throttle>>
    BY Zenon DEF ReceivePage
  <1> DEFINE upto == MinOf(from + k, size)
             records == Collected(SubSeq(all, from + 1, upto))
  <1>3. CASE End("error")
    <2>1. FALSE \in BOOLEAN /\ NoAnswer \in Outcome /\ Fail(FALSE, NoAnswer)
      BY <1>3, NothingAsked, Zenon DEF Fail
    <2> QED
      BY <1>1, <2>1, FailedAttemptKeeps, Zenon
  <1>4. CASE ~End("error")
    <2>1. /\ Continues(size) /\ SameRevision(rev)
          /\ listing' = [total |-> size, revision |-> rev, records |-> records]
          /\ attempt' = 1
          /\ pc' = IF Len(records) = size THEN "done" ELSE "send"
          /\ result' = IF Len(records) = size THEN "ok" ELSE result
          /\ UNCHANGED <<call, wait, throttle>>
      BY <1>2, <1>4, Zenon
    <2>2. all \in Seq(Entry) /\ upto \in 0..size /\ records = SubSeq(all, 1, upto)
      BY <1>1, <2>1, PageExtends, Zenon
    <2>3. records \in Seq(Entry) /\ Len(records) = upto /\ (upto = size => records = all)
      <3> HIDE DEF all, upto, records
      <3>1. size \in Nat /\ \A i \in 1..upto : all[i] \in Entry
        BY <2>2
      <3>2. SubSeq(all, 1, upto) \in Seq(Entry) /\ Len(SubSeq(all, 1, upto)) = upto
        BY <2>2, <3>1, SubSeqProperties
      <3>3. SubSeq(all, 1, size) = all
        BY <2>2, SubSeqFull, Zenon
      <3> QED
        BY <2>2, <3>2, <3>3, Zenon
    <2>4. /\ rows' = rows /\ used' \subseteq Id /\ revision' = revision /\ seen' \subseteq Zones
          /\ effects' \in {effects, effects + 1} /\ rows \in seen'
      BY <1>1, DeviceActs, Zenon DEF IInv, SeenNow, Listing
    <2>5. /\ listing'.total = size /\ listing'.revision = rev /\ listing'.records = records
      BY <2>1, Zenon
    <2> HIDE DEF records, upto
    <2>6. TypeOK'
      <3>1. size \in Nat /\ rev \in Nat \cup {NoRevision} /\ effects' \in Nat
        BY <2>2, <2>4 DEF IInv, TypeOK
      <3>2. 1 \in 1..(Retries + 1)
        BY TransportAssumption
      <3>3. /\ listing'.total \in Nat \cup {NoTotal}
            /\ listing'.revision \in Nat \cup {NoRevision}
            /\ listing'.records \in Seq(Entry)
        BY <2>3, <2>5, <3>1, Zenon
      <3> HIDE DEF all, rev
      <3> QED
        BY <1>1, <2>1, <2>4, <3>1, <3>2, <3>3, Zenon DEF IInv, TypeOK, Zones
    <2>7. AtRest' /\ WaitCovers' /\ DoneMeansCarriedOut' /\ PostedOnce' /\ SeenNow'
      BY <1>1, <2>1, <2>4, Zenon
         DEF IInv, AtRest, WaitCovers, DoneMeansCarriedOut, PostedOnce, SeenNow, Listing
    <2>8. ListingIsSnapshot'
      BY <2>1, <2>3, <2>4, <2>5, ZenonT(60) DEF ListingIsSnapshot, Listed, Rows
    <2>9. PrefixCollected'
      <3>1. Listed(rows)' = all
        BY <2>4, Zenon DEF Listed, Rows
      <3> HIDE DEF all
      <3> QED
        BY <1>1, <2>2, <2>3, <2>4, <2>5, <3>1
        DEF IInv, TypeOK, PrefixCollected, NoRevision, NoTotal
    <2> QED
      BY <2>6, <2>7, <2>8, <2>9, Zenon DEF IInv
  <1> QED
    BY <1>3, <1>4, Zenon

\* The invariant is inductive.
LEMMA InvariantInductive == IInv /\ [Next]_vars => IInv'
  <1> SUFFICES ASSUME IInv, [Next]_vars PROVE IInv'
    OBVIOUS
  <1>1. CASE Client
    BY <1>1, UnreachableKeeps, RefusedKeeps, MutatedKeeps, ResendKeeps, TickKeeps,
       ReceivePageKeeps, UnusablePageKeeps, ReturnKeeps, Zenon DEF Client
  <1>2. CASE UNCHANGED vars
    <2>1. TypeOK'
      BY <1>2, Zenon DEF vars, IInv, TypeOK
    <2>2. AtRest' /\ PostedOnce' /\ WaitCovers'
      BY <1>2, Zenon DEF vars, IInv, AtRest, PostedOnce, WaitCovers
    <2>3. SeenNow' /\ PrefixCollected' /\ ListingIsSnapshot' /\ DoneMeansCarriedOut'
      BY <1>2, Zenon DEF vars, IInv, SeenNow, PrefixCollected, ListingIsSnapshot,
                DoneMeansCarriedOut, Listing, Listed, Rows
    <2> QED
      BY <2>1, <2>2, <2>3, Zenon DEF IInv
  <1> QED
    BY <1>1, <1>2, BeginKeeps, CancelKeeps, EditKeeps, Zenon DEF Next

\* The invariant holds of every run of the client and the device.
THEOREM TransportInvariant == Spec => []IInv
  <1>1. Init => IInv
    <2> SUFFICES ASSUME Init PROVE IInv
      OBVIOUS
    <2>1. TypeOK
      <3>1. throttle \in Pauses /\ wait \in Delays
        BY NothingAsked, Zenon DEF Init
      <3> QED
        BY <3>1, TransportAssumption
        DEF Init, TypeOK, NoCall, Call, Start, NoTotal, NoRevision, Rows, Pauses
    <2> QED
      BY <2>1, Zenon DEF Init, IInv, AtRest, PostedOnce, WaitCovers, SeenNow, PrefixCollected,
                  ListingIsSnapshot, DoneMeansCarriedOut, Listing, NoCall, Start
  <1> QED
    BY <1>1, InvariantInductive, PTL DEF Spec

-----------------------------------------------------------------------------
\* A listing that succeeds is the zone as it was at one moment during the call,
\* for zones and pages of any size, any order of the rows and any number of edits
\* between the pages (ListRecords).
THEOREM SuccessfulListingIsSnapshot == Spec => []ListingIsSnapshot
  BY TransportInvariant, PTL DEF IInv

\* One create makes at most one row, however many retries are configured (doJSON).
THEOREM PostsCreateAtMostOneRow == Spec => []CreatesAtMostOneRow
  <1>1. IInv => CreatesAtMostOneRow
    BY Zenon DEF IInv, PostedOnce, CreatesAtMostOneRow
  <1> QED
    BY <1>1, TransportInvariant, PTL

\* A mutation reported as done has been carried out (checkEnvelope).
THEOREM MutationsReportedAreCarriedOut == Spec => []DoneMeansCarriedOut
  BY TransportInvariant, PTL DEF IInv

\* Before a request is sent again the pause the device asked for is over, unless
\* the answer that asked for it could not be read (retryDelay, parseRetryAfter), for
\* all delays.
THEOREM ResendsRespectThrottle == Spec => ThrottleRespected
  <1>1. IInv /\ [Next]_vars => [ResendStep]_vars
    <2> SUFFICES ASSUME IInv, Next, pc = "wait", pc' = "send"
                 PROVE  throttle.left = 0 \/ ~throttle.heard
      BY Zenon DEF ResendStep
    <2>1. Resend
      BY Zenon DEF Next, Begin, Client, Unreachable, Refused, Mutated, Tick, ReceivePage,
             UnusablePage, Return, Cancel, End, Edit
    <2> QED
      BY <2>1 DEF Resend, IInv, TypeOK, WaitCovers, Delays
  <1> QED
    BY <1>1, TransportInvariant, PTL DEF Spec, ThrottleRespected
=============================================================================
