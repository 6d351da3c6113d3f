------------------------ MODULE BookmarkWriteProofs ------------------------
(***************************************************************************)
(* Proofs about BookmarkWrite, for any callers, keys, consents, requests    *)
(* and cap: every live write is called at most once, on a consent of its    *)
(* own (OneCallPerConsent), is charged (CallsArePaid), and its outcome is   *)
(* never overwritten (OutcomeIsOfTheCall).                                  *)
(*                                                                          *)
(* The argument: the claim makes one caller the executor of a key, whose    *)
(* operation waits in the status the executor left it in (CallerFine); what *)
(* an operation says is backed by a consumed consent that no other          *)
(* operation spends (KeyFine, OwnConsent); and the ledger holds a charge    *)
(* for every operation that was called or may still be (Charged).           *)
(***************************************************************************)
EXTENDS BookmarkWrite, FiniteSetTheorems, TLAPS

Working(c) == caller[c].at \in Places \ {"wait"}
Key(c) == caller[c].request.key

(* The statuses that only a consumed consent leads to.                      *)
Paid == {"provider_in_flight", "failed", "projection_pending", "uncertain"} \cup Reconciled
Spends(k) == op[k].is \in Paid \/ calls[k] = 1

(* What holds of a row and its calls.                                       *)
KeyFine(k) ==
  /\ calls[k] \in {0, 1}
  /\ op[k].is # "none" => op[k].request \in Requests /\ op[k].request.key = k
  /\ Spends(k) => /\ op[k].is \in Paid \cup {"succeeded"}
                  /\ op[k].request.live /\ op[k].request.matches
                  /\ consent[op[k].request.consent].consumed
  /\ op[k].is \in {"projection_pending", "uncertain"} \cup Reconciled => calls[k] = 1

(* What a caller in the middle of execute may rely on.                      *)
WorkFine(x, o, n) ==
  /\ o.request = x.request
  /\ x.at # "evaluate" => x.request.live /\ x.request.matches
  /\ x.at \in {"evaluate", "reserve", "consume"} => o.is = "received"
  /\ x.at = "refund" => o.is \in {"received", "provider_in_flight"}
  /\ x.at \in {"call", "complete"} => o.is = "provider_in_flight"
  /\ x.at # "complete" => n = 0
  /\ x.at = "complete" => x.outcome \in Outcomes /\ (n = 0 => x.outcome = "failed")

CallerFine(c) ==
  LET k == caller[c].request.key IN Working(c) => WorkFine(caller[c], op[k], calls[k])

Exclusive == \A c, d \in Callers : Working(c) /\ Working(d) /\ Key(c) = Key(d) => c = d

OwnConsent ==
  \A j, k \in Keys : Spends(j) /\ Spends(k) /\ op[j].request.consent = op[k].request.consent
                       => j = k

(* The keys whose charge must be in the ledger.                             *)
Holding(c) == caller[c].at \in {"consume", "refund", "call"}
Charged == {k \in Keys : calls[k] = 1 \/ \E c \in Callers : Holding(c) /\ Key(c) = k}

Orderly ==
  /\ \A k \in Keys : KeyFine(k)
  /\ \A c \in Callers : CallerFine(c)
  /\ Exclusive
  /\ OwnConsent

IInv == TypeOK /\ Orderly /\ Cardinality(Charged) <= used

-----------------------------------------------------------------------------
(* What the updates of a caller and of a row do.                            *)

Busy == [at : Places, request : Requests, outcome : Outcomes \cup {NoOutcome}]

(* A caller that is somewhere in execute carries a request.                 *)
LEMMA CallerBusy ==
  ASSUME TypeOK, NEW c \in Callers, caller[c].at # "idle"
  PROVE  /\ caller[c] \in Busy /\ caller[c].request \in Requests
         /\ Key(c) \in Keys /\ caller[c].request.consent \in Consents
<1>1. caller[c] \in Busy
  BY DEF TypeOK, Idle, Busy
<1>2. caller[c].request \in Requests
  BY <1>1 DEF Busy
<1> QED
  BY <1>1, <1>2, WriteAssumption DEF Key

(* Going on changes where the caller is and nothing else of it.             *)
LEMMA Went ==
  ASSUME TypeOK, NEW c \in Callers, caller[c].at # "idle", NEW at \in Places, Go(c, at)
  PROVE  /\ caller' \in [Callers -> {Idle} \cup Busy]
         /\ caller'[c].at = at /\ caller'[c].request = caller[c].request
         /\ caller'[c].outcome = caller[c].outcome
         /\ \A d \in Callers \ {c} : caller'[d] = caller[d]
<1> DEFINE x == [caller[c] EXCEPT !.at = at]
<1>1. caller[c] \in Busy
  BY CallerBusy
<1>2. /\ x \in Busy /\ x.at = at
      /\ x.request = caller[c].request /\ x.outcome = caller[c].outcome
  BY <1>1 DEF Busy
<1>3. caller' = [caller EXCEPT ![c] = x]
  BY DEF Go
<1> HIDE DEF x
<1> QED
  BY <1>2, <1>3 DEF TypeOK, Busy

(* Returning makes the caller idle.                                         *)
LEMMA Returned ==
  ASSUME TypeOK, NEW c \in Callers, Return(c)
  PROVE  /\ caller' \in [Callers -> {Idle} \cup Busy]
         /\ caller'[c].at = "idle"
         /\ \A d \in Callers \ {c} : caller'[d] = caller[d]
  BY DEF TypeOK, Return, Idle, Busy

(* Beginning gives the caller its request.                                  *)
LEMMA Begun ==
  ASSUME TypeOK, NEW c \in Callers, NEW at \in Places, NEW q \in Requests, Begin(c, at, q)
  PROVE  /\ caller' \in [Callers -> {Idle} \cup Busy]
         /\ caller'[c].at = at /\ caller'[c].request = q
         /\ \A d \in Callers \ {c} : caller'[d] = caller[d]
<1> DEFINE x == [at |-> at, request |-> q, outcome |-> NoOutcome]
<1>1. x \in Busy /\ x.at = at /\ x.request = q
  BY DEF Busy
<1>2. caller' = [caller EXCEPT ![c] = x]
  BY DEF Begin
<1> HIDE DEF x
<1> QED
  BY <1>1, <1>2 DEF TypeOK, Busy

Rows == [is : Statuses, request : Requests \cup {None}]

(* A status update writes the row that is in the status it starts from, and *)
(* no other.                                                                *)
LEMMA StatusSet ==
  ASSUME TypeOK, NEW k \in Keys, NEW from, NEW to \in Statuses, SetStatus(k, from, to)
  PROVE  /\ op' \in [Keys -> Rows]
         /\ op'[k].is = IF op[k].is = from THEN to ELSE op[k].is
         /\ op'[k].request = op[k].request
         /\ \A j \in Keys \ {k} : op'[j] = op[j]
<1> DEFINE s == IF op[k].is = from THEN to ELSE op[k].is
           x == [op[k] EXCEPT !.is = s]
<1>1. op[k] \in Rows
  BY DEF TypeOK, Rows
<1>2. s \in Statuses
  BY <1>1 DEF Rows
<1> HIDE DEF s
<1>3. x \in Rows /\ x.is = s /\ x.request = op[k].request
  BY <1>1, <1>2 DEF Rows
<1>4. op' = [op EXCEPT ![k] = x]
  BY DEF SetStatus, s
<1> HIDE DEF x
<1>5. /\ op' \in [Keys -> Rows] /\ op'[k] = x
      /\ \A j \in Keys \ {k} : op'[j] = op[j]
  BY <1>3, <1>4 DEF TypeOK, Rows
<1> QED
  BY <1>3, <1>5 DEF s

-----------------------------------------------------------------------------
(* Two frames: a step that writes no row, and a step of the one caller that *)
(* executes a key, or of the reconciliation once nobody does.               *)

(* The consents only ever become consumed.                                  *)
Consumes == \A n \in Consents : consent[n].consumed => consent'[n].consumed

(* A step that writes no row and leaves or ends every caller is orderly.    *)
LEMMA NothingWritten ==
  ASSUME TypeOK, Orderly, Consumes, op' = op, calls' = calls,
         \A d \in Callers : caller'[d] = caller[d] \/ ~Working(d)'
  PROVE  Orderly'
<1>1. ASSUME NEW k \in Keys
      PROVE  KeyFine(k)'
  <2>1. KeyFine(k)
    BY DEF Orderly
  <2>2. Spends(k) => op[k].request.consent \in Consents
    BY <2>1, WriteAssumption DEF KeyFine, Spends, Paid, Reconciled
  <2> QED
    BY <2>1, <2>2 DEF KeyFine, Spends, Consumes
<1>2. \A c \in Callers : CallerFine(c)'
  BY DEF Orderly, CallerFine, WorkFine, Working
<1>3. Exclusive'
  BY DEF Orderly, Exclusive, Working, Key
<1>4. OwnConsent'
  BY DEF Orderly, OwnConsent, Spends
<1> QED
  BY <1>1, <1>2, <1>3, <1>4 DEF Orderly

(* A step of a caller in S, at most one, that writes the row k which no     *)
(* other caller executes is orderly when it leaves the caller and the row   *)
(* fine and spends no consent that was consumed before.                     *)
LEMMA OneRowWritten ==
  ASSUME TypeOK, Orderly, Consumes, NEW k \in Keys, NEW S \in SUBSET Callers,
         \A c, d \in S : c = d,
         \A d \in Callers \ S : caller'[d] = caller[d] /\ (Working(d) => Key(d) # k),
         \A d \in S : CallerFine(d)' /\ (Working(d)' => Key(d)' = k),
         \A j \in Keys \ {k} : op'[j] = op[j] /\ calls'[j] = calls[j],
         KeyFine(k)',
         Spends(k)' => /\ op'[k].request = op[k].request
                       /\ Spends(k) \/ ~consent[op[k].request.consent].consumed
  PROVE  Orderly'
<1>1. ASSUME NEW j \in Keys
      PROVE  KeyFine(j)'
  <2>1. CASE j = k
    BY <2>1
  <2>2. CASE j # k
    <3>1. KeyFine(j)
      BY DEF Orderly
    <3>2. Spends(j) => op[j].request.consent \in Consents
      BY <3>1, WriteAssumption DEF KeyFine, Spends, Paid, Reconciled
    <3>3. op'[j] = op[j] /\ calls'[j] = calls[j]
      BY <2>2
    <3> QED
      BY <3>1, <3>2, <3>3 DEF KeyFine, Spends, Consumes
  <2> QED
    BY <2>1, <2>2
<1>2. ASSUME NEW d \in Callers
      PROVE  CallerFine(d)'
  <2>1. CASE d \in S
    BY <2>1
  <2>2. CASE d \notin S
    <3>1. caller'[d] = caller[d] /\ (Working(d) => Key(d) # k)
      BY <2>2
    <3>2. Working(d) => Key(d) \in Keys
      BY CallerBusy DEF Working, Places
    <3>3. CallerFine(d)
      BY DEF Orderly
    <3>4. Working(d) => op'[Key(d)] = op[Key(d)] /\ calls'[Key(d)] = calls[Key(d)]
      BY <3>1, <3>2
    <3>5. Working(d)' <=> Working(d)
      BY <3>1 DEF Working
    <3>6. CASE ~Working(d)
      BY <3>5, <3>6 DEF CallerFine, WorkFine
    <3>7. CASE Working(d)
      <4>1. op'[caller[d].request.key] = op[caller[d].request.key]
        BY <3>4, <3>7 DEF Key
      <4>2. calls'[caller[d].request.key] = calls[caller[d].request.key]
        BY <3>4, <3>7 DEF Key
      <4> QED
        BY <3>1, <3>3, <3>7, <4>1, <4>2 DEF CallerFine
    <3> QED
      BY <3>6, <3>7
  <2> QED
    BY <2>1, <2>2
<1>3. Exclusive'
  <2>1. ASSUME NEW c \in Callers, NEW d \in Callers, Working(c)', Working(d)', Key(c)' = Key(d)'
        PROVE  c = d
    <3>1. CASE c \in S /\ d \in S
      BY <3>1
    <3>2. CASE c \in S /\ d \notin S
      BY <2>1, <3>2 DEF Working, Key
    <3>3. CASE c \notin S /\ d \in S
      BY <2>1, <3>3 DEF Working, Key
    <3>4. CASE c \notin S /\ d \notin S
      BY <2>1, <3>4 DEF Orderly, Exclusive, Working, Key
    <3> QED
      BY <3>1, <3>2, <3>3, <3>4
  <2> QED
    BY <2>1 DEF Exclusive
<1>4. OwnConsent'
  <2>1. ASSUME NEW j \in Keys, j # k, Spends(j)', Spends(k)'
        PROVE  op'[j].request.consent # op'[k].request.consent
    <3>1. op'[j] = op[j] /\ Spends(j)
      BY <2>1 DEF Spends
    <3>2. consent[op[j].request.consent].consumed
      BY <3>1 DEF Orderly, KeyFine
    <3>3. CASE Spends(k)
      BY <2>1, <3>1, <3>3 DEF Orderly, OwnConsent
    <3>4. CASE ~consent[op[k].request.consent].consumed
      BY <2>1, <3>1, <3>2, <3>4
    <3> QED
      BY <2>1, <3>3, <3>4
  <2>2. ASSUME NEW i \in Keys, NEW j \in Keys, i # k, j # k, Spends(i)', Spends(j)',
               op'[i].request.consent = op'[j].request.consent
        PROVE  i = j
    BY <2>2 DEF Orderly, OwnConsent, Spends
  <2> QED
    BY <2>1, <2>2 DEF OwnConsent
<1> QED
  BY <1>1, <1>2, <1>3, <1>4 DEF Orderly

(* The same for the step of a caller c.                                     *)
LEMMA CallerWrites ==
  ASSUME TypeOK, Orderly, Consumes, NEW k \in Keys, NEW c \in Callers,
         \A d \in Callers \ {c} : caller'[d] = caller[d] /\ (Working(d) => Key(d) # k),
         CallerFine(c)', Working(c)' => Key(c)' = k,
         \A j \in Keys \ {k} : op'[j] = op[j] /\ calls'[j] = calls[j],
         KeyFine(k)',
         Spends(k)' => /\ op'[k].request = op[k].request
                       /\ Spends(k) \/ ~consent[op[k].request.consent].consumed
  PROVE  Orderly'
<1> DEFINE S == {c}
<1>1. S \in SUBSET Callers /\ \A b, d \in S : b = d
  OBVIOUS
<1>2. /\ \A d \in Callers \ S : caller'[d] = caller[d] /\ (Working(d) => Key(d) # k)
      /\ \A d \in S : CallerFine(d)' /\ (Working(d)' => Key(d)' = k)
  OBVIOUS
<1> HIDE DEF S
<1> QED
  BY <1>1, <1>2, OneRowWritten

-----------------------------------------------------------------------------
(* Each action is orderly.                                                  *)

(* The surroundings, and callers that only look or leave.                   *)
LEMMA LookingIsOrderly ==
  ASSUME TypeOK, Orderly,
         \/ \E n \in Consents : RecordConsent(n) \/ Expire(n)
         \/ AuthorityMoves \/ ProjectionMoves
         \/ \E c \in Callers, q \in Requests : Conflict(c, q) \/ Retry(c, q)
         \/ \E c \in Callers : WaitAnswered(c) \/ WaitExhausted(c) \/ Refund(c) \/ Crash(c)
  PROVE  Orderly'
<1>1. CASE \E n \in Consents : RecordConsent(n) \/ Expire(n)
  <2>1. PICK n \in Consents : RecordConsent(n) \/ Expire(n)
    BY <1>1
  <2>2. Consumes
    BY <2>1, Zenon DEF RecordConsent, Expire, Consumes, TypeOK
  <2>3. op' = op /\ calls' = calls /\ caller' = caller
    BY <2>1 DEF RecordConsent, Expire
  <2> QED
    BY <2>2, <2>3, NothingWritten
<1>2. CASE AuthorityMoves \/ ProjectionMoves
  <2>1. Consumes /\ op' = op /\ calls' = calls /\ caller' = caller
    BY <1>2 DEF AuthorityMoves, ProjectionMoves, rows, Consumes
  <2> QED
    BY <2>1, NothingWritten
<1>3. CASE \E c \in Callers, q \in Requests : Conflict(c, q) \/ Retry(c, q)
  <2>1. PICK c \in Callers, q \in Requests : Conflict(c, q) \/ Retry(c, q)
    BY <1>3
  <2>2. Consumes /\ op' = op /\ calls' = calls
    BY <2>1 DEF Conflict, Retry, rows, Consumes
  <2>3. Return(c) \/ Begin(c, "wait", q)
    BY <2>1 DEF Conflict, Retry
  <2>4. \A d \in Callers : caller'[d] = caller[d] \/ ~Working(d)'
    BY <2>3, Returned, Begun DEF Working, Places
  <2> QED
    BY <2>2, <2>4, NothingWritten
<1>4. CASE \E c \in Callers : WaitAnswered(c) \/ WaitExhausted(c) \/ Refund(c) \/ Crash(c)
  <2>1. PICK c \in Callers : WaitAnswered(c) \/ WaitExhausted(c) \/ Refund(c) \/ Crash(c)
    BY <1>4
  <2>2. Consumes /\ op' = op /\ calls' = calls /\ Return(c)
    BY <2>1 DEF WaitAnswered, WaitExhausted, Refund, Crash, rows, Consumes
  <2>3. \A d \in Callers : caller'[d] = caller[d] \/ ~Working(d)'
    BY <2>2, Returned DEF Working, Places
  <2> QED
    BY <2>2, <2>3, NothingWritten
<1> QED
  BY <1>1, <1>2, <1>3, <1>4

(* The claim of a key makes its caller the only one that executes it.       *)
LEMMA ClaimIsOrderly ==
  ASSUME TypeOK, Orderly, NEW c \in Callers, NEW q \in Requests, Claim(c, q)
  PROVE  Orderly'
<1> DEFINE k == q.key
           x == [is |-> "received", request |-> q]
<1>1. k \in Keys /\ op[k].is = "none" /\ KeyFine(k)
  BY WriteAssumption DEF Claim, Claimable, Orderly
<1>2. Consumes /\ calls' = calls /\ Begin(c, "evaluate", q) /\ op' = [op EXCEPT ![k] = x]
  BY DEF Claim, Consumes
<1>3. calls[k] = 0
  BY <1>1 DEF KeyFine, Spends, Paid, Reconciled
<1>4. /\ caller'[c].at = "evaluate" /\ caller'[c].request = q
      /\ \A d \in Callers \ {c} : caller'[d] = caller[d]
  BY <1>2, Begun DEF Places
<1>5. op'[k].is = "received" /\ op'[k].request = q /\ \A j \in Keys \ {k} : op'[j] = op[j]
  BY <1>1, <1>2 DEF TypeOK
<1>6. \A d \in Callers \ {c} : Working(d) => Key(d) # k
  <2>1. ASSUME NEW d \in Callers, Working(d)
        PROVE  op[Key(d)].is # "none"
    BY <2>1 DEF Orderly, CallerFine, WorkFine, Working, Places, Key
  <2> QED
    BY <1>1, <2>1
<1>7. CallerFine(c)' /\ (Working(c)' => Key(c)' = k)
  BY <1>2, <1>3, <1>4, <1>5 DEF CallerFine, WorkFine, Key
<1>8. KeyFine(k)' /\ ~Spends(k)'
  BY <1>2, <1>3, <1>5 DEF KeyFine, Spends, Paid, Reconciled
<1> HIDE DEF k
<1> QED
  BY <1>1, <1>2, <1>4, <1>5, <1>6, <1>7, <1>8, CallerWrites

(* The reconciliation finds nobody executing the key.                       *)
LEMMA ReconcileIsOrderly ==
  ASSUME TypeOK, Orderly, NEW k \in Keys, Reconcile(k)
  PROVE  Orderly'
<1>1. PICK s \in Reconciled : op' = [op EXCEPT ![k].is = s]
  BY Zenon DEF Reconcile
<1>2. /\ op'[k].is \in Reconciled /\ op'[k].request = op[k].request
      /\ \A j \in Keys \ {k} : op'[j] = op[j]
  BY <1>1 DEF TypeOK
<1>3. Consumes /\ calls' = calls /\ caller' = caller /\ consent' = consent /\ op[k].is = "uncertain"
  BY DEF Reconcile, Consumes
<1>4. KeyFine(k) /\ Spends(k)
  BY <1>3 DEF Orderly, Spends, Paid
<1>5. KeyFine(k)'
  BY <1>2, <1>3, <1>4 DEF KeyFine, Spends, Paid, Reconciled
<1>6. \A d \in Callers : Working(d) => Key(d) # k
  BY <1>3 DEF Orderly, CallerFine, WorkFine, Working, Places, Key
<1>7. {} \in SUBSET Callers
  OBVIOUS
<1> QED
  BY <1>2, <1>3, <1>4, <1>5, <1>6, <1>7, OneRowWritten, Zenon

(* What an executor finds at its step.                                      *)
LEMMA ExecutorFinds ==
  ASSUME TypeOK, Orderly, NEW c \in Callers, Working(c)
  PROVE  /\ Key(c) \in Keys /\ caller[c].request \in Requests
         /\ caller[c].request.consent \in Consents /\ caller[c].at # "idle"
         /\ KeyFine(Key(c)) /\ CallerFine(c)
         /\ \A d \in Callers \ {c} : Working(d) => Key(d) # Key(c)
<1>1. caller[c].at # "idle"
  BY DEF Working, Places
<1>2. Key(c) \in Keys /\ caller[c].request \in Requests /\ caller[c].request.consent \in Consents
  BY <1>1, CallerBusy
<1> QED
  BY <1>1, <1>2 DEF Orderly, Exclusive

(* The evaluation admits a live request whose consent matches, or ends the  *)
(* operation; the reservation goes on or ends it.                           *)
LEMMA AdmissionIsOrderly ==
  ASSUME TypeOK, Orderly, NEW c \in Callers, Evaluate(c) \/ Reserve(c)
  PROVE  Orderly'
<1> DEFINE q == caller[c].request
<1>0. caller[c].at \in {"evaluate", "reserve"}
  BY DEF Evaluate, Reserve, At
<1>1. Working(c)
  BY <1>0 DEF Working, Places
<1>k. PICK k \in Keys : k = Key(c)
  BY <1>1, ExecutorFinds
<1>2. /\ caller[c].at # "idle" /\ KeyFine(k) /\ CallerFine(c)
      /\ \A d \in Callers \ {c} : Working(d) => Key(d) # k
  BY <1>1, <1>k, ExecutorFinds
<1>3. /\ op[k].is = "received" /\ op[k].request = q /\ calls[k] = 0 /\ q.key = k
      /\ caller[c].at = "reserve" => q.live /\ q.matches
  BY <1>0, <1>1, <1>2, <1>k DEF CallerFine, WorkFine, Key
<1>4. Consumes /\ calls' = calls
  BY DEF Evaluate, Reserve, Consumes
<1>5. ASSUME NEW s \in {"dry_run", "succeeded", "refused"},
             SetStatus(k, "received", s), Return(c)
      PROVE  Orderly'
  <2>1. /\ op'[k].is = s /\ op'[k].request = q
        /\ \A j \in Keys \ {k} : op'[j] = op[j]
    BY <1>2, <1>3, <1>5, StatusSet DEF Statuses, Finished
  <2>2. /\ caller'[c].at = "idle"
        /\ \A d \in Callers \ {c} : caller'[d] = caller[d]
    BY <1>5, Returned
  <2>3. CallerFine(c)' /\ ~Working(c)'
    BY <2>2 DEF CallerFine, WorkFine, Working, Places
  <2>4. KeyFine(k)' /\ ~Spends(k)'
    BY <1>2, <1>3, <1>4, <2>1 DEF KeyFine, Spends, Paid, Reconciled
  <2> QED
    BY <1>2, <1>4, <2>1, <2>2, <2>3, <2>4, CallerWrites
<1>6. ASSUME NEW at \in {"reserve", "consume"}, op' = op, Go(c, at), q.live, q.matches
      PROVE  Orderly'
  <2>1. /\ caller'[c].at = at /\ caller'[c].request = q
        /\ \A d \in Callers \ {c} : caller'[d] = caller[d]
    BY <1>2, <1>6, Went DEF Places
  <2>2. CallerFine(c)' /\ Key(c)' = k
    BY <1>3, <1>4, <1>6, <2>1 DEF CallerFine, WorkFine, Key
  <2>3. KeyFine(k)' /\ ~Spends(k)'
    BY <1>2, <1>3, <1>4, <1>6 DEF KeyFine, Spends, Paid, Reconciled
  <2> QED
    BY <1>2, <1>4, <1>6, <2>1, <2>2, <2>3, CallerWrites
<1>7. CASE Evaluate(c)
  <2>1. \/ SetStatus(k, "received", "dry_run") /\ Return(c)
        \/ SetStatus(k, "received", "succeeded") /\ Return(c)
        \/ SetStatus(k, "received", "refused") /\ Return(c)
        \/ q.live /\ Verdict(q) = "admitted" /\ Go(c, "reserve") /\ op' = op
    BY <1>7, <1>k DEF Evaluate, CompleteDryRun, RefuseOperation, Key
  <2>2. Verdict(q) = "admitted" => q.matches
    BY DEF Verdict
  <2> QED
    BY <1>5, <1>6, <2>1, <2>2
<1>8. CASE Reserve(c)
  <2>1. \/ SetStatus(k, "received", "refused") /\ Return(c)
        \/ Go(c, "consume") /\ op' = op
    BY <1>8, <1>k DEF Reserve, RefuseOperation, Key
  <2>2. q.live /\ q.matches
    BY <1>3, <1>8 DEF Reserve, At
  <2> QED
    BY <1>5, <1>6, <2>1, <2>2
<1> QED
  BY <1>7, <1>8

(* The consumption spends a consent that no operation spends.               *)
LEMMA ConsumptionIsOrderly ==
  ASSUME TypeOK, Orderly, NEW c \in Callers,
         ConsumeConsent(c) \/ CommitLost(c) \/ ConsumeRefused(c) \/ ConsumeFails(c)
  PROVE  Orderly'
<1> DEFINE q == caller[c].request
<1>0. caller[c].at = "consume"
  BY DEF ConsumeConsent, CommitLost, ConsumeRefused, ConsumeFails, Consumed, At
<1>1. Working(c)
  BY <1>0 DEF Working, Places
<1>k. PICK k \in Keys : k = Key(c)
  BY <1>1, ExecutorFinds
<1>2. /\ q.consent \in Consents /\ caller[c].at # "idle" /\ KeyFine(k)
      /\ q \in Requests /\ CallerFine(c)
      /\ \A d \in Callers \ {c} : Working(d) => Key(d) # k
  BY <1>1, <1>k, ExecutorFinds
<1>3. /\ op[k].is = "received" /\ op[k].request = q /\ calls[k] = 0 /\ q.key = k
      /\ q.live /\ q.matches
  BY <1>0, <1>1, <1>2, <1>k DEF CallerFine, WorkFine, Key
<1>4. calls' = calls
  BY DEF ConsumeConsent, CommitLost, ConsumeRefused, ConsumeFails
<1>5. ASSUME NEW at \in {"call", "refund"}, Consumed(c), Go(c, at)
      PROVE  Orderly'
  <2>1. /\ caller'[c].at = at /\ caller'[c].request = q
        /\ \A d \in Callers \ {c} : caller'[d] = caller[d]
    BY <1>2, <1>5, Went DEF Places
  <2>2. /\ SetStatus(k, "received", "provider_in_flight") /\ ~consent[q.consent].consumed
        /\ consent' = [consent EXCEPT ![q.consent].consumed = TRUE]
    BY <1>5, <1>k DEF Consumed, Unconsumed, Key
  <2>3. /\ op'[k].is = "provider_in_flight" /\ op'[k].request = q
        /\ \A j \in Keys \ {k} : op'[j] = op[j]
    BY <1>2, <1>3, <2>2, StatusSet DEF Statuses
  <2>4. Consumes /\ consent'[q.consent].consumed
    BY <1>2, <2>2 DEF Consumes, TypeOK
  <2>5. CallerFine(c)' /\ Key(c)' = k
    BY <1>3, <1>4, <2>1, <2>3 DEF CallerFine, WorkFine, Key
  <2>6. KeyFine(k)'
    BY <1>2, <1>3, <1>4, <2>3, <2>4 DEF KeyFine, Spends, Paid, Reconciled
  <2> QED
    BY <1>2, <1>3, <1>4, <2>1, <2>2, <2>3, <2>4, <2>5, <2>6, CallerWrites
<1>6. CASE ConsumeRefused(c) \/ ConsumeFails(c)
  <2>1. Go(c, "refund") /\ op' = op /\ consent' = consent /\ Consumes
    BY <1>6 DEF ConsumeRefused, ConsumeFails, rows, Consumes
  <2>2. /\ caller'[c].at = "refund" /\ caller'[c].request = q
        /\ \A d \in Callers \ {c} : caller'[d] = caller[d]
    BY <1>2, <2>1, Went DEF Places
  <2>3. CallerFine(c)' /\ Key(c)' = k
    BY <1>3, <1>4, <2>1, <2>2 DEF CallerFine, WorkFine, Key
  <2>4. KeyFine(k)' /\ ~Spends(k)'
    BY <1>2, <1>3, <1>4, <2>1 DEF KeyFine, Spends, Paid, Reconciled
  <2> QED
    BY <1>2, <1>4, <2>1, <2>2, <2>3, <2>4, CallerWrites
<1> QED
  BY <1>5, <1>6 DEF ConsumeConsent, CommitLost

(* The call is the first for its operation; without one the outcome is a    *)
(* failure.                                                                 *)
LEMMA CallIsOrderly ==
  ASSUME TypeOK, Orderly, NEW c \in Callers, CallProvider(c)
  PROVE  Orderly'
<1> DEFINE q == caller[c].request
<1>0. caller[c].at = "call"
  BY DEF CallProvider, At
<1>1. Working(c)
  BY <1>0 DEF Working, Places
<1>k. PICK k \in Keys : k = Key(c)
  BY <1>1, ExecutorFinds
<1>2. /\ caller[c].at # "idle" /\ KeyFine(k) /\ CallerFine(c)
      /\ \A d \in Callers \ {c} : Working(d) => Key(d) # k
  BY <1>1, <1>k, ExecutorFinds
<1>3. /\ op[k].is = "provider_in_flight" /\ op[k].request = q /\ calls[k] = 0 /\ q.key = k
      /\ q.live /\ q.matches
  BY <1>0, <1>1, <1>2, <1>k DEF CallerFine, WorkFine, Key
<1>4. op' = op /\ consent' = consent /\ Consumes
  BY DEF CallProvider, rows, Consumes
<1>5. PICK o \in Outcomes :
        /\ caller' = [caller EXCEPT ![c].at = "complete", ![c].outcome = o]
        /\ calls' = [calls EXCEPT ![k] = IF authority THEN 1 ELSE 0]
        /\ authority \/ o = "failed"
  <2>1. CASE authority
    <3>1. /\ calls' = [calls EXCEPT ![k] = calls[k] + 1]
          /\ \E o \in Outcomes :
               caller' = [caller EXCEPT ![c].at = "complete", ![c].outcome = o]
      BY <1>k, <2>1 DEF CallProvider, Key
    <3>2. calls[k] + 1 = 1
      BY <1>3
    <3> QED
      BY <2>1, <3>1, <3>2, Zenon
  <2>2. CASE ~authority
    <3>1. calls' = [calls EXCEPT ![k] = 0]
      BY <1>3, <2>2 DEF CallProvider, TypeOK
    <3> QED
      BY <2>2, <3>1 DEF CallProvider, Outcomes
  <2> QED
    BY <2>1, <2>2
<1>6. /\ calls'[k] \in {0, 1} /\ (calls'[k] = 0 => o = "failed")
      /\ \A j \in Keys \ {k} : calls'[j] = calls[j]
  BY <1>5 DEF TypeOK
<1>7. /\ caller'[c].at = "complete" /\ caller'[c].request = q /\ caller'[c].outcome = o
      /\ \A d \in Callers \ {c} : caller'[d] = caller[d]
  <2>1. caller[c] \in Busy
    BY <1>2, CallerBusy
  <2>2. caller' = [caller EXCEPT ![c] = [caller[c] EXCEPT !.at = "complete", !.outcome = o]]
    BY <1>5, Zenon
  <2> QED
    BY <2>1, <2>2 DEF TypeOK, Busy
<1>8. CallerFine(c)' /\ Key(c)' = k
  BY <1>3, <1>4, <1>6, <1>7 DEF CallerFine, WorkFine, Key
<1>9. KeyFine(k)' /\ Spends(k)
  BY <1>2, <1>3, <1>4, <1>6 DEF KeyFine, Spends, Paid, Reconciled
<1> QED
  BY <1>2, <1>4, <1>6, <1>7, <1>8, <1>9, CallerWrites

(* The completion turns the operation in flight into its outcome.           *)
LEMMA CompletionIsOrderly ==
  ASSUME TypeOK, Orderly, NEW c \in Callers, Complete(c)
  PROVE  Orderly'
<1> DEFINE q == caller[c].request
           o == caller[c].outcome
<1>0. caller[c].at = "complete"
  BY DEF Complete, At
<1>1. Working(c)
  BY <1>0 DEF Working, Places
<1>k. PICK k \in Keys : k = Key(c)
  BY <1>1, ExecutorFinds
<1>2. /\ KeyFine(k) /\ CallerFine(c)
      /\ \A d \in Callers \ {c} : Working(d) => Key(d) # k
  BY <1>1, <1>k, ExecutorFinds
<1>3. /\ op[k].is = "provider_in_flight" /\ op[k].request = q
      /\ o \in Outcomes /\ (calls[k] = 0 => o = "failed")
  BY <1>0, <1>1, <1>2, <1>k DEF CallerFine, WorkFine, Key
<1>4. /\ calls' = calls /\ consent' = consent /\ Consumes /\ Return(c)
      /\ SetStatus(k, "provider_in_flight", o)
  BY <1>k DEF Complete, Consumes, Key
<1>5. /\ op'[k].is = o /\ op'[k].request = q /\ \A j \in Keys \ {k} : op'[j] = op[j]
  BY <1>3, <1>4, StatusSet DEF Statuses, Outcomes, Finished
<1>6. caller'[c].at = "idle" /\ \A d \in Callers \ {c} : caller'[d] = caller[d]
  BY <1>4, Returned
<1>7. CallerFine(c)' /\ ~Working(c)'
  BY <1>6 DEF CallerFine, WorkFine, Working, Places
<1>8. KeyFine(k)' /\ Spends(k)
  BY <1>2, <1>3, <1>4, <1>5 DEF KeyFine, Spends, Paid, Reconciled, Outcomes
<1> HIDE DEF o
<1> QED
  BY <1>2, <1>3, <1>4, <1>5, <1>6, <1>7, <1>8, CallerWrites

(* Every step is orderly.                                                   *)
LEMMA NextIsOrderly ==
  ASSUME TypeOK, Orderly, [Next]_vars
  PROVE  Orderly'
<1>1. CASE UNCHANGED vars
  <2>1. Consumes /\ op' = op /\ calls' = calls /\ caller' = caller
    BY <1>1 DEF vars, rows, Consumes
  <2> QED
    BY <2>1, NothingWritten
<1>2. CASE Next
  BY <1>2, LookingIsOrderly, ReconcileIsOrderly, ClaimIsOrderly, AdmissionIsOrderly,
     ConsumptionIsOrderly, CallIsOrderly, CompletionIsOrderly DEF Next
<1> QED
  BY <1>1, <1>2

-----------------------------------------------------------------------------
(* The ledger.                                                              *)

(* A step that charges no further key, one that charges a key more, and one *)
(* that stops charging a key.                                               *)
LEMMA StillPaid ==
  ASSUME Cardinality(Charged) <= used, used \in Nat,
         \/ Charged' \subseteq Charged /\ used' = used
         \/ \E k \in Keys : Charged' \subseteq Charged \cup {k} /\ used' = used + 1
         \/ \E k \in Charged : Charged' \subseteq Charged \ {k} /\ used' = used - 1
  PROVE  Cardinality(Charged') <= used' /\ used' \in Nat
<1>1. IsFiniteSet(Charged)
  <2>1. Charged \subseteq Keys
    BY DEF Charged
  <2> QED
    BY <2>1, WriteAssumption, FS_Subset
<1>2. Cardinality(Charged) \in Nat
  BY <1>1, FS_CardinalityType
<1>3. CASE Charged' \subseteq Charged /\ used' = used
  <2>1. Cardinality(Charged') <= Cardinality(Charged) /\ IsFiniteSet(Charged')
    BY <1>1, <1>3, FS_Subset
  <2>2. Cardinality(Charged') \in Nat
    BY <2>1, FS_CardinalityType
  <2> QED
    BY <1>2, <1>3, <2>1, <2>2
<1>4. ASSUME NEW k \in Keys, Charged' \subseteq Charged \cup {k}, used' = used + 1
      PROVE  Cardinality(Charged') <= used' /\ used' \in Nat
  <2>1. /\ IsFiniteSet(Charged \cup {k})
        /\ Cardinality(Charged \cup {k}) \in {Cardinality(Charged), Cardinality(Charged) + 1}
    BY <1>1, FS_AddElement
  <2>2. Cardinality(Charged') <= Cardinality(Charged \cup {k}) /\ IsFiniteSet(Charged')
    BY <1>4, <2>1, FS_Subset
  <2>3. Cardinality(Charged') \in Nat
    BY <2>2, FS_CardinalityType
  <2> QED
    BY <1>2, <1>4, <2>1, <2>2, <2>3
<1>5. ASSUME NEW k \in Charged, Charged' \subseteq Charged \ {k}, used' = used - 1
      PROVE  Cardinality(Charged') <= used' /\ used' \in Nat
  <2>1. /\ IsFiniteSet(Charged \ {k})
        /\ Cardinality(Charged \ {k}) = Cardinality(Charged) - 1
    BY <1>1, <1>5, FS_RemoveElement
  <2>2. Cardinality(Charged') <= Cardinality(Charged \ {k}) /\ IsFiniteSet(Charged')
    BY <1>5, <2>1, FS_Subset
  <2>3. Cardinality(Charged') \in Nat
    BY <2>2, FS_CardinalityType
  <2> QED
    BY <1>2, <1>5, <2>1, <2>2, <2>3
<1> QED
  BY <1>3, <1>4, <1>5

(* Keys stay charged for no other reason than before.                       *)
LEMMA NoFurtherCharge ==
  ASSUME \A d \in Callers : Holding(d)' => Holding(d) /\ Key(d)' = Key(d),
         \A k \in Keys : calls'[k] = 1 => k \in Charged
  PROVE  Charged' \subseteq Charged
  BY DEF Charged

(* Only the reservation charges a key more, and the refund is of a key that *)
(* was charged, has no call and no other caller.                            *)
LEMMA ChargesMove ==
  ASSUME TypeOK, Orderly, [Next]_vars
  PROVE  \/ Charged' \subseteq Charged /\ used' = used
         \/ \E k \in Keys : Charged' \subseteq Charged \cup {k} /\ used' = used + 1
         \/ \E k \in Charged : Charged' \subseteq Charged \ {k} /\ used' = used - 1
<1>0. ASSUME calls' = calls
      PROVE  \A k \in Keys : calls'[k] = 1 => k \in Charged
  BY <1>0 DEF Charged
<1>1. CASE \/ UNCHANGED vars \/ AuthorityMoves \/ ProjectionMoves
           \/ \E n \in Consents : RecordConsent(n) \/ Expire(n)
           \/ \E k \in Keys : Reconcile(k)
  <2>1. calls' = calls /\ caller' = caller /\ used' = used
    BY <1>1 DEF vars, rows, AuthorityMoves, ProjectionMoves, RecordConsent, Expire, Reconcile
  <2> QED
    BY <1>0, <2>1, NoFurtherCharge DEF Holding, Key
<1>2. ASSUME NEW c \in Callers, calls' = calls, used' = used,
             \/ Return(c)
             \/ \E q \in Requests : Begin(c, "evaluate", q) \/ Begin(c, "wait", q)
      PROVE  Charged' \subseteq Charged
  <2>1. /\ caller'[c].at \in {"idle", "evaluate", "wait"}
        /\ \A d \in Callers \ {c} : caller'[d] = caller[d]
    BY <1>2, Returned, Begun DEF Places
  <2> QED
    BY <1>0, <1>2, <2>1, NoFurtherCharge DEF Holding, Key
<1>3. ASSUME NEW c \in Callers, NEW q \in Requests, Claim(c, q) \/ Conflict(c, q) \/ Retry(c, q)
      PROVE  Charged' \subseteq Charged /\ used' = used
  <2>1. calls' = calls /\ used' = used
    BY <1>3 DEF Claim, Conflict, Retry, rows
  <2>2. Return(c) \/ Begin(c, "evaluate", q) \/ Begin(c, "wait", q)
    BY <1>3 DEF Claim, Conflict, Retry
  <2> QED
    BY <1>2, <2>1, <2>2
<1>4. ASSUME NEW c \in Callers,
             WaitAnswered(c) \/ WaitExhausted(c) \/ Complete(c) \/ Crash(c)
      PROVE  Charged' \subseteq Charged /\ used' = used
  <2>1. calls' = calls /\ used' = used /\ Return(c)
    BY <1>4 DEF WaitAnswered, WaitExhausted, Complete, Crash, rows
  <2> QED
    BY <1>2, <2>1
<1>5. ASSUME NEW c \in Callers, Evaluate(c)
      PROVE  Charged' \subseteq Charged /\ used' = used
  <2>1. calls' = calls /\ used' = used /\ caller[c].at = "evaluate" /\ (Return(c) \/ Go(c, "reserve"))
    BY <1>5 DEF Evaluate, At
  <2>2. /\ caller'[c].at \in {"idle", "reserve"}
        /\ \A d \in Callers \ {c} : caller'[d] = caller[d]
    BY <2>1, Returned, Went DEF Places
  <2> QED
    BY <1>0, <2>1, <2>2, NoFurtherCharge DEF Holding, Key
<1>6. ASSUME NEW c \in Callers, Reserve(c)
      PROVE  \/ Charged' \subseteq Charged /\ used' = used
             \/ \E k \in Keys : Charged' \subseteq Charged \cup {k} /\ used' = used + 1
  <2>1. calls' = calls /\ caller[c].at = "reserve"
    BY <1>6 DEF Reserve, At
  <2>2. CASE used < Cap
    <3>1. used' = used + 1 /\ Go(c, "consume")
      BY <1>6, <2>2 DEF Reserve
    <3>2. caller'[c].request = caller[c].request /\ \A d \in Callers \ {c} : caller'[d] = caller[d]
      BY <2>1, <3>1, Went DEF Places
    <3>3. PICK k \in Keys : k = Key(c)
      BY <2>1, CallerBusy
    <3>4. Charged' \subseteq Charged \cup {k}
      BY <2>1, <3>2, <3>3 DEF Charged, Holding, Key
    <3> QED
      BY <3>1, <3>4
  <2>3. CASE ~(used < Cap)
    BY <1>2, <1>6, <2>1, <2>3 DEF Reserve
  <2> QED
    BY <2>2, <2>3
<1>7. ASSUME NEW c \in Callers, ConsumeConsent(c) \/ CommitLost(c) \/ ConsumeRefused(c) \/ ConsumeFails(c)
      PROVE  Charged' \subseteq Charged /\ used' = used
  <2>1. /\ calls' = calls /\ used' = used /\ caller[c].at = "consume"
        /\ Go(c, "call") \/ Go(c, "refund")
    BY <1>7 DEF ConsumeConsent, CommitLost, ConsumeRefused, ConsumeFails, Consumed, At, rows
  <2>2. caller'[c].request = caller[c].request /\ \A d \in Callers \ {c} : caller'[d] = caller[d]
    BY <2>1, Went DEF Places
  <2>3. \A d \in Callers : Holding(d)' => Holding(d) /\ Key(d)' = Key(d)
    BY <2>1, <2>2 DEF Holding, Key
  <2> QED
    BY <1>0, <2>1, <2>3, NoFurtherCharge
<1>8. ASSUME NEW c \in Callers, CallProvider(c)
      PROVE  Charged' \subseteq Charged /\ used' = used
  <2>1. used' = used /\ caller[c].at = "call"
    BY <1>8 DEF CallProvider, At, rows
  <2>2. /\ caller'[c].at = "complete" /\ \A d \in Callers \ {c} : caller'[d] = caller[d]
    <3>1. caller[c] \in Busy
      BY <2>1, CallerBusy
    <3>2. PICK o : caller' = [caller EXCEPT ![c] = [caller[c] EXCEPT !.at = "complete", !.outcome = o]]
      BY <1>8, Zenon DEF CallProvider
    <3> QED
      BY <3>1, <3>2 DEF TypeOK, Busy
  <2>3. \A d \in Callers : Holding(d)' => Holding(d) /\ Key(d)' = Key(d)
    BY <2>2 DEF Holding, Key
  <2>4. \A k \in Keys : k # Key(c) => calls'[k] = calls[k]
    BY <1>8 DEF CallProvider, Key, TypeOK
  <2>5. Key(c) \in Keys => Key(c) \in Charged
    BY <2>1 DEF Charged, Holding
  <2>6. \A k \in Keys : calls'[k] = 1 => k \in Charged
    BY <2>4, <2>5 DEF Charged
  <2> QED
    BY <2>1, <2>3, <2>6, NoFurtherCharge
<1>9. ASSUME NEW c \in Callers, Refund(c)
      PROVE  \E k \in Charged : Charged' \subseteq Charged \ {k} /\ used' = used - 1
  <2>1. calls' = calls /\ used' = used - 1 /\ caller[c].at = "refund" /\ Return(c)
    BY <1>9 DEF Refund, At
  <2>2. Working(c)
    BY <2>1 DEF Working, Places
  <2>3. PICK k \in Keys : k = Key(c)
    BY <2>2, ExecutorFinds
  <2>4. CallerFine(c) /\ \A d \in Callers \ {c} : Working(d) => Key(d) # k
    BY <2>2, <2>3, ExecutorFinds
  <2>5. calls[k] = 0
    BY <2>1, <2>2, <2>3, <2>4 DEF CallerFine, WorkFine, Key
  <2>6. caller'[c].at = "idle" /\ \A d \in Callers \ {c} : caller'[d] = caller[d]
    BY <2>1, Returned
  <2>7. \A d \in Callers : Holding(d)' => Holding(d) /\ Key(d)' = Key(d) /\ Key(d) # k
    BY <2>4, <2>6 DEF Holding, Key, Working, Places
  <2>8. Charged' \subseteq Charged
    BY <1>0, <2>1, <2>7, NoFurtherCharge
  <2>9. k \in Charged /\ k \notin Charged'
    BY <2>1, <2>3, <2>5, <2>7 DEF Charged, Holding
  <2> QED
    BY <2>1, <2>8, <2>9
<1> QED
  BY <1>1, <1>3, <1>4, <1>5, <1>6, <1>7, <1>8, <1>9 DEF Next

-----------------------------------------------------------------------------
(* The types, and the theorems.                                             *)

(* Every step keeps the callers typed ...                                   *)
LEMMA CallersTyped ==
  ASSUME TypeOK, [Next]_vars
  PROVE  caller' \in [Callers -> {Idle} \cup Busy]
<1>1. CASE caller' = caller
  BY <1>1 DEF TypeOK, Busy
<1>2. ASSUME NEW c \in Callers, NEW q \in Requests,
             Return(c) \/ Begin(c, "evaluate", q) \/ Begin(c, "wait", q)
      PROVE  caller' \in [Callers -> {Idle} \cup Busy]
  BY <1>2, Returned, Begun DEF Places
<1>3. ASSUME NEW c \in Callers, CallProvider(c)
      PROVE  caller' \in [Callers -> {Idle} \cup Busy]
  <2>1. caller[c] \in Busy
    BY <1>3, CallerBusy DEF CallProvider, At
  <2>2. PICK o \in Outcomes :
          caller' = [caller EXCEPT ![c] = [caller[c] EXCEPT !.at = "complete", !.outcome = o]]
    BY <1>3, Zenon DEF CallProvider, Outcomes
  <2>3. [caller[c] EXCEPT !.at = "complete", !.outcome = o] \in Busy
    BY <2>1, Zenon DEF Busy, Places
  <2> QED
    BY <2>2, <2>3 DEF TypeOK, Busy
<1>4. ASSUME NEW c \in Callers,
             \/ WaitAnswered(c) \/ WaitExhausted(c) \/ Evaluate(c) \/ Reserve(c)
             \/ ConsumeConsent(c) \/ CommitLost(c) \/ ConsumeRefused(c) \/ ConsumeFails(c) \/ Refund(c)
             \/ Complete(c) \/ Crash(c)
      PROVE  caller' \in [Callers -> {Idle} \cup Busy]
  <2>1. \/ Return(c)
        \/ caller[c].at # "idle" /\ \E at \in Places : Go(c, at)
    BY <1>4 DEF WaitAnswered, WaitExhausted, Evaluate, Reserve, ConsumeConsent, CommitLost,
                ConsumeRefused, ConsumeFails, Refund, Complete, Crash, Consumed, At, Places
  <2> QED
    BY <2>1, Returned, Went
<1>5. ASSUME NEW c \in Callers, NEW q \in Requests, Claim(c, q) \/ Conflict(c, q) \/ Retry(c, q)
      PROVE  caller' \in [Callers -> {Idle} \cup Busy]
  BY <1>2, <1>5 DEF Claim, Conflict, Retry
<1>6. CASE \/ UNCHANGED vars \/ AuthorityMoves \/ ProjectionMoves
           \/ \E n \in Consents : RecordConsent(n) \/ Expire(n)
           \/ \E k \in Keys : Reconcile(k)
  BY <1>1, <1>6 DEF vars, AuthorityMoves, ProjectionMoves, RecordConsent, Expire, Reconcile
<1> QED
  BY <1>3, <1>4, <1>5, <1>6 DEF Next

(* ... the rows ...                                                         *)
LEMMA RowsTyped ==
  ASSUME TypeOK, Orderly, [Next]_vars
  PROVE  op' \in [Keys -> Rows]
<1>1. CASE op' = op
  BY <1>1 DEF TypeOK, Rows
<1>2. ASSUME NEW c \in Callers, NEW q \in Requests, Claim(c, q)
      PROVE  op' \in [Keys -> Rows]
  <2>1. [is |-> "received", request |-> q] \in Rows
    BY DEF Rows, Statuses
  <2> QED
    BY <1>2, <2>1, Zenon DEF Claim, TypeOK, Rows
<1>3. ASSUME NEW k \in Keys, Reconcile(k)
      PROVE  op' \in [Keys -> Rows]
  <2>1. PICK s \in Reconciled : op' = [op EXCEPT ![k] = [op[k] EXCEPT !.is = s]]
    BY <1>3, Zenon DEF Reconcile
  <2>2. [op[k] EXCEPT !.is = s] \in Rows
    BY DEF TypeOK, Rows, Statuses, Finished
  <2> QED
    BY <2>1, <2>2 DEF TypeOK, Rows
<1>4. ASSUME NEW c \in Callers,
             Evaluate(c) \/ Reserve(c) \/ ConsumeConsent(c) \/ CommitLost(c) \/ Complete(c)
      PROVE  op' \in [Keys -> Rows]
  <2>1. Working(c)
    BY <1>4 DEF Evaluate, Reserve, ConsumeConsent, CommitLost, Consumed, Complete, At,
                Working, Places
  <2>2. Key(c) \in Keys /\ CallerFine(c)
    BY <2>1, ExecutorFinds
  <2>3. CASE Complete(c)
    <3>1. caller[c].outcome \in Outcomes
      BY <2>1, <2>2, <2>3 DEF Complete, At, CallerFine, WorkFine
    <3>2. caller[c].outcome \in Statuses
      BY <3>1 DEF Outcomes, Statuses, Finished
    <3> QED
      BY <2>2, <2>3, <3>2, StatusSet DEF Complete, Key
  <2>4. CASE ~Complete(c)
    <3>1. \/ op' = op
          \/ \E s \in {"dry_run", "succeeded", "refused", "provider_in_flight"} :
               SetStatus(Key(c), "received", s)
      BY <1>4, <2>4 DEF Evaluate, Reserve, CompleteDryRun, RefuseOperation,
                       ConsumeConsent, CommitLost, Consumed, Key
    <3> QED
      BY <1>1, <2>2, <3>1, StatusSet DEF Statuses, Finished
  <2> QED
    BY <2>3, <2>4
<1>5. ASSUME \/ UNCHANGED vars \/ AuthorityMoves \/ ProjectionMoves
             \/ \E n \in Consents : RecordConsent(n) \/ Expire(n)
             \/ \E c \in Callers, q \in Requests : Conflict(c, q) \/ Retry(c, q)
             \/ \E c \in Callers : WaitAnswered(c) \/ WaitExhausted(c) \/ ConsumeRefused(c) \/ ConsumeFails(c)
                                   \/ Refund(c) \/ CallProvider(c) \/ Crash(c)
      PROVE  op' = op
  BY <1>5, Zenon DEF vars, rows, AuthorityMoves, ProjectionMoves, RecordConsent, Expire, Conflict,
              Retry, WaitAnswered, WaitExhausted, ConsumeRefused, ConsumeFails, Refund, CallProvider, Crash
<1> QED
  BY <1>1, <1>2, <1>3, <1>4, <1>5 DEF Next

ConsentRows == [recorded : BOOLEAN, consumed : BOOLEAN, expired : BOOLEAN]

(* ... the consents ...                                                     *)
LEMMA ConsentsTyped ==
  ASSUME TypeOK, [Next]_vars
  PROVE  consent' \in [Consents -> ConsentRows]
<1>0. consent \in [Consents -> ConsentRows]
  BY DEF TypeOK, ConsentRows
<1>1. ASSUME NEW n \in Consents,
             \/ consent' = [consent EXCEPT ![n].recorded = TRUE]
             \/ consent' = [consent EXCEPT ![n].expired = TRUE]
             \/ consent' = [consent EXCEPT ![n].consumed = TRUE]
      PROVE  consent' \in [Consents -> ConsentRows]
  <2>1. /\ [consent[n] EXCEPT !.recorded = TRUE] \in ConsentRows
        /\ [consent[n] EXCEPT !.expired = TRUE] \in ConsentRows
        /\ [consent[n] EXCEPT !.consumed = TRUE] \in ConsentRows
    BY <1>0, Zenon DEF ConsentRows
  <2>2. PICK x \in ConsentRows : consent' = [consent EXCEPT ![n] = x]
    BY <1>1, <2>1, Zenon
  <2> QED
    BY <1>0, <2>2
<1>2. ASSUME NEW n \in Consents, RecordConsent(n) \/ Expire(n)
      PROVE  consent' \in [Consents -> ConsentRows]
  BY <1>1, <1>2 DEF RecordConsent, Expire
<1>3. ASSUME NEW c \in Callers, ConsumeConsent(c) \/ CommitLost(c)
      PROVE  consent' \in [Consents -> ConsentRows]
  <2>1. /\ caller[c].at = "consume"
        /\ consent' = [consent EXCEPT ![caller[c].request.consent].consumed = TRUE]
    BY <1>3 DEF ConsumeConsent, CommitLost, Consumed, At
  <2>2. PICK n \in Consents : n = caller[c].request.consent
    BY <2>1, CallerBusy
  <2> QED
    BY <1>1, <2>1, <2>2, Zenon
<1>4. ASSUME \/ UNCHANGED vars \/ AuthorityMoves \/ ProjectionMoves
             \/ \E k \in Keys : Reconcile(k)
             \/ \E c \in Callers, q \in Requests : Claim(c, q) \/ Conflict(c, q) \/ Retry(c, q)
             \/ \E c \in Callers : \/ WaitAnswered(c) \/ WaitExhausted(c) \/ Evaluate(c)
                                   \/ Reserve(c) \/ ConsumeRefused(c) \/ ConsumeFails(c) \/ Refund(c)
                                   \/ CallProvider(c) \/ Complete(c) \/ Crash(c)
      PROVE  consent' = consent
  BY <1>4, Zenon DEF vars, rows, AuthorityMoves, ProjectionMoves, Reconcile, Claim, Conflict, Retry,
              WaitAnswered, WaitExhausted, Evaluate, Reserve, ConsumeRefused, ConsumeFails, Refund,
              CallProvider, Complete, Crash
<1> QED
  BY <1>0, <1>2, <1>3, <1>4 DEF Next

(* ... and the counters within their bounds.                                *)
LEMMA CountersTyped ==
  ASSUME TypeOK, [Next]_vars
  PROVE  /\ authority' \in BOOLEAN /\ satisfied' \in BOOLEAN
         /\ calls' \in [Keys -> Nat] /\ crashes' \in 0..MaxCrashes
         /\ used' <= Cap
<1>0. Cap \in Nat /\ MaxCrashes \in Nat
  BY WriteAssumption
<1>1. authority' \in BOOLEAN /\ satisfied' \in BOOLEAN
  <2>1. CASE AuthorityMoves \/ ProjectionMoves
    BY <2>1, Zenon DEF TypeOK, AuthorityMoves, ProjectionMoves
  <2>2. CASE ~(AuthorityMoves \/ ProjectionMoves)
    <3>1. authority' = authority /\ satisfied' = satisfied
      BY <2>2, Zenon DEF Next, vars, surroundings, Reconcile, Claim, Conflict, Retry, RecordConsent,
                  Expire, WaitAnswered, WaitExhausted, Evaluate, Reserve, ConsumeConsent,
                  CommitLost, ConsumeRefused, ConsumeFails, Refund, CallProvider, Complete, Crash
    <3> QED
      BY <3>1 DEF TypeOK
  <2> QED
    BY <2>1, <2>2
<1>2. calls' \in [Keys -> Nat]
  <2>1. ASSUME NEW c \in Callers, CallProvider(c)
        PROVE  calls' \in [Keys -> Nat]
    <3>1. \/ calls' = calls
          \/ calls' = [calls EXCEPT ![Key(c)] = calls[Key(c)] + 1]
      BY <2>1 DEF CallProvider, Key
    <3> QED
      BY <3>1 DEF TypeOK
  <2>2. ASSUME ~\E c \in Callers : CallProvider(c)
        PROVE  calls' = calls
    BY <2>2, Zenon DEF Next, vars, AuthorityMoves, ProjectionMoves, Reconcile, Claim, Conflict, Retry,
                RecordConsent, Expire, WaitAnswered, WaitExhausted, Evaluate, Reserve,
                ConsumeConsent, CommitLost, ConsumeRefused, ConsumeFails, Refund, Complete, Crash
  <2> QED
    BY <2>1, <2>2 DEF TypeOK
<1>3. crashes' \in 0..MaxCrashes
  <2>1. \/ crashes' = crashes
        \/ crashes < MaxCrashes /\ crashes' = crashes + 1
    BY Zenon DEF Next, vars, AuthorityMoves, ProjectionMoves, Reconcile, Claim, Conflict, Retry,
           RecordConsent, Expire, WaitAnswered, WaitExhausted, Evaluate, Reserve,
           ConsumeConsent, CommitLost, ConsumeRefused, ConsumeFails, Refund, CallProvider, Complete, Crash
  <2> QED
    BY <1>0, <2>1 DEF TypeOK
<1>4. used' <= Cap
  <2>1. \/ used' = used \/ used' = used - 1
        \/ used < Cap /\ used' = used + 1
    BY Zenon DEF Next, vars, rows, AuthorityMoves, ProjectionMoves, Reconcile, Claim, Conflict, Retry,
           RecordConsent, Expire, WaitAnswered, WaitExhausted, Evaluate, Reserve,
           ConsumeConsent, CommitLost, ConsumeRefused, ConsumeFails, Refund, CallProvider, Complete, Crash
  <2> QED
    BY <1>0, <2>1 DEF TypeOK
<1> QED
  BY <1>1, <1>2, <1>3, <1>4

(* The invariant is inductive.                                              *)
LEMMA Inductive ==
  /\ Init => IInv
  /\ IInv /\ [Next]_vars => IInv'
<1>1. ASSUME Init
      PROVE  IInv
  <2>1. TypeOK
    <3>1. 0 \in 0..Cap /\ 0 \in 0..MaxCrashes
      BY WriteAssumption
    <3>2. [recorded |-> FALSE, consumed |-> FALSE, expired |-> FALSE] \in ConsentRows
      BY DEF ConsentRows
    <3>3. [is |-> "none", request |-> None] \in Rows
      BY DEF Rows, Statuses
    <3>4. consent \in [Consents -> ConsentRows] /\ op \in [Keys -> Rows]
      BY <1>1, <3>2, <3>3 DEF Init
    <3> QED
      BY <1>1, <3>1, <3>4, Zenon DEF Init, TypeOK, ConsentRows, Rows
  <2>2. /\ \A k \in Keys : op[k].is = "none" /\ calls[k] = 0
        /\ \A c \in Callers : caller[c].at = "idle"
    BY <1>1 DEF Init, Idle
  <2>3. Orderly
    <3>1. \A k \in Keys : KeyFine(k) /\ ~Spends(k)
      BY <2>2 DEF KeyFine, Spends, Paid, Reconciled
    <3>2. \A c \in Callers : ~Working(c)
      BY <2>2 DEF Working, Places
    <3> QED
      BY <3>1, <3>2 DEF Orderly, CallerFine, WorkFine, Exclusive, OwnConsent
  <2>4. Charged = {} /\ used = 0
    BY <1>1, <2>2 DEF Charged, Holding, Init
  <2> QED
    BY <2>1, <2>3, <2>4, FS_EmptySet DEF IInv
<1>2. ASSUME IInv, [Next]_vars
      PROVE  IInv'
  <2>1. Orderly'
    BY <1>2, NextIsOrderly DEF IInv
  <2>2. used \in Nat /\ Cardinality(Charged) <= used
    BY <1>2 DEF IInv, TypeOK
  <2>3. Cardinality(Charged') <= used' /\ used' \in Nat
    BY <1>2, <2>2, ChargesMove, StillPaid DEF IInv
  <2>4. used' \in 0..Cap
    BY <1>2, <2>3, CountersTyped, WriteAssumption DEF IInv
  <2>5. TypeOK'
    BY <1>2, <2>4, CallersTyped, RowsTyped, ConsentsTyped, CountersTyped
       DEF IInv, TypeOK, Rows, Busy, ConsentRows
  <2> QED
    BY <2>1, <2>3, <2>5 DEF IInv
<1> QED
  BY <1>1, <1>2

(* The invariant holds throughout, with the types of BookmarkWrite.         *)
THEOREM WriteInvariance == Spec => []IInv
  BY Inductive, PTL DEF Spec

(* The provider is called at most once for an operation, for a live request *)
(* on a consumed consent that pays for no other operation, whoever races    *)
(* for the key or the consent (claim_operation and consume_consent).        *)
THEOREM CallsAreSingle == Spec => []OneCallPerConsent
<1>1. ASSUME IInv
      PROVE  OneCallPerConsent
  <2>1. ASSUME NEW k \in Keys, calls[k] > 0
        PROVE  calls[k] = 1 /\ Spends(k) /\ KeyFine(k)
    <3>1. KeyFine(k)
      BY <1>1 DEF IInv, Orderly
    <3>2. calls[k] = 1
      BY <2>1, <3>1 DEF KeyFine
    <3> QED
      BY <3>1, <3>2 DEF Spends
  <2>2. ASSUME NEW k \in Keys, calls[k] > 0
        PROVE  /\ calls[k] = 1
               /\ op[k].request.live /\ op[k].request.matches
               /\ consent[op[k].request.consent].consumed
    BY <2>1, <2>2 DEF KeyFine
  <2>3. ASSUME NEW j \in Keys, NEW k \in Keys, calls[j] > 0, calls[k] > 0, j # k
        PROVE  op[j].request.consent # op[k].request.consent
    BY <1>1, <2>1, <2>3 DEF IInv, Orderly, OwnConsent
  <2> QED
    BY <2>2, <2>3 DEF OneCallPerConsent
<1> QED
  BY <1>1, WriteInvariance, PTL

(* The ledger never falls below the calls made, whatever is refunded, lost  *)
(* or interrupted (reserve, refund_before_provider).                        *)
THEOREM CallsStayPaid == Spec => []CallsArePaid
<1>1. ASSUME IInv
      PROVE  CallsArePaid
  <2> DEFINE Called == {k \in Keys : calls[k] > 0}
  <2>1. Called \in SUBSET Charged
    <3>1. \A k \in Keys : calls[k] \in {0, 1}
      BY <1>1, Zenon DEF IInv, Orderly, KeyFine
    <3>2. \A k \in Keys : calls[k] > 0 => calls[k] = 1
      BY <3>1
    <3> QED
      BY <3>2, Zenon DEF Charged
  <2>2. Charged \in SUBSET Keys /\ IsFiniteSet(Keys)
    BY WriteAssumption DEF Charged
  <2>3. IsFiniteSet(Charged)
    BY <2>2, FS_Subset
  <2>4. /\ Cardinality(Called) <= Cardinality(Charged)
        /\ Cardinality(Called) \in Nat /\ Cardinality(Charged) \in Nat
    BY <2>1, <2>3, FS_Subset, FS_CardinalityType
  <2> QED
    BY <1>1, <2>4 DEF IInv, TypeOK, CallsArePaid
<1> QED
  BY <1>1, WriteInvariance, PTL

(* A call that was made is never reported as refused or as a dry run, and a *)
(* reported provider outcome is that of a call (the status guards of        *)
(* refuse_operation and of the completions).                                *)
THEOREM OutcomesAreOfCalls == Spec => []OutcomeIsOfTheCall
<1>1. ASSUME IInv
      PROVE  OutcomeIsOfTheCall
  <2>1. ASSUME NEW k \in Keys
        PROVE  KeyFine(k)
    BY <1>1 DEF IInv, Orderly
  <2>2. Paid \cup {"succeeded"} \subseteq {"provider_in_flight", "failed"} \cup Finished
    BY DEF Paid, Finished
  <2> QED
    BY <2>1, <2>2 DEF KeyFine, Spends, OutcomeIsOfTheCall
<1> QED
  BY <1>1, WriteInvariance, PTL
=============================================================================
