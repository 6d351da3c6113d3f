--------------------------- MODULE BookmarkWrite ---------------------------
(***************************************************************************)
(* BookmarkWritebackService (crates/x-sync/src/writeback): one account's    *)
(* live bookmark writes and dry runs, from the claim of the idempotency key *)
(* through local admission, the write budget and the consumption of the     *)
(* consent to the single provider call and its outcome.  Every await of     *)
(* `execute` between two transactions is a point where other callers, the   *)
(* user's authority and a complete snapshot may move.                       *)
(*                                                                          *)
(* A request is a record; the owner, action and target that its consent     *)
(* must name are abstracted to whether they match.  The audit trail is      *)
(* left out.  The budget is one window of the write ledger (ApiBudget).     *)
(***************************************************************************)
EXTENDS Integers, FiniteSets

CONSTANTS
  Callers,     \* concurrent callers of the service
  Keys,        \* idempotency keys
  Consents,    \* recorded consents
  Requests,    \* [key, consent, matches, live], the requests callers make
  None,        \* no request
  Cap,         \* calls the window of the write budget allows
  MaxCrashes   \* bound: callers that die or meet an error of the database

ASSUME WriteAssumption ==
  /\ Requests \subseteq [key : Keys, consent : Consents, matches : BOOLEAN, live : BOOLEAN]
  /\ None \notin Requests
  /\ IsFiniteSet(Keys)
  /\ {Cap, MaxCrashes} \subseteq Nat

VARIABLES
  consent,    \* x_archive.bookmark_write_consents
  op,         \* x_archive.bookmark_write_operations, by idempotency key
  used,       \* the write budget charged in the window
  authority,  \* account connected, credential and write authorization fit
  satisfied,  \* the projection shows the requested state
  caller,     \* where each caller is in execute or dry_run
  calls,      \* history: provider calls made for each operation
  crashes     \* crashes and errors so far

rows == <<consent, op, used>>
surroundings == <<authority, satisfied>>
vars == <<rows, surroundings, caller, calls, crashes>>

-----------------------------------------------------------------------------
Reconciled == {"reconciled_succeeded", "reconciled_not_current"}
Finished == {"succeeded", "projection_pending", "uncertain"} \cup Reconciled
Statuses == {"none", "received", "refused", "dry_run", "provider_in_flight", "failed"}
              \cup Finished
Places == {"evaluate", "reserve", "consume", "refund", "call", "complete", "wait"}
Outcomes == {"succeeded", "projection_pending", "uncertain", "failed"}
Idle == [at |-> "idle"]
NoOutcome == "none"

TypeOK ==
  /\ consent \in [Consents -> [recorded : BOOLEAN, consumed : BOOLEAN, expired : BOOLEAN]]
  /\ op \in [Keys -> [is : Statuses, request : Requests \cup {None}]]
  /\ used \in 0..Cap
  /\ authority \in BOOLEAN /\ satisfied \in BOOLEAN
  /\ caller \in [Callers -> {Idle} \cup
                  [at : Places, request : Requests, outcome : Outcomes \cup {NoOutcome}]]
  /\ calls \in [Keys -> Nat]
  /\ crashes \in 0..MaxCrashes

Init ==
  /\ consent = [n \in Consents |-> [recorded |-> FALSE, consumed |-> FALSE, expired |-> FALSE]]
  /\ op = [k \in Keys |-> [is |-> "none", request |-> None]]
  /\ used = 0
  /\ authority = TRUE /\ satisfied = FALSE
  /\ caller = [c \in Callers |-> Idle]
  /\ calls = [k \in Keys |-> 0]
  /\ crashes = 0

-----------------------------------------------------------------------------
(* The surroundings.                                                        *)

(* record_consent: only a connected account approves.                       *)
RecordConsent(n) ==
  /\ authority
  /\ ~consent[n].recorded
  /\ consent' = [consent EXCEPT ![n].recorded = TRUE]
  /\ UNCHANGED <<op, used, surroundings, caller, calls, crashes>>

(* The clock passes expires_at.                                             *)
Expire(n) ==
  /\ consent[n].recorded
  /\ consent' = [consent EXCEPT ![n].expired = TRUE]
  /\ UNCHANGED <<op, used, surroundings, caller, calls, crashes>>

(* The connection, credential or authorization is lost or renewed; scans    *)
(* and snapshots move the projection.                                       *)
AuthorityMoves ==
  /\ authority' = ~authority
  /\ UNCHANGED <<rows, satisfied, caller, calls, crashes>>

ProjectionMoves ==
  /\ satisfied' = ~satisfied
  /\ UNCHANGED <<rows, authority, caller, calls, crashes>>

(* A complete snapshot resolves an uncertain write (BookmarkSync).          *)
Reconcile(k) ==
  /\ op[k].is = "uncertain"
  /\ \E s \in Reconciled : op' = [op EXCEPT ![k].is = s]
  /\ UNCHANGED <<consent, used, surroundings, caller, calls, crashes>>

-----------------------------------------------------------------------------
(* claim_operation.                                                         *)

Begin(c, at, q) ==
  caller' = [caller EXCEPT ![c] = [at |-> at, request |-> q, outcome |-> NoOutcome]]
At(c, at) == caller[c].at = at
Go(c, at) == caller' = [caller EXCEPT ![c].at = at]
Return(c) == caller' = [caller EXCEPT ![c] = Idle]

(* The unique key makes one caller of several the executor.                 *)
Claimable(q) == op[q.key].is = "none"

Claim(c, q) ==
  /\ caller[c] = Idle
  /\ Claimable(q)
  /\ op' = [op EXCEPT ![q.key] = [is |-> "received", request |-> q]]
  /\ Begin(c, "evaluate", q)
  /\ UNCHANGED <<consent, used, surroundings, calls, crashes>>

(* The key is bound to another fingerprint.                                 *)
Conflict(c, q) ==
  /\ caller[c] = Idle
  /\ ~Claimable(q) /\ op[q.key].request # q
  /\ Return(c)
  /\ UNCHANGED <<rows, surroundings, calls, crashes>>

(* stored_write_status: the statuses that answer an exact retry.            *)
Stored(k) == op[k].is \in Finished

(* An exact retry of a live write is answered from the stored status, or    *)
(* waits; a retried dry run is told that it is in progress.                 *)
Retry(c, q) ==
  /\ caller[c] = Idle
  /\ ~Claimable(q) /\ op[q.key].request = q
  /\ IF ~q.live THEN Return(c)
     ELSE IF Stored(q.key) THEN Return(c)
     ELSE Begin(c, "wait", q)
  /\ UNCHANGED <<rows, surroundings, calls, crashes>>

(* wait_for_operation polls a bounded number of times.                      *)
WaitAnswered(c) ==
  /\ At(c, "wait")
  /\ Stored(caller[c].request.key)
  /\ Return(c)
  /\ UNCHANGED <<rows, surroundings, calls, crashes>>

WaitExhausted(c) ==
  /\ At(c, "wait")
  /\ ~Stored(caller[c].request.key)
  /\ Return(c)
  /\ UNCHANGED <<rows, surroundings, calls, crashes>>

-----------------------------------------------------------------------------
(* evaluate_local, and what execute and dry_run do with its verdict.        *)

Live(n) == consent[n].recorded /\ ~consent[n].consumed /\ ~consent[n].expired

(* account_state and require_write_authority: the account is connected, and *)
(* its newest active credential and its authorization hold every scope.     *)
Authorized == authority

Verdict(q) ==
  IF ~Authorized \/ ~(q.matches /\ Live(q.consent)) THEN "refused"
  ELSE IF satisfied THEN "already_satisfied"
  ELSE IF used >= Cap THEN "refused" ELSE "admitted"

(* Every later status update is guarded by the status it starts from.       *)
SetStatus(k, from, to) ==
  op' = [op EXCEPT ![k].is = IF @ = from THEN to ELSE @]

CompleteDryRun(k) == SetStatus(k, "received", "dry_run")
RefuseOperation(k) == SetStatus(k, "received", "refused")

Evaluate(c) ==
  LET q == caller[c].request
      v == Verdict(q)
  IN /\ At(c, "evaluate")
     /\ \/ /\ ~q.live
           /\ CompleteDryRun(q.key)
           /\ Return(c)
        \/ /\ q.live /\ v = "admitted"
           /\ Go(c, "reserve")
           /\ UNCHANGED op
        \/ /\ q.live /\ v = "already_satisfied"
           /\ SetStatus(q.key, "received", "succeeded")
           /\ Return(c)
        \/ /\ q.live /\ v = "refused"
           /\ RefuseOperation(q.key)
           /\ Return(c)
     /\ UNCHANGED <<consent, used, surroundings, calls, crashes>>

(* The budget is charged, or refuses although admission saw room.           *)
Reserve(c) ==
  LET k == caller[c].request.key
  IN /\ At(c, "reserve")
     /\ IF used < Cap
        THEN /\ used' = used + 1
             /\ Go(c, "consume")
             /\ UNCHANGED op
        ELSE /\ RefuseOperation(k)
             /\ Return(c)
             /\ UNCHANGED used
     /\ UNCHANGED <<consent, surroundings, calls, crashes>>

(* consume_consent compares the expiry with the instant of the evaluation,  *)
(* so only another consumer can get in between.                             *)
Unchecked(n) == TRUE
Unconsumed(n) == ~consent[n].consumed

Consumed(c) ==
  LET q == caller[c].request
  IN /\ At(c, "consume")
     /\ Unconsumed(q.consent)
     /\ consent' = [consent EXCEPT ![q.consent].consumed = TRUE]
     /\ SetStatus(q.key, "received", "provider_in_flight")

ConsumeConsent(c) ==
  /\ Consumed(c)
  /\ Go(c, "call")
  /\ UNCHANGED <<used, surroundings, calls, crashes>>

(* The commit succeeds and its answer is lost: the charge is refunded and   *)
(* no call is made.                                                         *)
CommitLost(c) ==
  /\ crashes < MaxCrashes
  /\ crashes' = crashes + 1
  /\ Consumed(c)
  /\ Go(c, "refund")
  /\ UNCHANGED <<used, surroundings, calls>>

(* Another operation consumed the consent.                                  *)
ConsumeRefused(c) ==
  /\ At(c, "consume")
  /\ ~Unconsumed(caller[c].request.consent)
  /\ Go(c, "refund")
  /\ UNCHANGED <<rows, surroundings, calls, crashes>>

(* An error of the database, or a commit that fails, rolls the consumption  *)
(* back: the consent stays unconsumed and the operation received.           *)
ConsumeFails(c) ==
  /\ At(c, "consume")
  /\ crashes < MaxCrashes
  /\ crashes' = crashes + 1
  /\ Go(c, "refund")
  /\ UNCHANGED <<rows, surroundings, calls>>

(* refund_before_provider; the operation keeps the status it has.           *)
Refund(c) ==
  /\ At(c, "refund")
  /\ used' = used - 1
  /\ Return(c)
  /\ UNCHANGED <<consent, op, surroundings, calls, crashes>>

-----------------------------------------------------------------------------
(* The provider reads the credential again before it sends.                 *)
DoubtfulCredential(c) ==
  LET k == caller[c].request.key
  IN /\ At(c, "call")
     /\ calls' = [calls EXCEPT ![k] = IF authority THEN @ + 1 ELSE @]
     /\ \E o \in Outcomes :
          /\ authority \/ o = "uncertain"
          /\ caller' = [caller EXCEPT ![c].at = "complete", ![c].outcome = o]
     /\ UNCHANGED <<rows, surroundings, crashes>>

CallProvider(c) ==
  LET k == caller[c].request.key
  IN /\ At(c, "call")
     /\ IF authority
        THEN /\ calls' = [calls EXCEPT ![k] = @ + 1]
             /\ \E o \in Outcomes :
                  caller' = [caller EXCEPT ![c].at = "complete", ![c].outcome = o]
        ELSE /\ caller' = [caller EXCEPT ![c].at = "complete", ![c].outcome = "failed"]
             /\ UNCHANGED calls
     /\ UNCHANGED <<rows, surroundings, crashes>>

(* complete_confirmed, complete_uncertain or complete_provider_failure.     *)
RefundedFailure(c) ==
  /\ At(c, "complete")
  /\ SetStatus(caller[c].request.key, "provider_in_flight", caller[c].outcome)
  /\ used' = IF caller[c].outcome = "failed" THEN used - 1 ELSE used
  /\ Return(c)
  /\ UNCHANGED <<consent, surroundings, calls, crashes>>

Complete(c) ==
  /\ At(c, "complete")
  /\ SetStatus(caller[c].request.key, "provider_in_flight", caller[c].outcome)
  /\ Return(c)
  /\ UNCHANGED <<consent, used, surroundings, calls, crashes>>

(* A caller dies, or an error of the database ends it.                      *)
Crash(c) ==
  /\ caller[c] # Idle
  /\ crashes < MaxCrashes
  /\ crashes' = crashes + 1
  /\ Return(c)
  /\ UNCHANGED <<rows, surroundings, calls>>

Next ==
  \/ \E n \in Consents : RecordConsent(n) \/ Expire(n)
  \/ AuthorityMoves \/ ProjectionMoves
  \/ \E k \in Keys : Reconcile(k)
  \/ \E c \in Callers, q \in Requests : Claim(c, q) \/ Conflict(c, q) \/ Retry(c, q)
  \/ \E c \in Callers :
       \/ WaitAnswered(c) \/ WaitExhausted(c) \/ Evaluate(c) \/ Reserve(c)
       \/ ConsumeConsent(c) \/ CommitLost(c) \/ ConsumeRefused(c)
       \/ ConsumeFails(c) \/ Refund(c) \/ CallProvider(c) \/ Complete(c) \/ Crash(c)

Spec == Init /\ [][Next]_vars

-----------------------------------------------------------------------------
(* The provider is called at most once for an operation, only for a live    *)
(* request whose consent names it and was consumed, and one consent never   *)
(* pays for two operations, whatever callers race for the key or the        *)
(* consent (claim_operation and consume_consent).                           *)
OneCallPerConsent ==
  /\ \A k \in Keys : calls[k] > 0 =>
       /\ calls[k] = 1
       /\ op[k].request.live /\ op[k].request.matches
       /\ consent[op[k].request.consent].consumed
  /\ \A j, k \in Keys : calls[j] > 0 /\ calls[k] > 0 /\ j # k =>
       op[j].request.consent # op[k].request.consent

(* Every provider call is charged: refunds, lost commits and crashes never  *)
(* leave the ledger below the calls made in the window (reserve and         *)
(* refund_before_provider).                                                 *)
CallsArePaid == Cardinality({k \in Keys : calls[k] > 0}) <= used

(* An operation whose call was made is never reported as refused or as a    *)
(* dry run, and one that reports a provider outcome was called for or was   *)
(* satisfied beforehand: nothing overwrites the outcome of the attempt (the *)
(* status guards of refuse_operation, complete_* and the reconciliation).   *)
OutcomeIsOfTheCall ==
  \A k \in Keys :
    /\ calls[k] = 1 => op[k].is \in {"provider_in_flight", "failed"} \cup Finished
    /\ op[k].is \in {"projection_pending", "uncertain"} \cup Reconciled => calls[k] = 1

Executing(k) ==
  \E d \in Callers : caller[d] # Idle /\ ~At(d, "wait") /\ caller[d].request.key = k

(* "An exact request is already being executed by another caller or         *)
(* process" when a caller gives up waiting and is told so.                  *)
InProgressIsTrue ==
  [][\A c \in Callers :
       At(c, "wait") /\ caller'[c] = Idle /\ ~Stored(caller[c].request.key) =>
         Executing(caller[c].request.key)]_vars
=============================================================================
