---------------------------- MODULE CaptureLane ----------------------------
(***************************************************************************)
(* The explicit browser-capture lane: the JetStream consumer that accepts   *)
(* capture commands (crates/x-capture/src/lib.rs) and the workers that      *)
(* resolve them with a public call (crates/x-sync/src/public_capture.rs).   *)
(* Both end their transactions by queueing outbox rows; here the rows are   *)
(* kept as one history per operation (reports) and one per owner's post     *)
(* (facts).  OutboxRelay models what happens to a row after that.           *)
(*                                                                          *)
(* Times are kept as the wait that is left: wait = next_attempt_at - now,   *)
(* cut off at zero, and Tick is one unit of time.                           *)
(***************************************************************************)
EXTENDS Integers, Sequences, FiniteSets

CONSTANTS
  Commands,     \* capture commands, by command_id (one capture per command)
  Keys,         \* (owner, provider_post_id) pairs
  Contents,     \* what a public call may return for a post, up to its digest
  Workers,      \* PublicCaptureWorker instances (one per running process)
  KeyOf,        \* the key a command's tenant and permalink name
  NoStatus,     \* the permalink names no status id
  Poison,       \* the command fails validate_browser_capture
  MaxAttempts,  \* CapturePolicy.max_attempts
  BatchSize,    \* CapturePolicy.batch_size
  Lease,        \* LEASE
  FirstRetry,   \* FIRST_RETRY_SECONDS
  MaxRetry,     \* MAX_RETRY_SECONDS
  Lossy,        \* bound: commands whose acknowledgements may be lost
  MaxAbandons   \* bound: how many passes crash or fail half way

ASSUME LaneAssumption ==
  /\ KeyOf \in [Commands -> Keys \cup {NoStatus, Poison}]
  /\ NoStatus \notin Keys /\ Poison \notin Keys /\ NoStatus # Poison
  /\ MaxAttempts \in Nat \ {0} /\ BatchSize \in Nat \ {0}
  /\ Lease \in Nat /\ FirstRetry \in Nat /\ MaxRetry \in Nat
  /\ Lossy \subseteq Commands /\ MaxAbandons \in Nat

VARIABLES
  broker,   \* what JetStream holds of each command
  inbox,    \* x_archive.inbox_events: the commands claimed
  capture,  \* x_archive.explicit_captures, by command
  source,   \* x_archive.explicit_sources, by key
  reports,  \* platform.operation.reported.v1 rows queued, per command
  facts,    \* social.source.* rows queued, per key
  worker,   \* the local state of each worker pass
  abandons  \* passes that crashed or failed so far

vars == <<broker, inbox, capture, source, reports, facts, worker, abandons>>

-----------------------------------------------------------------------------
Failures == {"deleted", "inaccessible", "transient"}

(* What a call means for the capture: content to preserve, or a failure.    *)
Outcomes == [kind : {"post"}, content : Contents] \cup [kind : Failures]

(* What the resolver answers: content of the post asked for, a failure      *)
(* class, a different post, or a post the social contract cannot represent  *)
(* (the transaction of preserve is then rolled back before any insert).     *)
Answers == Outcomes \cup [kind : {"otherPost", "unrepresentable"}]

Classify(answer) ==
  IF answer.kind \in {"otherPost", "unrepresentable"}
    THEN [kind |-> "inaccessible"] ELSE answer

NoRow == [status |-> "none"]
NoSource == [gen |-> 0]
NoOutcome == [kind |-> "none"]
NoClaim == [attempts |-> -1]
Idle == [claims |-> {}, current |-> NoClaim, outcome |-> NoOutcome]

Rows == [status : {"accepted", "resolved", "unavailable"}, attempts : Nat,
         wait : Nat, reported : BOOLEAN, gen : Nat]

(* A source row; gen numbers the identities minted for one key, and by is   *)
(* the command whose captured_at the row carries.                           *)
Sources == [gen : Nat \ {0}, content : Contents, by : Commands]

Claims == [command : Commands, attempts : Nat]

Reports == [status : {"queued"} \cup Failures]
             \cup [status : {"preserved"}, gen : Nat \ {0}]

(* A removal carries in seen the commands captured before removed_at.       *)
Facts == [kind : {"captured", "updated"}, gen : Nat \ {0}, content : Contents,
          by : Commands]
           \cup [kind : {"removed"}, gen : Nat \ {0}, by : Commands,
                 seen : SUBSET Commands]

TypeOK ==
  /\ broker \in [Commands -> {"unsent", "pending", "settled"}]
  /\ inbox \subseteq Commands
  /\ capture \in [Commands -> Rows \cup {NoRow}]
  /\ source \in [Keys -> Sources \cup {NoSource}]
  /\ reports \in [Commands -> Seq(Reports)]
  /\ facts \in [Keys -> Seq(Facts)]
  /\ worker \in [Workers -> [claims : SUBSET Claims,
                             current : Claims \cup {NoClaim},
                             outcome : Outcomes \cup {NoOutcome}]]
  /\ abandons \in 0..MaxAbandons

Init ==
  /\ broker = [c \in Commands |-> "unsent"]
  /\ inbox = {}
  /\ capture = [c \in Commands |-> NoRow]
  /\ source = [k \in Keys |-> NoSource]
  /\ reports = [c \in Commands |-> <<>>]
  /\ facts = [k \in Keys |-> <<>>]
  /\ worker = [w \in Workers |-> Idle]
  /\ abandons = 0

-----------------------------------------------------------------------------
(* Intake.                                                                  *)

(* Platform publishes the command; captured_at is this moment.              *)
Send(c) ==
  /\ broker[c] = "unsent"
  /\ broker' = [broker EXCEPT ![c] = "pending"]
  /\ UNCHANGED <<inbox, capture, source, reports, facts, worker, abandons>>

(* The acknowledgement (Ack or Term) reaches the broker, or is lost and the *)
(* command is delivered again.                                              *)
Settle(c) ==
  \/ broker' = [broker EXCEPT ![c] = "settled"]
  \/ c \in Lossy /\ UNCHANGED broker

(* validate_browser_capture refuses the command; status_id_from_permalink   *)
(* finds no status in it.                                                   *)
Invalid(c) == KeyOf[c] = Poison

NamesNoStatus(c) == KeyOf[c] = NoStatus

(* The row and the report persist_browser_capture inserts.                  *)
NewRow(c) ==
  [status   |-> IF NamesNoStatus(c) THEN "unavailable" ELSE "accepted",
   attempts |-> 0, wait |-> 0, reported |-> NamesNoStatus(c), gen |-> 0]

NewReport(c) ==
  [status |-> IF NamesNoStatus(c) THEN "inaccessible" ELSE "queued"]

(* claim_inbox: a command is claimed once, in the same transaction.         *)
Claimed(c) == c \in inbox

(* One delivery of a command.  A database failure answers Nak and leaves    *)
(* everything as it was, so it is a stuttering step.                        *)
Persist(c) ==
  /\ broker[c] = "pending"
  /\ Settle(c)
  /\ IF Invalid(c) \/ Claimed(c)
       THEN UNCHANGED <<inbox, capture, reports>>
       ELSE /\ inbox' = inbox \cup {c}
            /\ capture' = [capture EXCEPT ![c] = NewRow(c)]
            /\ reports' = [reports EXCEPT ![c] = Append(@, NewReport(c))]
  /\ UNCHANGED <<source, facts, worker, abandons>>

-----------------------------------------------------------------------------
(* The worker pass.                                                         *)

DeferredNeverDue ==
  {c \in Commands : capture[c].status = "accepted" /\ capture[c].attempts = 0
                      /\ capture[c].wait = 0}

Due == {c \in Commands : capture[c].status = "accepted" /\ capture[c].wait = 0}

(* claim_due: the claimed rows become invisible for Lease; an attempt is    *)
(* not counted yet, and the claim keeps the attempts it read.               *)
ClaimDue(w) ==
  /\ worker[w] = Idle
  /\ Due # {}
  /\ \E batch \in SUBSET Due :
       /\ Cardinality(batch) = IF Cardinality(Due) < BatchSize
                                 THEN Cardinality(Due) ELSE BatchSize
       /\ capture' = [c \in Commands |->
                        IF c \in batch THEN [capture[c] EXCEPT !.wait = Lease]
                                       ELSE capture[c]]
       /\ worker' = [worker EXCEPT ![w].claims =
                       {[command |-> c, attempts |-> capture[c].attempts] :
                          c \in batch}]
  /\ UNCHANGED <<broker, inbox, source, reports, facts, abandons>>

(* The call that answers for the next claim of the batch.  No transaction   *)
(* and no lock is held meanwhile.                                           *)
Resolve(w) ==
  /\ worker[w].outcome = NoOutcome
  /\ \E claim \in worker[w].claims, answer \in Answers :
       worker' = [worker EXCEPT ![w] =
                    [claims |-> @.claims \ {claim}, current |-> claim,
                     outcome |-> Classify(answer)]]
  /\ UNCHANGED <<broker, inbox, capture, source, reports, facts, abandons>>

Unguarded(c) == TRUE

(* The guard of every outcome: status = 'accepted' and reported_at is null. *)
Guarded(c) == capture[c].status = "accepted" /\ ~capture[c].reported

HasAttemptsLeft(claim) == claim.attempts + 1 < MaxAttempts

(* retry_delay: FirstRetry * 4^(failures - 1), the exponent at most 8,      *)
(* capped by MaxRetry.                                                      *)
PowersOf4 == <<1, 4, 16, 64, 256, 1024, 4096, 16384, 65536>>

RetryDelay(failures) ==
  LET e == IF failures < 1 THEN 0 ELSE IF failures > 9 THEN 8 ELSE failures - 1
      d == FirstRetry * PowersOf4[e + 1]
  IN  IF d < MaxRetry THEN d ELSE MaxRetry

(* The pass goes on with the rest of its batch.                             *)
NextClaim(w) ==
  worker' = [worker EXCEPT ![w].current = NoClaim, ![w].outcome = NoOutcome]

(* defer: the capture stays queued with the next backoff delay.             *)
Defer(w) ==
  LET claim == worker[w].current
      c == claim.command
  IN  /\ worker[w].outcome.kind = "transient"
      /\ HasAttemptsLeft(claim)
      /\ capture' = IF Guarded(c)
                      THEN [capture EXCEPT ![c].attempts = @ + 1,
                                           ![c].wait = RetryDelay(claim.attempts + 1)]
                      ELSE capture
      /\ NextClaim(w)
      /\ UNCHANGED <<broker, inbox, source, reports, facts, abandons>>

(* remove_owner_source: the delete returns the identity it removed, if any. *)
RemoveOwnerSource(c) ==
  LET k == KeyOf[c]
  IN  IF source[k] = NoSource
        THEN UNCHANGED <<source, facts>>
        ELSE /\ source' = [source EXCEPT ![k] = NoSource]
             /\ facts' = [facts EXCEPT ![k] = Append(@,
                  [kind |-> "removed", gen |-> source[k].gen, by |-> c,
                   seen |-> {d \in Commands : broker[d] # "unsent"}])]

(* terminate: one transaction under the lock of the key.                    *)
Terminate(w) ==
  LET claim == worker[w].current
      c == claim.command
      failure == worker[w].outcome.kind
  IN  /\ failure \in Failures
      /\ failure = "transient" => ~HasAttemptsLeft(claim)
      /\ IF Guarded(c)
           THEN /\ capture' = [capture EXCEPT ![c].status = "unavailable",
                                 ![c].attempts = @ + 1, ![c].reported = TRUE,
                                 ![c].wait = 0]
                /\ IF failure = "deleted" THEN RemoveOwnerSource(c)
                                          ELSE UNCHANGED <<source, facts>>
                /\ reports' = [reports EXCEPT ![c] =
                                 Append(@, [status |-> failure])]
           ELSE UNCHANGED <<capture, source, facts, reports>>
      /\ NextClaim(w)
      /\ UNCHANGED <<broker, inbox, abandons>>

(* The identity upsert_owner_source uses: the stored one, or a fresh one,   *)
(* numbered by the captures of the key so far.                              *)
Captures(f) == Cardinality({i \in DOMAIN f : f[i].kind = "captured"})

FreshGen(k) == 1 + Captures(facts[k])

AlwaysFresh(k) == FreshGen(k)

ReusedGen(k) == FreshGen(k) - 1

SourceGen(k) == IF source[k] # NoSource THEN source[k].gen ELSE FreshGen(k)

AlwaysCaptured(k) == "captured"

FactKind(k) == IF source[k] = NoSource THEN "captured" ELSE "updated"

(* upsert_owner_source: nothing is written when the digest is unchanged.    *)
UpsertOwnerSource(c, content) ==
  LET k == KeyOf[c]
      g == SourceGen(k)
  IN  IF source[k] # NoSource /\ source[k].content = content
        THEN UNCHANGED <<source, facts>>
        ELSE /\ source' = [source EXCEPT ![k] =
                             [gen |-> g, content |-> content, by |-> c]]
             /\ facts' = [facts EXCEPT ![k] = Append(@,
                  [kind |-> FactKind(k), gen |-> g, content |-> content, by |-> c])]

(* What it would be without the rollback.                                   *)
UnrolledPreserve(w) ==
  LET c == worker[w].current.command
      g == SourceGen(KeyOf[c])
  IN  /\ worker[w].outcome.kind = "post"
      /\ UpsertOwnerSource(c, worker[w].outcome.content)
      /\ IF Guarded(c)
           THEN /\ capture' = [capture EXCEPT ![c].status = "resolved",
                                 ![c].attempts = @ + 1, ![c].gen = g,
                                 ![c].reported = TRUE, ![c].wait = 0]
                /\ reports' = [reports EXCEPT ![c] =
                                 Append(@, [status |-> "preserved", gen |-> g])]
           ELSE UNCHANGED <<capture, reports>>
      /\ NextClaim(w)
      /\ UNCHANGED <<broker, inbox, abandons>>

(* preserve: one transaction under the lock of the key, rolled back when    *)
(* another worker has already reported the capture.                         *)
Preserve(w) ==
  LET c == worker[w].current.command
      g == SourceGen(KeyOf[c])
  IN  /\ worker[w].outcome.kind = "post"
      /\ IF Guarded(c)
           THEN /\ UpsertOwnerSource(c, worker[w].outcome.content)
                /\ capture' = [capture EXCEPT ![c].status = "resolved",
                                 ![c].attempts = @ + 1, ![c].gen = g,
                                 ![c].reported = TRUE, ![c].wait = 0]
                /\ reports' = [reports EXCEPT ![c] =
                                 Append(@, [status |-> "preserved", gen |-> g])]
           ELSE UNCHANGED <<capture, source, facts, reports>>
      /\ NextClaim(w)
      /\ UNCHANGED <<broker, inbox, abandons>>

(* A crash, a restart or a failed statement ends the pass: what it has not  *)
(* committed is lost and its claims wait for their leases to end.           *)
Abandon(w) ==
  /\ worker[w] # Idle
  /\ abandons < MaxAbandons
  /\ abandons' = abandons + 1
  /\ worker' = [worker EXCEPT ![w] = Idle]
  /\ UNCHANGED <<broker, inbox, capture, source, reports, facts>>

-----------------------------------------------------------------------------
(* Time passes for every queued capture.                                    *)
Tick ==
  /\ \E c \in Commands : capture[c].status = "accepted" /\ capture[c].wait > 0
  /\ capture' = [c \in Commands |->
                   IF capture[c].status = "accepted" /\ capture[c].wait > 0
                     THEN [capture[c] EXCEPT !.wait = @ - 1] ELSE capture[c]]
  /\ UNCHANGED <<broker, inbox, source, reports, facts, worker, abandons>>

Next ==
  \/ \E c \in Commands : Send(c) \/ Persist(c)
  \/ \E w \in Workers : \/ ClaimDue(w) \/ Resolve(w) \/ Defer(w)
                        \/ Terminate(w) \/ Preserve(w) \/ Abandon(w)
  \/ Tick

(* The broker redelivers until a command is settled, each process polls     *)
(* without end, every call and transaction returns (the HTTP client times   *)
(* out), and time passes.  Nothing is assumed of Send and of Abandon.       *)
Fairness ==
  /\ \A c \in Commands : WF_vars(Persist(c))
  /\ \A w \in Workers : /\ WF_vars(ClaimDue(w)) /\ WF_vars(Resolve(w))
                        /\ WF_vars(Defer(w) \/ Terminate(w) \/ Preserve(w))
  /\ WF_vars(Tick)

Spec == Init /\ [][Next]_vars /\ Fairness

-----------------------------------------------------------------------------
(* Properties.                                                              *)

ReportsTellRow(c) ==
  LET r == reports[c]
  IN  CASE capture[c].status = "none" -> r = <<>>
        [] capture[c].status = "accepted" ->
             ~capture[c].reported /\ r = <<[status |-> "queued"]>>
        [] capture[c].status = "unavailable" ->
             /\ capture[c].reported
             /\ \E f \in Failures :
                  r = IF KeyOf[c] = NoStatus THEN <<[status |-> f]>>
                      ELSE <<[status |-> "queued"], [status |-> f]>>
        [] capture[c].status = "resolved" ->
             /\ capture[c].reported
             /\ r = <<[status |-> "queued"],
                      [status |-> "preserved", gen |-> capture[c].gen]>>

(* Every capture ends with exactly one terminal report, queued with its     *)
(* outcome: a terminal report exists just when reported_at is set, it is    *)
(* the last one, and it tells the status and source identity of the row     *)
(* (terminate and preserve, guarded by reported_at, whatever workers and    *)
(* expired leases do).                                                      *)
OneTerminalReport == \A c \in Commands : ReportsTellRow(c)

(* The facts f tell the life of the source s: the last one tells s itself,  *)
(* and each follows from the one before it.                                 *)
Replays(f, s) ==
  LET n == Len(f)
  IN  /\ s = IF n = 0 \/ f[n].kind = "removed" THEN NoSource
             ELSE [gen |-> f[n].gen, content |-> f[n].content, by |-> f[n].by]
      /\ \A i \in 1..n :
           IF i = 1 \/ f[i-1].kind = "removed"
             THEN /\ f[i].kind = "captured"
                  /\ \A j \in 1..(i-1) : f[j].gen < f[i].gen
             ELSE /\ f[i].kind # "captured"
                  /\ f[i].gen = f[i-1].gen
                  /\ f[i].kind = "updated" => f[i].content # f[i-1].content

(* The facts queued for an owner's post replay to the stored source: the    *)
(* last fact tells explicit_sources, a source is captured once, updated     *)
(* only with other content, removed only when present, and an identity is   *)
(* never used again after its removal (upsert_owner_source and              *)
(* remove_owner_source under lock_owner_post).                              *)
FactsReplaySource == \A k \in Keys : Replays(facts[k], source[k])

(* The report r of a capture tells the fact x it has caused.                *)
Tells(r, x) ==
  /\ r # <<>>
  /\ r[Len(r)] = IF x.kind = "removed" THEN [status |-> "deleted"]
                 ELSE [status |-> "preserved", gen |-> x.gen]

(* No fact commits without the report of the capture that caused it, and    *)
(* no capture causes two facts: what a worker does after another one has    *)
(* reported the capture is rolled back (the else branch of preserve).       *)
EveryFactHasItsReport ==
  \A k \in Keys : \A i \in DOMAIN facts[k] :
    LET f == facts[k][i]
    IN  /\ KeyOf[f.by] = k
        /\ Tells(reports[f.by], f)
        /\ \A j \in DOMAIN facts[k] : facts[k][j].by = f.by => j = i

(* A preserved report points at a source whose captured fact is queued, so  *)
(* no operation succeeds with a result nobody will ever receive.            *)
PreservedIsBacked ==
  \A c \in Commands : capture[c].status = "resolved" =>
    \E i \in DOMAIN facts[KeyOf[c]] :
      /\ facts[KeyOf[c]][i].kind = "captured"
      /\ facts[KeyOf[c]][i].gen = capture[c].gen

Statuses(r) == [i \in DOMAIN r |-> r[i].status]

(* The abstract promise, over the statuses of the queued reports.           *)
Promise == INSTANCE OperationReports WITH
  Operations <- Commands,
  Results <- Failures \cup {"preserved"},
  log <- [c \in Commands |-> Statuses(reports[c])]

(* The lane keeps the promise of OperationReports: no interleaving of       *)
(* redeliveries, workers, expired leases and crashes reports an operation   *)
(* twice, out of order, or never.                                           *)
KeepsPromise == Promise!Spec

(* An accepted capture is not lost: crashed passes, expired leases and      *)
(* transient failures only delay its terminal report.                       *)
EveryCaptureEnds ==
  \A c \in Commands :
    broker[c] = "pending" /\ KeyOf[c] # Poison ~>
      capture[c].status \in {"resolved", "unavailable"}

(* A source preserved after a removal was captured after it, so that        *)
(* Knowledge admits it (the comment on remove_owner_source).                *)
RestoredIsAdmitted ==
  \A k \in Keys : \A i, j \in DOMAIN facts[k] :
    i < j /\ facts[k][i].kind = "removed" /\ facts[k][j].kind = "captured"
      => facts[k][j].by \notin facts[k][i].seen
=============================================================================
