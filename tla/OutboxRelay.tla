---------------------------- MODULE OutboxRelay ----------------------------
(***************************************************************************)
(* The outbox relay (crates/x-capture/src/relay.rs), the transitions of an  *)
(* outbox row (crates/x-persistence/src/outbox.rs) and the consumer of      *)
(* Knowledge's deletion acknowledgements (services/x/src/deletion_acks.rs). *)
(* JetStream and Knowledge are external: a publish may be stored, refused,  *)
(* or stored with its acknowledgement lost; the events stream collapses a   *)
(* message id inside its duplicate window and drops its oldest messages.    *)
(*                                                                          *)
(* Times are kept as the wait that is left; Tick is one unit of time.       *)
(***************************************************************************)
EXTENDS Integers, Sequences, FiniteSets

CONSTANTS
  Ids,                \* outbox rows that may be queued, by id
  NoId,               \* no row
  Removals,           \* those of type social.source.removed.v1
  Oversized,          \* those larger than the broker's max_payload
  Rank,               \* the order by (created_at, id)
  Relays,             \* relay tasks (one per running process)
  BatchSize,          \* BATCH_SIZE
  UnhealthyAttempts,  \* UNHEALTHY_ATTEMPTS
  UnhealthyAge,       \* UNHEALTHY_AGE_SECONDS
  BackoffBase,        \* the 10 seconds of record_failure
  BackoffCap,         \* the 300 seconds of record_failure
  ResendAfter,        \* ResendPolicy.after
  ResendCap,          \* ResendPolicy.cap
  CountCap,           \* bound: where attempt_count and resend_count saturate
  MaxCrashes          \* bound: how many times a relay crashes or fails

(* The counters saturate where nothing that reads them can tell any more.   *)
ASSUME RelayAssumption ==
  /\ IsFiniteSet(Ids) /\ NoId \notin Ids
  /\ Removals \subseteq Ids /\ Oversized \subseteq Ids
  /\ Rank \in [Ids -> Nat] /\ \A i, j \in Ids : Rank[i] = Rank[j] => i = j
  /\ {BatchSize, UnhealthyAttempts, BackoffBase, ResendAfter} \subseteq Nat \ {0}
  /\ {UnhealthyAge, BackoffCap, ResendCap, CountCap, MaxCrashes} \subseteq Nat
  /\ CountCap >= UnhealthyAttempts
  /\ BackoffBase * 2 ^ CountCap >= BackoffCap
  /\ ResendAfter * 2 ^ CountCap >= ResendCap

VARIABLES
  row,      \* x_archive.outbox_events
  relay,    \* the local state of each relay pass
  healthy,  \* RelayHealth of each relay
  log,      \* ids in the order in which the stream first stored them
  window,   \* removals inside the stream's duplicate window
  stream,   \* removals retained and not yet consumed by Knowledge
  answers,  \* acknowledgements by Knowledge that are on their way
  verdict,  \* what Knowledge did with each removal
  crashes   \* crashes so far

vars == <<row, relay, healthy, log, window, stream, answers, verdict, crashes>>
broker == <<log, window, stream>>
knowledge == <<answers, verdict>>

-----------------------------------------------------------------------------
Least(a, b) == IF a < b THEN a ELSE b

Unarmed == -1    \* next_resend_at is null

Fresh(n) == [queued |-> TRUE, commit |-> n, published |-> FALSE, undeliverable |-> FALSE,
             attempts |-> 0, wait |-> 0, age |-> UnhealthyAge,
             resends |-> 0, resendWait |-> Unarmed, ack |-> "none"]
NoRow == [Fresh(0) EXCEPT !.queued = FALSE]

(* commit numbers the rows in the order in which they became visible.       *)
Rows == [queued : BOOLEAN, commit : Nat, published : BOOLEAN, undeliverable : BOOLEAN,
         attempts : 0..CountCap, wait : Nat, age : 0..UnhealthyAge,
         resends : 0..CountCap, resendWait : Nat \cup {Unarmed},
         ack : {"none", "applied", "refused"}]

Idle == [phase |-> "idle", queue |-> {}, at |-> NoId, sent |-> "none",
         failed |-> FALSE]

TypeOK ==
  /\ row \in [Ids -> Rows]
  /\ relay \in [Relays -> [phase : {"idle", "fresh", "resend"},
                           queue : SUBSET Ids, at : Ids \cup {NoId},
                           sent : {"none", "ok", "tooLarge", "refused"},
                           failed : BOOLEAN]]
  /\ healthy \in [Relays -> BOOLEAN]
  /\ log \in Seq(Ids)
  /\ window \subseteq Removals
  /\ stream \subseteq Removals
  /\ answers \subseteq Removals
  /\ verdict \in [Removals -> {"none", "applied", "refused"}]
  /\ crashes \in 0..MaxCrashes

Init ==
  /\ row = [i \in Ids |-> NoRow]
  /\ relay = [r \in Relays |-> Idle]
  /\ healthy = [r \in Relays |-> TRUE]
  /\ log = <<>>
  /\ window = {} /\ stream = {} /\ answers = {}
  /\ verdict = [i \in Removals |-> "none"]
  /\ crashes = 0

Queued(i) == row[i].queued
Logged(i) == \E n \in DOMAIN log : log[n] = i

-----------------------------------------------------------------------------
(* A producer's transaction commits the row (insert).  created_at is the    *)
(* start of that transaction, so Rank and the order of commits may differ.  *)
Enqueue(i) ==
  /\ ~Queued(i)
  /\ row' = [row EXCEPT ![i] = Fresh(Cardinality({j \in Ids : Queued(j)}))]
  /\ UNCHANGED <<relay, healthy, broker, knowledge, crashes>>

-----------------------------------------------------------------------------
(* A relay pass: run_once.                                                  *)

Unpublished(i) == Queued(i) /\ ~row[i].published /\ ~row[i].undeliverable

DueFresh == {i \in Ids : Unpublished(i) /\ row[i].wait = 0}

(* The oldest BatchSize rows of a set.                                      *)
Oldest(S) == {i \in S : Cardinality({j \in S : Rank[j] < Rank[i]}) < BatchSize}

SelectFresh(r) ==
  /\ relay[r] = Idle
  /\ relay' = [relay EXCEPT ![r].phase = "fresh", ![r].queue = Oldest(DueFresh)]
  /\ UNCHANGED <<row, healthy, broker, knowledge, crashes>>

(* The row the loop is at: fresh rows go oldest first, and resends in the   *)
(* order of next_resend_at, which the waits left do not tell.               *)
AnyOrder(r, i) == i \in relay[r].queue

NextOf(r, i) ==
  /\ i \in relay[r].queue
  /\ relay[r].phase = "fresh" =>
       \A j \in relay[r].queue : Rank[i] <= Rank[j]

(* The stream keeps the first copy inside its duplicate window.  Only a     *)
(* removal is sent again on purpose, so only its window is kept here.       *)
Store(i) ==
  /\ log' = IF Logged(i) THEN log ELSE Append(log, i)
  /\ window' = window \cup ({i} \cap Removals)
  /\ stream' = stream \cup (({i} \cap Removals) \ window)

(* The call for row i returned; nothing is recorded yet.                    *)
Sent(r, i, result) ==
  /\ relay[r].sent = "none"
  /\ NextOf(r, i)
  /\ relay' = [relay EXCEPT ![r].queue = @ \ {i}, ![r].at = i, ![r].sent = result]

PublishStored(r, i) ==
  /\ i \notin Oversized
  /\ Sent(r, i, "ok")
  /\ Store(i)
  /\ UNCHANGED <<row, healthy, knowledge, crashes>>

(* No acknowledgement in time: the message may be stored all the same.      *)
PublishRefused(r, i) ==
  /\ i \notin Oversized
  /\ Sent(r, i, "refused")
  /\ Store(i) \/ UNCHANGED broker
  /\ UNCHANGED <<row, healthy, knowledge, crashes>>

PublishTooLarge(r, i) ==
  /\ i \in Oversized
  /\ Sent(r, i, "tooLarge")
  /\ UNCHANGED <<row, healthy, broker, knowledge, crashes>>

(* The transitions of a row, each with the guard of its statement.          *)
Counted(n) == Least(n + 1, CountCap)

DisarmedMark(i) ==
  IF row[i].published THEN row ELSE [row EXCEPT ![i].published = TRUE]

MarkPublished(i) ==
  IF row[i].published THEN row
  ELSE [row EXCEPT ![i].published = TRUE,
          ![i].resendWait = IF i \in Removals THEN ResendAfter ELSE Unarmed]

RetriedForever(i) ==
  IF row[i].published THEN row ELSE [row EXCEPT ![i].attempts = Counted(@)]

RecordUndeliverable(i) ==
  IF row[i].published THEN row
  ELSE [row EXCEPT ![i].attempts = Counted(@), ![i].undeliverable = TRUE]

Backoff(attempts) ==
  Least(BackoffCap, BackoffBase * 2 ^ Least(attempts + 1, 5))

RecordFailure(i, republish) ==
  IF row[i].published # republish THEN row
  ELSE [row EXCEPT ![i].attempts = Counted(@), ![i].wait = Backoff(row[i].attempts)]

ResendDelay(resends) == Least(ResendAfter * 2 ^ Least(resends, 30), ResendCap)

RecordResend(i) ==
  IF ~row[i].published \/ row[i].ack # "none" THEN row
  ELSE [row EXCEPT ![i].resends = Counted(@), ![i].attempts = 0,
          ![i].resendWait = ResendDelay(row[i].resends)]

(* What the pass writes once the call for a row has returned.               *)
MarkedWhateverCame(i, phase, result) ==
  IF phase = "fresh" THEN MarkPublished(i) ELSE RecordResend(i)

Recorded(i, phase, result) ==
  CASE result = "ok" /\ phase = "fresh"       -> MarkPublished(i)
    [] result = "ok" /\ phase = "resend"      -> RecordResend(i)
    [] result = "tooLarge" /\ phase = "fresh" -> RecordUndeliverable(i)
    [] OTHER                                  -> RecordFailure(i, phase = "resend")

(* A refused publish ends the loop; a row marked undeliverable does not.    *)
Breaks(phase, result) ==
  result = "refused" \/ (phase = "resend" /\ result = "tooLarge")

Record(r) ==
  LET me == relay[r]
  IN  /\ me.sent # "none"
      /\ row' = Recorded(me.at, me.phase, me.sent)
      /\ relay' = [relay EXCEPT ![r].at = NoId, ![r].sent = "none",
                     ![r].queue = IF Breaks(me.phase, me.sent) THEN {} ELSE @,
                     ![r].failed = Breaks(me.phase, me.sent)]
      /\ UNCHANGED <<healthy, broker, knowledge, crashes>>

ResentOnceArmed ==
  {i \in Removals : /\ Queued(i) /\ row[i].published
                    /\ row[i].resendWait = 0 /\ row[i].wait = 0}

DueResend ==
  {i \in Removals : /\ Queued(i) /\ row[i].published /\ row[i].ack = "none"
                    /\ row[i].resendWait = 0 /\ row[i].wait = 0}

LoopDone(r) == relay[r].queue = {} /\ relay[r].sent = "none"

(* resend_unacknowledged, only after a pass without a refusal.              *)
SelectResend(r) ==
  /\ relay[r].phase = "fresh" /\ LoopDone(r) /\ ~relay[r].failed
  /\ \E batch \in SUBSET DueResend :
       /\ Cardinality(batch) = Least(BatchSize, Cardinality(DueResend))
       /\ relay' = [relay EXCEPT ![r].phase = "resend", ![r].queue = batch]
  /\ UNCHANGED <<row, healthy, broker, knowledge, crashes>>

(* refresh_health: a publishable row was refused too often or too long ago. *)
StuckRow(i) ==
  /\ Unpublished(i) /\ row[i].attempts >= 1
  /\ row[i].attempts >= UnhealthyAttempts \/ row[i].age = 0

Stuck == \E i \in Ids : StuckRow(i)

LatchedEnd(r) ==
  /\ LoopDone(r)
  /\ relay[r].phase = "resend" \/ (relay[r].phase = "fresh" /\ relay[r].failed)
  /\ healthy' = [healthy EXCEPT ![r] = @ /\ ~Stuck]
  /\ relay' = [relay EXCEPT ![r] = Idle]
  /\ UNCHANGED <<row, broker, knowledge, crashes>>

EndPass(r) ==
  /\ LoopDone(r)
  /\ relay[r].phase = "resend" \/ (relay[r].phase = "fresh" /\ relay[r].failed)
  /\ healthy' = [healthy EXCEPT ![r] = ~Stuck]
  /\ relay' = [relay EXCEPT ![r] = Idle]
  /\ UNCHANGED <<row, broker, knowledge, crashes>>

(* The process dies or a statement fails, and the service is started again; *)
(* a publish whose outcome is not recorded is forgotten.                    *)
Crash(r) ==
  /\ relay[r] # Idle
  /\ crashes < MaxCrashes
  /\ crashes' = crashes + 1
  /\ relay' = [relay EXCEPT ![r] = Idle]
  /\ healthy' = [healthy EXCEPT ![r] = TRUE]
  /\ UNCHANGED <<row, broker, knowledge>>

-----------------------------------------------------------------------------
(* Knowledge, the streams and time.                                         *)

(* Knowledge applies or refuses a removal once and answers every copy.      *)
Consume(i) ==
  /\ i \in stream
  /\ stream' = stream \ {i}
  /\ \E v \in {"applied", "refused"} :
       verdict' = [verdict EXCEPT ![i] = IF @ = "none" THEN v ELSE @]
  /\ answers' = answers \cup {i}
  /\ UNCHANGED <<row, relay, healthy, log, window, crashes>>

(* outbox::acknowledge: the first answer ends the resends of a removal.     *)
Acknowledged(i) ==
  IF row[i].ack = "none" THEN [row EXCEPT ![i].ack = verdict[i]] ELSE row

(* One delivery of an acknowledgement, settled or delivered again.          *)
Acknowledge(i) ==
  /\ i \in answers
  /\ row' = Acknowledged(i)
  /\ answers' \in {answers, answers \ {i}}
  /\ UNCHANGED <<relay, healthy, broker, verdict, crashes>>

(* The stream drops its oldest messages, consumed or not.                   *)
DropMessage(i) ==
  /\ i \in stream
  /\ stream' = stream \ {i}
  /\ UNCHANGED <<row, relay, healthy, log, window, knowledge, crashes>>

DropAnswer(i) ==
  /\ i \in answers
  /\ answers' = answers \ {i}
  /\ UNCHANGED <<row, relay, healthy, broker, verdict, crashes>>

CloseWindow(i) ==
  /\ i \in window
  /\ window' = window \ {i}
  /\ UNCHANGED <<row, relay, healthy, log, stream, knowledge, crashes>>

Sooner(n) == IF n > 0 THEN n - 1 ELSE n

Aged(x) == [x EXCEPT !.wait = Sooner(@), !.age = Sooner(@), !.resendWait = Sooner(@)]

Tick ==
  /\ row' = [i \in Ids |-> IF Queued(i) THEN Aged(row[i]) ELSE row[i]]
  /\ row' # row
  /\ UNCHANGED <<relay, healthy, broker, knowledge, crashes>>

Next ==
  \/ \E i \in Ids : Enqueue(i)
  \/ \E i \in Removals : \/ Consume(i) \/ Acknowledge(i) \/ CloseWindow(i)
                          \/ DropMessage(i) \/ DropAnswer(i)
  \/ \E r \in Relays :
       \/ SelectFresh(r) \/ Record(r) \/ SelectResend(r) \/ EndPass(r) \/ Crash(r)
       \/ \E i \in Ids : PublishStored(r, i) \/ PublishRefused(r, i) \/ PublishTooLarge(r, i)
  \/ Tick

(* Each relay task runs its passes, every call returns, and time passes.    *)
(* Of the environment: a broker that is asked again and again stores and    *)
(* acknowledges at last, its duplicate window closes, and Knowledge and the *)
(* acknowledgement consumer keep up with some of the copies.                *)
Fairness ==
  /\ \A r \in Relays :
       /\ WF_vars(SelectFresh(r)) /\ WF_vars(Record(r))
       /\ WF_vars(SelectResend(r)) /\ WF_vars(EndPass(r))
       /\ WF_vars(\E i \in Ids : PublishStored(r, i) \/ PublishRefused(r, i)
                                   \/ PublishTooLarge(r, i))
       /\ \A i \in Ids : SF_vars(PublishStored(r, i))
  /\ \A i \in Removals : /\ SF_vars(Consume(i)) /\ SF_vars(Acknowledge(i))
                          /\ WF_vars(CloseWindow(i))
  /\ WF_vars(Tick)

Spec == Init /\ [][Next]_vars /\ Fairness

-----------------------------------------------------------------------------
(* Properties.                                                              *)

(* A row is marked published only when the stream has stored it: between    *)
(* the acknowledgement and mark_published a crash may repeat a publish but  *)
(* never lose one, and no pass marks a row another pass failed to send.     *)
PublishedWasStored ==
  \A i \in Ids : Queued(i) /\ row[i].published => Logged(i)

(* A removal that is published and not acknowledged has a resend scheduled, *)
(* and no other row has (mark_published, record_resend, record_failure).    *)
RemovalStaysArmed ==
  \A i \in Ids : Queued(i) =>
    (row[i].resendWait # Unarmed <=> row[i].published /\ i \in Removals)

(* A pass of relay r has row i in hand: selected, or sent and not recorded. *)
Holds(r, i) == i \in relay[r].queue \/ relay[r].at = i

(* The first answer to a removal is final.  No later answer changes it, no  *)
(* resend is counted after it, and once the row is published no relay takes *)
(* it up again: a pass at most finishes the copy it had in hand.  This is   *)
(* so although an answer that overtakes mark_published finds the resend     *)
(* armed after it, and although another relay may be sending a copy when    *)
(* the answer is recorded (mark_published, acknowledge, record_resend and   *)
(* the selection of resend_unacknowledged).                                 *)
AnswerIsFinal ==
  [][\A i \in Removals : row[i].ack # "none" =>
       /\ row'[i].ack = row[i].ack /\ row'[i].resends = row[i].resends
       /\ row[i].published => \A r \in Relays : Holds(r, i)' => Holds(r, i)]_vars

(* A row that commits after another and is younger overtakes it on the way  *)
(* to the stream only when a refusal of the earlier one was recorded, even  *)
(* when passes of two relays interleave (the order of run_once, and its     *)
(* break at the first refusal).                                             *)
OrderUnlessRefused ==
  \A i, j \in Ids :
    /\ Queued(i) /\ Queued(j)
    /\ Rank[i] < Rank[j] /\ row[i].commit < row[j].commit
    /\ Logged(j) /\ ~Logged(i)
    => row[i].attempts >= 1

(* No row waits for ever: refusals, crashes and backed-off head rows only   *)
(* delay it.                                                                *)
EveryRowLeaves ==
  \A i \in Ids : Queued(i) ~> row[i].published \/ row[i].undeliverable

(* A removal is sent until Knowledge has answered it, whatever the stream   *)
(* drops and however often a pass fails.                                    *)
RemovalIsAcknowledged ==
  \A i \in Removals \ Oversized : Queued(i) ~> row[i].ack # "none"

(* A relay whose rows all leave is ready again at the end, whatever it      *)
(* reported while they were stuck (refresh_health after every pass).        *)
HealthRecovers ==
  \A r \in Relays : <>[](~Stuck) => <>[](healthy[r])
=============================================================================
