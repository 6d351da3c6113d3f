------------------------- MODULE OutboxRelayProofs -------------------------
(***************************************************************************)
(* The safety properties of the outbox relay for any rows, relays, batch    *)
(* sizes, backoff and resend policies, by the inductive invariant RelayInv. *)
(***************************************************************************)
EXTENDS OutboxRelay, SequenceTheorems, FiniteSetTheorems, TLAPS

(* What holds of one row x with id i: a resend is scheduled just for a      *)
(* published removal, a row is kept back only after a recorded failure, and *)
(* nothing has happened to a row that is not queued.                        *)
RowFine(i, x) ==
  /\ x.resendWait # Unarmed <=> x.published /\ i \in Removals
  /\ ~x.published /\ (x.wait # 0 \/ x.undeliverable) => x.attempts >= 1
  /\ ~x.queued => ~x.published /\ x.ack = "none"

(* A row that commits before another and is older.                          *)
Before(i, j) ==
  Queued(i) /\ Queued(j) /\ Rank[i] < Rank[j] /\ row[i].commit < row[j].commit

(* Row i no longer holds back the younger ones: the stream has it, or a     *)
(* failure of it was recorded.                                              *)
Excused(i) == Logged(i) \/ row[i].attempts >= 1

(* The call of this pass for row i failed and is not recorded yet.          *)
FailedAt(me, i) == me.sent \in {"refused", "tooLarge"} /\ me.at = i

(* A pass works on queued rows, resends only published removals, has been   *)
(* told ok only of stored rows, and keeps every row it selected together    *)
(* with the older rows that hold it back.                                   *)
PassFine(me) ==
  /\ me.phase = "idle" => me.queue = {} /\ me.sent = "none"
  /\ \A i \in me.queue :
       Queued(i) /\ (me.phase = "resend" => row[i].published /\ i \in Removals)
  /\ me.sent # "none" =>
       /\ me.at \in Ids /\ Queued(me.at)
       /\ me.phase = "resend" => row[me.at].published /\ me.at \in Removals
  /\ me.sent = "ok" => Logged(me.at)
  /\ me.phase = "fresh" =>
       \A j \in me.queue, i \in Ids :
         Before(i, j) => i \in me.queue \/ Excused(i) \/ FailedAt(me, i)

(* The rows, the stream and Knowledge's answers agree.                      *)
StoresFine ==
  /\ \A i \in Ids : /\ RowFine(i, row[i])
                    /\ Logged(i) => Queued(i)
                    /\ row[i].published => Logged(i)
                    /\ row[i].ack # "none" => i \in Removals /\ row[i].ack = verdict[i]
                    /\ Queued(i) => row[i].commit < Cardinality({j \in Ids : Queued(j)})
  /\ \A i \in answers : verdict[i] # "none"

RelayInv ==
  TypeOK /\ StoresFine /\ (\A r \in Relays : PassFine(relay[r])) /\ OrderUnlessRefused
-----------------------------------------------------------------------------
(* Arithmetic of the delays and counters.                                   *)

LEMMA PowerOfTwo ==
  ASSUME NEW n \in Nat
  PROVE  2 ^ n \in Nat
<1>1. IsFiniteSet(1..n) /\ Cardinality(1..n) = n
  BY FS_Interval
<1>2. IsFiniteSet(SUBSET (1..n)) /\ Cardinality(SUBSET (1..n)) = 2 ^ n
  BY <1>1, FS_SUBSET, Zenon
<1> QED
  BY <1>2, FS_CardinalityType

(* The bounds of a row's fields and of the crashes.                         *)
LEMMA BoundTypes ==
  CountCap \in Nat /\ UnhealthyAge \in Nat /\ MaxCrashes \in Nat /\ Removals \subseteq Ids
  BY RelayAssumption

(* The backoff of record_failure and the delay of record_resend are times.  *)
LEMMA DelayTypes ==
  ASSUME NEW n \in Nat
  PROVE  Backoff(n) \in Nat /\ ResendDelay(n) \in Nat
<1>1. Least(n + 1, 5) \in Nat /\ Least(n, 30) \in Nat
  BY DEF Least
<1>2. 2 ^ Least(n + 1, 5) \in Nat /\ 2 ^ Least(n, 30) \in Nat
  BY <1>1, PowerOfTwo
<1>3. ASSUME NEW p \in Nat, NEW q \in Nat
      PROVE  /\ Least(BackoffCap, BackoffBase * p) \in Nat
             /\ Least(ResendAfter * q, ResendCap) \in Nat
  <2>1. BackoffBase * p \in Nat /\ ResendAfter * q \in Nat
    BY RelayAssumption
  <2>2. BackoffCap \in Nat /\ ResendCap \in Nat
    BY RelayAssumption
  <2> QED
    BY <2>1, <2>2 DEF Least
<1> QED
  BY <1>2, <1>3 DEF Backoff, ResendDelay

(* A counter grows, at least to one, and stays within its bound.            *)
LEMMA CountedGrows ==
  ASSUME NEW n \in 0..CountCap
  PROVE  Counted(n) \in 0..CountCap /\ Counted(n) >= 1 /\ Counted(n) >= n
<1>1. CountCap \in Nat /\ CountCap >= 1
  BY RelayAssumption
<1> QED
  BY <1>1 DEF Counted, Least

-----------------------------------------------------------------------------
(* The transitions of one row.                                              *)

(* From x to y a row keeps its place, a publication and what RowFine says   *)
(* are not undone, and failures add up until the row is published.          *)
Progress(i, x, y) ==
  /\ y \in Rows
  /\ y.queued = x.queued /\ y.commit = x.commit
  /\ x.published => y.published
  /\ RowFine(i, y)
  /\ y.published \/ y.attempts >= x.attempts

LEMMA NoProgress ==
  ASSUME TypeOK, NEW i \in Ids, RowFine(i, row[i])
  PROVE  row = [row EXCEPT ![i] = row[i]] /\ Progress(i, row[i], row[i])
  BY DEF TypeOK, Progress, Rows

(* mark_published arms the resend of a removal.                             *)
LEMMA MarkPublishedMoves ==
  ASSUME TypeOK, NEW i \in Ids, RowFine(i, row[i]), row[i].queued
  PROVE  \E y \in Rows : /\ MarkPublished(i) = [row EXCEPT ![i] = y]
                         /\ Progress(i, row[i], y) /\ y.ack = row[i].ack
<1>1. CASE row[i].published
  BY <1>1, NoProgress DEF MarkPublished, TypeOK
<1>2. CASE ~row[i].published
  <2> DEFINE arm == IF i \in Removals THEN ResendAfter ELSE Unarmed
             y == [row[i] EXCEPT !.published = TRUE, !.resendWait = arm]
  <2>1. row[i] \in Rows
    BY DEF TypeOK
  <2>2. arm \in Nat \cup {Unarmed} /\ (arm # Unarmed <=> i \in Removals)
    BY RelayAssumption DEF Unarmed
  <2>3. MarkPublished(i) = [row EXCEPT ![i] = y]
    BY <1>2, Zenon DEF MarkPublished, TypeOK
  <2> HIDE DEF arm
  <2>4. /\ y \in Rows /\ y.queued = row[i].queued /\ y.commit = row[i].commit
        /\ y.ack = row[i].ack /\ y.published = TRUE /\ y.resendWait = arm
    BY <2>1, <2>2, Zenon DEF Rows
  <2> HIDE DEF y
  <2>5. Progress(i, row[i], y)
    BY <2>2, <2>4 DEF Progress, RowFine
  <2> QED
    BY <2>3, <2>4, <2>5, Zenon
<1> QED
  BY <1>1, <1>2

(* record_failure and record_undeliverable count the failure of a row that  *)
(* is not published, or find that another pass has published it.            *)
LEMMA RecordFailureMoves ==
  ASSUME TypeOK, NEW i \in Ids, RowFine(i, row[i]), NEW republish \in BOOLEAN
  PROVE  \E y \in Rows : /\ RecordFailure(i, republish) = [row EXCEPT ![i] = y]
                         /\ Progress(i, row[i], y) /\ y.ack = row[i].ack
                         /\ y.published = row[i].published
                         /\ ~republish => y.published \/ y.attempts >= 1
<1>1. row[i] \in Rows /\ row[i].published \in BOOLEAN /\ row[i].attempts \in 0..CountCap
  BY DEF TypeOK, Rows
<1>2. CASE row[i].published # republish
  BY <1>1, <1>2, NoProgress DEF RecordFailure, TypeOK
<1>3. CASE row[i].published = republish
  <2> DEFINE count == Counted(row[i].attempts)
             delay == Backoff(row[i].attempts)
             y == [row[i] EXCEPT !.attempts = count, !.wait = delay]
  <2>1. count \in 0..CountCap /\ count >= 1 /\ count >= row[i].attempts
    BY <1>1, CountedGrows
  <2>2. delay \in Nat
    <3>1. row[i].attempts \in Nat
      BY <1>1, RelayAssumption
    <3> QED
      BY <3>1, DelayTypes
  <2>3. RecordFailure(i, republish) = [row EXCEPT ![i] = y]
    BY <1>3, Zenon DEF RecordFailure, TypeOK
  <2> HIDE DEF count, delay
  <2>4. /\ y \in Rows /\ y.queued = row[i].queued /\ y.commit = row[i].commit
        /\ y.ack = row[i].ack /\ y.published = row[i].published
        /\ y.resendWait = row[i].resendWait /\ y.attempts = count
    BY <1>1, <2>1, <2>2, Zenon DEF Rows
  <2> HIDE DEF y
  <2>5. Progress(i, row[i], y)
    BY <2>1, <2>4 DEF Progress, RowFine
  <2> QED
    BY <2>1, <2>3, <2>4, <2>5, Zenon
<1> QED
  BY <1>2, <1>3

LEMMA RecordUndeliverableMoves ==
  ASSUME TypeOK, NEW i \in Ids, RowFine(i, row[i])
  PROVE  \E y \in Rows : /\ RecordUndeliverable(i) = [row EXCEPT ![i] = y]
                         /\ Progress(i, row[i], y) /\ y.ack = row[i].ack
                         /\ y.published = row[i].published
                         /\ y.published \/ y.attempts >= 1
<1>1. row[i] \in Rows /\ row[i].attempts \in 0..CountCap
  BY DEF TypeOK, Rows
<1>2. CASE row[i].published
  BY <1>1, <1>2, NoProgress, Zenon DEF RecordUndeliverable, TypeOK
<1>3. CASE ~row[i].published
  <2> DEFINE count == Counted(row[i].attempts)
             y == [row[i] EXCEPT !.attempts = count, !.undeliverable = TRUE]
  <2>1. count \in 0..CountCap /\ count >= 1 /\ count >= row[i].attempts
    BY <1>1, CountedGrows
  <2>2. RecordUndeliverable(i) = [row EXCEPT ![i] = y]
    BY <1>3, Zenon DEF RecordUndeliverable, TypeOK
  <2> HIDE DEF count
  <2>3. /\ y \in Rows /\ y.queued = row[i].queued /\ y.commit = row[i].commit
        /\ y.ack = row[i].ack /\ y.published = row[i].published
        /\ y.resendWait = row[i].resendWait /\ y.attempts = count
    BY <1>1, <2>1, Zenon DEF Rows
  <2> HIDE DEF y
  <2>4. Progress(i, row[i], y)
    BY <2>1, <2>3 DEF Progress, RowFine
  <2> QED
    BY <2>1, <2>2, <2>3, <2>4, Zenon
<1> QED
  BY <1>2, <1>3

(* record_resend schedules the next resend of a published removal.          *)
LEMMA RecordResendMoves ==
  ASSUME TypeOK, NEW i \in Removals, RowFine(i, row[i]), row[i].published
  PROVE  \E y \in Rows : /\ RecordResend(i) = [row EXCEPT ![i] = y]
                         /\ Progress(i, row[i], y) /\ y.ack = row[i].ack
                         /\ y.published
<1>1. i \in Ids
  BY RelayAssumption
<1>2. row[i] \in Rows /\ row[i].resends \in 0..CountCap
  BY <1>1 DEF TypeOK, Rows
<1>3. CASE row[i].ack # "none"
  BY <1>1, <1>2, <1>3, NoProgress DEF RecordResend, TypeOK
<1>4. CASE row[i].ack = "none"
  <2> DEFINE count == Counted(row[i].resends)
             delay == ResendDelay(row[i].resends)
             y == [row[i] EXCEPT !.resends = count, !.attempts = 0, !.resendWait = delay]
  <2>1. count \in 0..CountCap /\ 0 \in 0..CountCap
    BY <1>2, CountedGrows, RelayAssumption
  <2>2. delay \in Nat
    <3>1. row[i].resends \in Nat
      BY <1>2, RelayAssumption
    <3> QED
      BY <3>1, DelayTypes
  <2>3. RecordResend(i) = [row EXCEPT ![i] = y]
    BY <1>1, <1>4, Zenon DEF RecordResend, TypeOK
  <2> HIDE DEF count, delay
  <2>4. /\ y \in Rows /\ y.queued = row[i].queued /\ y.commit = row[i].commit
        /\ y.ack = row[i].ack /\ y.published = row[i].published
        /\ y.resendWait = delay
    BY <1>2, <2>1, <2>2, Zenon DEF Rows
  <2> HIDE DEF y
  <2>5. delay # Unarmed /\ (~row[i].queued => ~row[i].published)
    BY <2>2 DEF Unarmed, RowFine
  <2>6. Progress(i, row[i], y)
    BY <2>4, <2>5 DEF Progress, RowFine
  <2> QED
    BY <2>3, <2>4, <2>6, Zenon
<1> QED
  BY <1>3, <1>4
-----------------------------------------------------------------------------
(* What the steps leave true of the passes and of the order.                *)

Passes == [phase : {"idle", "fresh", "resend"}, queue : SUBSET Ids, at : Ids \cup {NoId},
           sent : {"none", "ok", "tooLarge", "refused"}, failed : BOOLEAN]

(* A step keeps queued rows queued, published ones published and excused    *)
(* ones excused, and puts no row in front of a queued one.                  *)
Onward ==
  /\ \A i \in Ids : /\ Queued(i) => Queued(i)'
                    /\ row[i].published => row'[i].published
                    /\ Logged(i) => Logged(i)'
                    /\ Queued(i) /\ Excused(i) => Excused(i)'
  /\ \A i, j \in Ids : Queued(j) /\ Before(i, j)' => Before(i, j)

(* A pass that the step does not touch stays fine.                          *)
LEMMA PassStands ==
  ASSUME NEW me \in Passes, PassFine(me), Onward
  PROVE  PassFine(me)'
<1>1. me.queue \subseteq Ids
  BY DEF Passes
<1>2. \A i \in me.queue :
        Queued(i)' /\ (me.phase = "resend" => row'[i].published /\ i \in Removals)
  BY <1>1 DEF PassFine, Onward
<1>3. me.sent # "none" =>
        /\ me.at \in Ids /\ Queued(me.at)'
        /\ me.phase = "resend" => row'[me.at].published /\ me.at \in Removals
  BY DEF PassFine, Onward
<1>4. me.sent = "ok" => Logged(me.at)'
  BY DEF PassFine, Onward
<1>5. ASSUME me.phase = "fresh", NEW j \in me.queue, NEW i \in Ids, Before(i, j)'
      PROVE  i \in me.queue \/ Excused(i)' \/ FailedAt(me, i)
  <2>1. j \in Ids /\ Queued(j)
    BY <1>1 DEF PassFine
  <2>2. Before(i, j)
    BY <1>5, <2>1 DEF Onward
  <2>3. Queued(i) /\ (i \in me.queue \/ Excused(i) \/ FailedAt(me, i))
    BY <1>5, <2>2 DEF PassFine, Before
  <2> QED
    BY <2>3 DEF Onward
<1>6. me.phase = "idle" => me.queue = {} /\ me.sent = "none"
  BY DEF PassFine
<1> QED
  BY <1>2, <1>3, <1>4, <1>5, <1>6 DEF PassFine, FailedAt

LEMMA RelayTypes ==
  ASSUME TypeOK
  PROVE  relay \in [Relays -> Passes]
  BY DEF TypeOK, Passes

(* When no pass moves, every pass stays fine.                               *)
LEMMA PassesStand ==
  ASSUME RelayInv, Onward, UNCHANGED relay
  PROVE  \A r \in Relays : PassFine(relay[r])'
<1> SUFFICES ASSUME NEW r \in Relays PROVE PassFine(relay[r])'
  OBVIOUS
<1>1. PICK me \in Passes : me = relay[r]
  BY RelayTypes DEF RelayInv
<1>2. PassFine(me)
  BY <1>1 DEF RelayInv
<1>3. PassFine(me)'
  BY <1>2, PassStands
<1> QED
  BY <1>1, <1>3

(* When one pass moves, the others stay fine.                               *)
LEMMA OnePassMoves ==
  ASSUME RelayInv, Onward, NEW r \in Relays, NEW me \in Passes,
         relay' = [relay EXCEPT ![r] = me], PassFine(me)'
  PROVE  (relay \in [Relays -> Passes])' /\ \A q \in Relays : PassFine(relay[q])'
<1>1. relay \in [Relays -> Passes]
  BY RelayTypes DEF RelayInv
<1>2. relay' \in [Relays -> Passes]
  BY <1>1
<1>3. ASSUME NEW q \in Relays
      PROVE  PassFine(relay[q])'
  <2>1. CASE q = r
    <3>1. relay'[q] = me
      BY <1>1, <2>1
    <3> QED
      BY <3>1
  <2>2. CASE q # r
    <3>1. PICK you \in Passes : you = relay[q]
      BY <1>1
    <3>2. PassFine(you)' /\ relay'[q] = you
      BY <1>1, <2>2, <3>1, PassStands DEF RelayInv
    <3> QED
      BY <3>2
  <2> QED
    BY <2>1, <2>2
<1> QED
  BY <1>2, <1>3

(* The order stands when the stream stores nothing new.                     *)
LEMMA OrderStands ==
  ASSUME RelayInv, Onward, \A i \in Ids : Logged(i)' => Logged(i)
  PROVE  OrderUnlessRefused'
<1> SUFFICES ASSUME NEW i \in Ids, NEW j \in Ids, Before(i, j)', Logged(j)'
             PROVE  Excused(i)'
  BY DEF OrderUnlessRefused, Before, Excused
<1>1. Logged(j) /\ Queued(j)
  BY Zenon DEF RelayInv, StoresFine
<1>2. Before(i, j)
  BY <1>1 DEF Onward
<1>3. Queued(i) /\ Excused(i)
  BY <1>1, <1>2 DEF RelayInv, OrderUnlessRefused, Before, Excused
<1> QED
  BY <1>3 DEF Onward

(* A step that writes no row keeps them all, and their order.               *)
LEMMA RowsStand ==
  ASSUME RelayInv, UNCHANGED row, \A i \in Ids : Logged(i) => Logged(i)'
  PROVE  Onward
  BY DEF Onward, Queued, Before, Excused

(* A step that moves rows onward, each with an answer of Knowledge's.       *)
LEMMA RowsMove ==
  ASSUME RelayInv, UNCHANGED <<log, verdict>>, answers' \subseteq answers,
         row' \in [Ids -> Rows],
         \A j \in Ids : /\ Progress(j, row[j], row'[j])
                        /\ row'[j].published => Logged(j)
                        /\ row'[j].ack # "none" => j \in Removals /\ row'[j].ack = verdict[j]
  PROVE  Onward /\ StoresFine'
<1>1. row \in [Ids -> Rows]
  BY DEF RelayInv, TypeOK
<1>2. \A j \in Ids : Logged(j)' <=> Logged(j)
  BY DEF Logged
<1>3. \A j \in Ids : /\ row'[j].queued = row[j].queued
                     /\ row'[j].commit = row[j].commit
                     /\ row[j].published => row'[j].published
                     /\ RowFine(j, row'[j])
  BY DEF Progress
<1>4. ASSUME NEW j \in Ids, Excused(j)
      PROVE  Excused(j)'
  <2>1. row[j].attempts \in 0..CountCap /\ row'[j].attempts \in 0..CountCap /\ CountCap \in Nat
    BY <1>1, RelayAssumption DEF Rows
  <2>2. Logged(j) \/ row'[j].attempts >= row[j].attempts
    BY DEF Progress
  <2> QED
    BY <1>2, <1>4, <2>1, <2>2 DEF Excused
<1>5. Onward
  <2>1. \A k, j \in Ids : Before(k, j)' => Before(k, j)
    BY <1>3 DEF Before, Queued
  <2> QED
    BY <1>2, <1>3, <1>4, <2>1 DEF Onward, Queued
<1>6. StoresFine'
  <2>1. {j \in Ids : Queued(j)'} = {j \in Ids : Queued(j)}
    BY <1>3 DEF Queued
  <2>2. ASSUME NEW j \in Ids
        PROVE  /\ Logged(j)' => Queued(j)'
               /\ row'[j].published => Logged(j)'
               /\ row'[j].ack # "none" => j \in Removals /\ row'[j].ack = verdict'[j]
               /\ Queued(j)' => row'[j].commit < Cardinality({k \in Ids : Queued(k)'})
    <3>1. /\ Logged(j) => Queued(j)
          /\ Queued(j) => row[j].commit < Cardinality({k \in Ids : Queued(k)})
      BY DEF RelayInv, StoresFine
    <3>2. Queued(j)' = Queued(j)
      BY <1>3 DEF Queued
    <3> QED
      BY <1>2, <1>3, <2>1, <3>1, <3>2, Zenon
  <2>3. \A j \in answers' : verdict'[j] # "none"
    BY DEF RelayInv, StoresFine
  <2> QED
    BY <1>3, <2>2, <2>3 DEF StoresFine
<1> QED
  BY <1>5, <1>6

(* A step that moves one row onward.                                        *)
LEMMA OneRowMoves ==
  ASSUME RelayInv, UNCHANGED <<log, verdict>>, answers' \subseteq answers,
         NEW i \in Ids, NEW y \in Rows, row' = [row EXCEPT ![i] = y],
         Progress(i, row[i], y), y.published => Logged(i),
         y.ack # "none" => i \in Removals /\ y.ack = verdict[i]
  PROVE  Onward /\ StoresFine' /\ (row \in [Ids -> Rows])'
<1>1. row \in [Ids -> Rows] /\ row' \in [Ids -> Rows]
  BY DEF RelayInv, TypeOK
<1>2. row'[i] = y /\ \A j \in Ids : j # i => row'[j] = row[j]
  BY <1>1
<1>3. ASSUME NEW j \in Ids
      PROVE  /\ Progress(j, row[j], row[j])
             /\ row[j].published => Logged(j)
             /\ row[j].ack # "none" => j \in Removals /\ row[j].ack = verdict[j]
  BY NoProgress, Zenon DEF RelayInv, StoresFine
<1>4. \A j \in Ids : /\ Progress(j, row[j], row'[j])
                     /\ row'[j].published => Logged(j)
                     /\ row'[j].ack # "none" => j \in Removals /\ row'[j].ack = verdict[j]
  BY <1>2, <1>3
<1> QED
  BY <1>1, <1>4, RowsMove
-----------------------------------------------------------------------------
(* Producers and time.                                                      *)

LEMMA QueuedFinite ==
  IsFiniteSet({j \in Ids : Queued(j)}) /\ Cardinality({j \in Ids : Queued(j)}) \in Nat
<1>1. IsFiniteSet(Ids) /\ {j \in Ids : Queued(j)} \subseteq Ids
  BY RelayAssumption
<1> QED
  BY <1>1, FS_Subset, FS_CardinalityType

(* A new row commits behind every queued one.                               *)
LEMMA EnqueuePreserves ==
  ASSUME RelayInv, NEW i \in Ids, Enqueue(i)
  PROVE  RelayInv'
<1> DEFINE Q == {j \in Ids : Queued(j)}
<1>1. PICK n \in Nat : n = Cardinality(Q)
  BY QueuedFinite
<1>2. /\ ~Queued(i) /\ row' = [row EXCEPT ![i] = Fresh(n)]
      /\ UNCHANGED <<relay, healthy, log, window, stream, answers, verdict, crashes>>
  BY <1>1 DEF Enqueue, broker, knowledge
<1>3. Fresh(n) \in Rows
  <2>1. 0 \in 0..CountCap /\ UnhealthyAge \in 0..UnhealthyAge
    BY RelayAssumption
  <2> QED
    BY <2>1 DEF Fresh, Rows
<1>4. /\ Fresh(n).queued /\ ~Fresh(n).published /\ Fresh(n).commit = n
      /\ Fresh(n).ack = "none" /\ RowFine(i, Fresh(n))
  BY DEF Fresh, RowFine
<1>5. row \in [Ids -> Rows] /\ row' \in [Ids -> Rows]
  BY <1>2, <1>3 DEF RelayInv, TypeOK
<1>6. row'[i] = Fresh(n) /\ \A j \in Ids : j # i => row'[j] = row[j]
  BY <1>2, <1>5
<1>7. \A j \in Ids : /\ Queued(j)' <=> Queued(j) \/ j = i
                     /\ Logged(j)' <=> Logged(j)
                     /\ Queued(j) => j # i /\ row'[j] = row[j] /\ row[j].commit < n
  <2>1. \A j \in Ids : Queued(j) => row[j].commit < n
    BY <1>1 DEF RelayInv, StoresFine
  <2> QED
    BY <1>2, <1>4, <1>6, <2>1 DEF Queued, Logged
<1>8. Onward
  <2>1. ASSUME NEW k \in Ids, NEW j \in Ids, Queued(j), Before(k, j)'
        PROVE  Before(k, j)
    <3>1. row'[k].commit < row'[j].commit /\ row'[j].commit = row[j].commit /\ row[j].commit < n
      BY <1>7, <2>1 DEF Before
    <3>2. row[j].commit \in Nat
      BY <1>5 DEF Rows
    <3>3. k # i
      BY <1>4, <1>6, <3>1, <3>2
    <3> QED
      BY <1>7, <2>1, <3>3 DEF Before
  <2>2. \A j \in Ids : row[j].published => row'[j].published
    BY <1>7, Zenon DEF RelayInv, StoresFine, RowFine, Queued
  <2> QED
    BY <1>7, <2>1, <2>2 DEF Onward, Excused
<1>9. StoresFine'
  <2>1. Cardinality({j \in Ids : Queued(j)'}) = n + 1
    <3>1. {j \in Ids : Queued(j)'} = Q \cup {i} /\ i \notin Q
      BY <1>2, <1>7
    <3> QED
      BY <1>1, <3>1, QueuedFinite, FS_AddElement, Zenon
  <2>2. ASSUME NEW j \in Ids
        PROVE  /\ RowFine(j, row'[j])
               /\ Logged(j)' => Queued(j)'
               /\ row'[j].published => Logged(j)'
               /\ row'[j].ack # "none" => j \in Removals /\ row'[j].ack = verdict'[j]
               /\ Queued(j)' => row'[j].commit < n + 1
    <3>1. CASE j = i
      BY <1>4, <1>6, <1>7, <3>1
    <3>2. CASE j # i
      <4>1. row'[j] = row[j] /\ verdict' = verdict /\ row[j].commit \in Nat
        BY <1>2, <1>5, <1>6, <3>2 DEF Rows
      <4>2. /\ RowFine(j, row[j])
            /\ Logged(j) => Queued(j)
            /\ row[j].published => Logged(j)
            /\ row[j].ack # "none" => j \in Removals /\ row[j].ack = verdict[j]
        BY Zenon DEF RelayInv, StoresFine
      <4>3. Queued(j)' => row[j].commit < n + 1
        BY <1>7, <3>2, <4>1
      <4> QED
        BY <1>7, <4>1, <4>2, <4>3
    <3> QED
      BY <3>1, <3>2
  <2>3. \A j \in answers' : verdict'[j] # "none"
    BY <1>2 DEF RelayInv, StoresFine
  <2> QED
    BY <2>1, <2>2, <2>3, Zenon DEF StoresFine
<1>10. TypeOK'
  BY <1>2, <1>5 DEF RelayInv, TypeOK
<1>11. \A r \in Relays : PassFine(relay[r])'
  BY <1>2, <1>8, PassesStand
<1>12. OrderUnlessRefused'
  BY <1>7, <1>8, OrderStands
<1> QED
  BY <1>9, <1>10, <1>11, <1>12 DEF RelayInv

(* Time brings a scheduled moment nearer and schedules nothing.             *)
LEMMA SoonerTypes ==
  /\ \A n \in Nat : Sooner(n) \in Nat /\ (n = 0 => Sooner(n) = 0)
  /\ \A n \in 0..UnhealthyAge : Sooner(n) \in 0..UnhealthyAge
  /\ \A n \in Nat \cup {Unarmed} :
       Sooner(n) \in Nat \cup {Unarmed} /\ (Sooner(n) # Unarmed <=> n # Unarmed)
<1>1. UnhealthyAge \in Nat
  BY RelayAssumption
<1> QED
  BY <1>1 DEF Sooner, Unarmed

LEMMA AgedMoves ==
  ASSUME NEW i \in Ids, NEW x \in Rows, RowFine(i, x)
  PROVE  /\ Progress(i, x, Aged(x)) /\ Aged(x) \in Rows
         /\ Aged(x).published = x.published /\ Aged(x).ack = x.ack
<1> DEFINE w == Sooner(x.wait)
           a == Sooner(x.age)
           s == Sooner(x.resendWait)
           y == [x EXCEPT !.wait = w, !.age = a, !.resendWait = s]
<1>1. x.wait \in Nat /\ x.age \in 0..UnhealthyAge /\ x.resendWait \in Nat \cup {Unarmed}
  BY DEF Rows
<1>2. /\ w \in Nat /\ (x.wait = 0 => w = 0) /\ a \in 0..UnhealthyAge
      /\ s \in Nat \cup {Unarmed} /\ (s # Unarmed <=> x.resendWait # Unarmed)
  BY <1>1, SoonerTypes, Zenon
<1>3. Aged(x) = y
  BY DEF Aged, Rows
<1> HIDE DEF w, a, s
<1>4. /\ y \in Rows /\ y.queued = x.queued /\ y.commit = x.commit /\ y.ack = x.ack
      /\ y.published = x.published /\ y.undeliverable = x.undeliverable
      /\ y.attempts = x.attempts /\ y.wait = w /\ y.resendWait = s
  BY <1>2, Zenon DEF Rows
<1> HIDE DEF y
<1>5. RowFine(i, y)
  BY <1>2, <1>4 DEF RowFine
<1>6. x.attempts >= x.attempts
  <2>1. x.attempts \in 0..CountCap /\ CountCap \in Nat
    BY RelayAssumption DEF Rows
  <2> QED
    BY <2>1
<1> QED
  BY <1>3, <1>4, <1>5, <1>6 DEF Progress

LEMMA TickPreserves ==
  ASSUME RelayInv, Tick
  PROVE  RelayInv'
<1>1. /\ row' = [i \in Ids |-> IF Queued(i) THEN Aged(row[i]) ELSE row[i]]
      /\ UNCHANGED <<relay, healthy, log, window, stream, answers, verdict, crashes>>
  BY DEF Tick, broker, knowledge
<1>2. ASSUME NEW j \in Ids
      PROVE  /\ Progress(j, row[j], row'[j]) /\ row'[j] \in Rows
             /\ row'[j].published => Logged(j)
             /\ row'[j].ack # "none" => j \in Removals /\ row'[j].ack = verdict[j]
  <2>1. row[j] \in Rows /\ RowFine(j, row[j])
    BY Zenon DEF RelayInv, TypeOK, StoresFine
  <2>2. /\ row[j].published => Logged(j)
        /\ row[j].ack # "none" => j \in Removals /\ row[j].ack = verdict[j]
    BY Zenon DEF RelayInv, StoresFine
  <2>3. CASE Queued(j)
    <3>1. row'[j] = Aged(row[j])
      BY <1>1, <2>3
    <3> QED
      BY <2>1, <2>2, <3>1, AgedMoves
  <2>4. CASE ~Queued(j)
    <3>1. row'[j] = row[j]
      BY <1>1, <2>4
    <3> QED
      BY <2>1, <2>2, <3>1, NoProgress DEF RelayInv
  <2> QED
    BY <2>3, <2>4
<1>3. row' \in [Ids -> Rows]
  BY <1>1, <1>2
<1>4. Onward /\ StoresFine'
  BY <1>1, <1>2, <1>3, RowsMove
<1>5. TypeOK'
  BY <1>1, <1>3 DEF RelayInv, TypeOK
<1>6. (\A r \in Relays : PassFine(relay[r])') /\ OrderUnlessRefused'
  <2>1. \A j \in Ids : Logged(j)' => Logged(j)
    BY <1>1 DEF Logged
  <2> QED
    BY <1>1, <1>4, <2>1, PassesStand, OrderStands
<1> QED
  BY <1>4, <1>5, <1>6 DEF RelayInv
-----------------------------------------------------------------------------
(* The passes of a relay.                                                   *)

(* The oldest rows of a finite set are closed under being older.            *)
LEMMA OldestClosed ==
  ASSUME NEW S \in SUBSET Ids, NEW j \in Oldest(S), NEW i \in S, Rank[i] < Rank[j]
  PROVE  i \in Oldest(S)
<1> DEFINE A == {q \in S : Rank[q] < Rank[i]}
           B == {q \in S : Rank[q] < Rank[j]}
<1>1. j \in S /\ \A q \in S : Rank[q] \in Nat
  BY RelayAssumption DEF Oldest
<1>2. A \subseteq B /\ B \subseteq S
  BY <1>1
<1>3. Cardinality(B) < BatchSize /\ BatchSize \in Nat
  BY RelayAssumption DEF Oldest
<1>4. Cardinality(A) < BatchSize => i \in Oldest(S)
  BY DEF Oldest
<1> HIDE DEF A, B
<1>5. IsFiniteSet(B)
  BY <1>2, RelayAssumption, FS_Subset
<1>6. Cardinality(A) <= Cardinality(B) /\ IsFiniteSet(A)
  BY <1>2, <1>5, FS_Subset
<1>7. Cardinality(A) \in Nat /\ Cardinality(B) \in Nat
  BY <1>5, <1>6, FS_CardinalityType
<1> QED
  BY <1>3, <1>4, <1>6, <1>7

(* A pass that ends, crashes or turns to the resends.                       *)
LEMMA QuietPassPreserves ==
  ASSUME RelayInv, NEW r \in Relays, NEW me \in Passes, relay' = [relay EXCEPT ![r] = me],
         PassFine(me), healthy' \in [Relays -> BOOLEAN], crashes' \in 0..MaxCrashes,
         UNCHANGED <<row, log, window, stream, answers, verdict>>
  PROVE  RelayInv'
<1>1. Onward
  BY RowsStand DEF Logged
<1>2. PassFine(me)'
  BY <1>1, PassStands
<1>3. (relay \in [Relays -> Passes])' /\ \A q \in Relays : PassFine(relay[q])'
  BY <1>1, <1>2, OnePassMoves, Zenon
<1>4. TypeOK'
  BY <1>3 DEF RelayInv, TypeOK, Passes
<1>5. StoresFine' /\ OrderUnlessRefused'
  BY DEF RelayInv, StoresFine, OrderUnlessRefused, Queued, Logged
<1> QED
  BY <1>3, <1>4, <1>5 DEF RelayInv

(* A selection takes with a row the older due ones; the others were stored  *)
(* or have failed.                                                          *)
LEMMA SelectFreshPreserves ==
  ASSUME RelayInv, NEW r \in Relays, SelectFresh(r)
  PROVE  RelayInv'
<1> DEFINE batch == Oldest(DueFresh)
           me == [Idle EXCEPT !.phase = "fresh", !.queue = batch]
<1>1. /\ relay[r] = Idle /\ relay' = [relay EXCEPT ![r] = me]
      /\ UNCHANGED <<row, healthy, log, window, stream, answers, verdict, crashes>>
  BY Zenon DEF SelectFresh, broker, knowledge
<1>2. batch \subseteq DueFresh /\ DueFresh \subseteq Ids
  BY DEF Oldest, DueFresh
<1>3. /\ me \in Passes /\ me.phase = "fresh" /\ me.queue = batch /\ me.sent = "none"
  BY <1>2, Zenon DEF Idle, Passes
<1> HIDE DEF me, batch
<1>4. ASSUME NEW j \in batch, NEW i \in Ids, Before(i, j)
      PROVE  i \in batch \/ Excused(i)
  <2>1. CASE i \in DueFresh
    BY <1>2, <1>4, <2>1, OldestClosed DEF batch, Before
  <2>2. CASE i \notin DueFresh
    <3>1. row[i].published \/ row[i].undeliverable \/ row[i].wait # 0
      BY <1>4, <2>2 DEF DueFresh, Unpublished, Before
    <3> QED
      BY <3>1, Zenon DEF RelayInv, StoresFine, RowFine, Excused
  <2> QED
    BY <2>1, <2>2
<1>5. \A i \in batch : Queued(i)
  BY <1>2 DEF DueFresh, Unpublished
<1>6. PassFine(me)
  BY <1>3, <1>4, <1>5 DEF PassFine
<1> QED
  BY <1>1, <1>3, <1>6, QuietPassPreserves, Zenon DEF RelayInv, TypeOK

LEMMA IdleIsFine == Idle \in Passes /\ PassFine(Idle)
  BY DEF Idle, Passes, PassFine

LEMMA EndPassPreserves ==
  ASSUME RelayInv, NEW r \in Relays, EndPass(r) \/ Crash(r)
  PROVE  RelayInv'
<1>1. /\ relay' = [relay EXCEPT ![r] = Idle]
      /\ UNCHANGED <<row, log, window, stream, answers, verdict>>
  BY DEF EndPass, Crash, broker, knowledge
<1>2. healthy' \in [Relays -> BOOLEAN]
  <2>1. healthy \in [Relays -> BOOLEAN]
    BY DEF RelayInv, TypeOK
  <2>2. CASE EndPass(r)
    <3>1. healthy' = [healthy EXCEPT ![r] = ~Stuck] /\ (~Stuck) \in BOOLEAN
      BY <2>2 DEF EndPass
    <3> QED
      BY <2>1, <3>1
  <2>3. CASE Crash(r)
    BY <2>1, <2>3 DEF Crash
  <2> QED
    BY <2>2, <2>3
<1>3. crashes' \in 0..MaxCrashes
  BY BoundTypes DEF EndPass, Crash, RelayInv, TypeOK
<1> QED
  BY <1>1, <1>2, <1>3, IdleIsFine, QuietPassPreserves, Zenon

LEMMA SelectResendPreserves ==
  ASSUME RelayInv, NEW r \in Relays, SelectResend(r)
  PROVE  RelayInv'
<1>1. PICK batch \in SUBSET DueResend :
        relay' = [relay EXCEPT ![r].phase = "resend", ![r].queue = batch]
  BY Zenon DEF SelectResend
<1> DEFINE me == [relay[r] EXCEPT !.phase = "resend", !.queue = batch]
<1>2. relay[r] \in Passes /\ relay[r].sent = "none"
  BY RelayTypes DEF RelayInv, SelectResend, LoopDone
<1>3. /\ relay' = [relay EXCEPT ![r] = me]
      /\ UNCHANGED <<row, healthy, log, window, stream, answers, verdict, crashes>>
  BY <1>1, Zenon DEF SelectResend, broker, knowledge, RelayInv, TypeOK
<1>4. batch \subseteq Ids /\ \A i \in batch : Queued(i) /\ row[i].published /\ i \in Removals
  BY RelayAssumption DEF DueResend
<1>5. me \in Passes /\ me.phase = "resend" /\ me.queue = batch /\ me.sent = "none"
  BY <1>2, <1>4, Zenon DEF Passes
<1> HIDE DEF me
<1>6. PassFine(me)
  BY <1>4, <1>5 DEF PassFine
<1>7. healthy' \in [Relays -> BOOLEAN] /\ crashes' \in 0..MaxCrashes
  BY <1>3 DEF RelayInv, TypeOK
<1> QED
  BY <1>3, <1>5, <1>6, <1>7, QuietPassPreserves, Zenon
(* What the pass writes once a call has returned, as a step of its row.     *)
LEMMA RecordMoves ==
  ASSUME RelayInv, NEW me \in Passes, PassFine(me), me.sent # "none"
  PROVE  \E y \in Rows :
           /\ Recorded(me.at, me.phase, me.sent) = [row EXCEPT ![me.at] = y]
           /\ Progress(me.at, row[me.at], y) /\ y.ack = row[me.at].ack
           /\ y.published => Logged(me.at)
           /\ me.phase = "fresh" /\ me.sent # "ok" => y.published \/ y.attempts >= 1
<1>1. PICK i \in Ids : i = me.at
  BY DEF PassFine
<1>2. TypeOK /\ RowFine(i, row[i]) /\ row[i].queued /\ (row[i].published => Logged(i))
  BY <1>1, Zenon DEF RelayInv, StoresFine, PassFine, Queued
<1>3. /\ me.phase \in {"fresh", "resend"} /\ me.sent \in {"ok", "tooLarge", "refused"}
      /\ me.sent = "ok" => Logged(i)
      /\ me.phase = "resend" => row[i].published /\ i \in Removals
  BY <1>1 DEF PassFine, Passes
<1>4. CASE me.sent = "ok" /\ me.phase = "fresh"
  <2>1. Recorded(me.at, me.phase, me.sent) = MarkPublished(i)
    BY <1>1, <1>4 DEF Recorded
  <2> QED
    BY <1>1, <1>2, <1>3, <1>4, <2>1, MarkPublishedMoves
<1>5. CASE me.sent = "ok" /\ me.phase = "resend"
  <2>1. Recorded(me.at, me.phase, me.sent) = RecordResend(i)
    BY <1>1, <1>5 DEF Recorded
  <2> QED
    BY <1>1, <1>2, <1>3, <1>5, <2>1, RecordResendMoves
<1>6. CASE me.sent = "tooLarge" /\ me.phase = "fresh"
  <2>1. Recorded(me.at, me.phase, me.sent) = RecordUndeliverable(i)
    BY <1>1, <1>6 DEF Recorded
  <2> QED
    BY <1>1, <1>2, <1>3, <1>6, <2>1, RecordUndeliverableMoves, Zenon
<1>7. CASE me.sent = "refused" /\ me.phase = "fresh"
  <2>1. Recorded(me.at, me.phase, me.sent) = RecordFailure(i, FALSE)
    BY <1>1, <1>7, Zenon DEF Recorded
  <2>2. PICK y \in Rows : /\ RecordFailure(i, FALSE) = [row EXCEPT ![i] = y]
                          /\ Progress(i, row[i], y) /\ y.ack = row[i].ack
                          /\ y.published = row[i].published
                          /\ y.published \/ y.attempts >= 1
    BY <1>2, RecordFailureMoves, Zenon
  <2> QED
    BY <1>1, <1>2, <2>1, <2>2, Zenon
<1>8. CASE me.sent # "ok" /\ me.phase = "resend"
  <2>1. Recorded(me.at, me.phase, me.sent) = RecordFailure(i, TRUE)
    BY <1>1, <1>8, Zenon DEF Recorded
  <2> QED
    BY <1>1, <1>2, <1>3, <1>8, <2>1, RecordFailureMoves, Zenon
<1> QED
  BY <1>3, <1>4, <1>5, <1>6, <1>7, <1>8, Zenon

(* A recorded failure excuses its row, and a refusal ends the loop.         *)
LEMMA RecordPreserves ==
  ASSUME RelayInv, NEW r \in Relays, Record(r)
  PROVE  RelayInv'
<1>1. PICK me \in Passes : me = relay[r]
  BY RelayTypes DEF RelayInv
<1> DEFINE rest == IF Breaks(me.phase, me.sent) THEN {} ELSE me.queue
           stop == Breaks(me.phase, me.sent)
           you == [me EXCEPT !.at = NoId, !.sent = "none", !.queue = rest, !.failed = stop]
<1>2. /\ PassFine(me) /\ me.sent # "none"
      /\ row' = Recorded(me.at, me.phase, me.sent)
      /\ UNCHANGED <<healthy, log, window, stream, answers, verdict, crashes>>
  BY <1>1 DEF Record, RelayInv, broker, knowledge
<1>3. relay' = [relay EXCEPT ![r] = you]
  BY <1>1 DEF Record, RelayInv, TypeOK
<1>4. /\ you \in Passes /\ you.phase = me.phase /\ you.queue = rest /\ you.sent = "none"
  <2>1. rest \in SUBSET Ids /\ stop \in BOOLEAN
    BY DEF Passes, Breaks
  <2> HIDE DEF rest, stop
  <2> QED
    BY <2>1, Zenon DEF Passes
<1> HIDE DEF you
<1>5. PICK i \in Ids : i = me.at
  BY <1>2 DEF PassFine
<1>6. PICK y \in Rows :
        /\ row' = [row EXCEPT ![i] = y]
        /\ Progress(i, row[i], y) /\ y.ack = row[i].ack
        /\ y.published => Logged(i)
        /\ me.phase = "fresh" /\ me.sent # "ok" => y.published \/ y.attempts >= 1
  BY <1>2, <1>5, RecordMoves
<1>7. Onward /\ StoresFine' /\ (row \in [Ids -> Rows])'
  <2>1. y.ack # "none" => i \in Removals /\ y.ack = verdict[i]
    BY <1>6, ZenonT(30) DEF RelayInv, StoresFine
  <2>2. answers' \subseteq answers
    BY <1>2
  <2> QED
    BY <1>2, <1>6, <2>1, <2>2, OneRowMoves, Zenon
<1>8. PassFine(me)'
  BY <1>2, <1>7, PassStands
<1>9. PassFine(you)'
  <2>1. /\ rest \subseteq me.queue /\ (me.phase = "idle" => rest = {})
        /\ \A k \in rest : Queued(k)' /\ (me.phase = "resend" =>
                                            row'[k].published /\ k \in Removals)
    BY <1>8 DEF PassFine
  <2>2. ASSUME me.phase = "fresh", NEW j \in rest, NEW k \in Ids, Before(k, j)'
        PROVE  k \in rest \/ Excused(k)'
    <3>1. rest = me.queue /\ ~Breaks(me.phase, me.sent)
      BY <2>2
    <3>2. k \in me.queue \/ Excused(k)' \/ FailedAt(me, k)
      BY <1>8, <2>2, <3>1 DEF PassFine, FailedAt
    <3>3. CASE FailedAt(me, k)
      <4>1. k = i /\ me.sent # "ok"
        BY <1>5, <3>3 DEF FailedAt
      <4>2. row'[k] = y
        BY <1>6, <4>1 DEF RelayInv, TypeOK
      <4>3. Logged(k)' \/ row'[k].attempts >= 1
        BY <1>2, <1>6, <2>2, <4>1, <4>2 DEF Logged
      <4> QED
        BY <4>3 DEF Excused
    <3> QED
      BY <3>1, <3>2, <3>3
  <2> HIDE DEF rest
  <2> QED
    BY <1>4, <2>1, <2>2 DEF PassFine
<1>10. (relay \in [Relays -> Passes])' /\ \A q \in Relays : PassFine(relay[q])'
  BY <1>3, <1>4, <1>7, <1>9, OnePassMoves, Zenon
<1>11. TypeOK'
  BY <1>2, <1>7, <1>10 DEF RelayInv, TypeOK, Passes
<1>12. OrderUnlessRefused'
  <2>1. \A j \in Ids : Logged(j)' => Logged(j)
    BY <1>2 DEF Logged
  <2> QED
    BY <1>7, <2>1, OrderStands
<1> QED
  BY <1>7, <1>10, <1>11, <1>12 DEF RelayInv

(* What the broker does with a published row: it stores it or it does not.  *)
LEMMA StoreGrows ==
  ASSUME TypeOK, NEW i \in Ids, Store(i) \/ UNCHANGED broker
  PROVE  /\ log' \in Seq(Ids) /\ window' \subseteq Removals /\ stream' \subseteq Removals
         /\ \A j \in Ids : /\ Logged(j) => Logged(j)'
                           /\ Logged(j)' => Logged(j) \/ j = i
         /\ Store(i) => Logged(i)'
<1>1. log \in Seq(Ids) /\ window \subseteq Removals /\ stream \subseteq Removals
  BY DEF TypeOK
<1>2. CASE UNCHANGED broker
  <2>1. UNCHANGED <<log, window, stream>>
    BY <1>2 DEF broker
  <2>2. Store(i) => Logged(i)
    <3> SUFFICES ASSUME Store(i), ~Logged(i) PROVE FALSE
      OBVIOUS
    <3>1. log = Append(log, i)
      BY <2>1 DEF Store
    <3>2. Len(log) = Len(log) + 1 /\ Len(log) \in Nat
      BY <1>1, <3>1, AppendProperties, LenProperties
    <3> QED
      BY <3>2
  <2> QED
    BY <1>1, <2>1, <2>2 DEF Logged
<1>3. CASE Store(i)
  <2>1. window' \subseteq Removals /\ stream' \subseteq Removals
    BY <1>1, <1>3 DEF Store
  <2>2. CASE Logged(i)
    <3>1. log' = log
      BY <1>3, <2>2 DEF Store
    <3> QED
      BY <1>1, <2>1, <2>2, <3>1 DEF Logged
  <2>3. CASE ~Logged(i)
    <3>1. log' = Append(log, i)
      BY <1>3, <2>3 DEF Store
    <3>2. /\ log' \in Seq(Ids) /\ Len(log) \in Nat
          /\ DOMAIN log = 1..Len(log) /\ DOMAIN log' = 1..(Len(log) + 1)
          /\ \A n \in 1..Len(log) : log'[n] = log[n]
          /\ log'[Len(log) + 1] = i
      BY <1>1, <3>1, AppendProperties, LenProperties
    <3>3. Logged(i)' /\ \A j \in Ids : Logged(j)' <=> Logged(j) \/ j = i
      BY <3>2 DEF Logged
    <3> QED
      BY <2>1, <3>2, <3>3
  <2> QED
    BY <2>2, <2>3
<1> QED
  BY <1>2, <1>3
(* A call returned: the row leaves the queue and the result waits.  A row   *)
(* that the stream stores now has no older one that it could overtake.      *)
LEMMA PublishPreserves ==
  ASSUME RelayInv, NEW r \in Relays, NEW i \in Ids, NEW result \in {"ok", "tooLarge", "refused"},
         Sent(r, i, result), Store(i) \/ UNCHANGED broker, result = "ok" => Store(i),
         UNCHANGED <<row, healthy, knowledge, crashes>>
  PROVE  RelayInv'
<1>1. PICK me \in Passes : me = relay[r]
  BY RelayTypes DEF RelayInv
<1> DEFINE you == [me EXCEPT !.queue = @ \ {i}, !.at = i, !.sent = result]
<1>2. /\ PassFine(me) /\ me.sent = "none" /\ i \in me.queue
      /\ me.phase = "fresh" => \A k \in me.queue : Rank[i] <= Rank[k]
      /\ UNCHANGED <<row, healthy, answers, verdict, crashes>>
  BY <1>1 DEF Sent, NextOf, RelayInv, knowledge
<1>3. relay' = [relay EXCEPT ![r] = you]
  BY <1>1 DEF Sent, RelayInv, TypeOK
<1>4. /\ you \in Passes /\ you.phase = me.phase /\ you.queue = me.queue \ {i}
      /\ you.at = i /\ you.sent = result
  BY ZenonT(30) DEF Passes
<1> HIDE DEF you
<1>5. /\ log' \in Seq(Ids) /\ window' \subseteq Removals /\ stream' \subseteq Removals
      /\ \A j \in Ids : /\ Logged(j) => Logged(j)'
                        /\ Logged(j)' => Logged(j) \/ j = i
      /\ result = "ok" => Logged(i)'
  BY StoreGrows DEF RelayInv
<1>6. Onward
  BY <1>2, <1>5, RowsStand
<1>7. Queued(i) /\ (me.phase = "resend" => row[i].published /\ i \in Removals)
      /\ me.phase \in {"fresh", "resend"}
  BY <1>2 DEF PassFine, Passes
<1>8. PassFine(me)'
  BY <1>2, <1>6, PassStands
<1>9. PassFine(you)'
  <2>1. \A k \in me.queue \ {i} :
          Queued(k)' /\ (me.phase = "resend" => row'[k].published /\ k \in Removals)
    BY <1>8, ZenonT(30) DEF PassFine
  <2>2. Queued(i)' /\ (me.phase = "resend" => row'[i].published /\ i \in Removals)
    BY <1>2, <1>7, ZenonT(30) DEF Queued
  <2>3. ASSUME me.phase = "fresh", NEW j \in me.queue \ {i}, NEW k \in Ids, Before(k, j)'
        PROVE  k \in me.queue \ {i} \/ Excused(k)' \/ FailedAt(you, k)
    <3>1. k \in me.queue \/ Excused(k)'
      BY <1>2, <1>8, <2>3, ZenonT(30) DEF PassFine, FailedAt
    <3>2. CASE k = i
      BY <1>4, <1>5, <3>2, Zenon DEF Excused, FailedAt
    <3> QED
      BY <3>1, <3>2
  <2> QED
    BY <1>4, <1>5, <1>7, <2>1, <2>2, <2>3, ZenonT(30) DEF PassFine
<1>10. (relay \in [Relays -> Passes])' /\ \A q \in Relays : PassFine(relay[q])'
  BY <1>3, <1>4, <1>6, <1>9, OnePassMoves, Zenon
<1>11. TypeOK'
  BY <1>2, <1>5, <1>10 DEF RelayInv, TypeOK, Passes
<1>12. StoresFine'
  <2>1. \A j \in Ids : Queued(j)' <=> Queued(j)
    BY <1>2, Zenon DEF Queued
  <2>2. {j \in Ids : Queued(j)'} = {j \in Ids : Queued(j)}
    BY <2>1
  <2>3. ASSUME NEW j \in Ids
        PROVE  /\ RowFine(j, row'[j]) /\ (Logged(j)' => Queued(j)')
               /\ row'[j].published => Logged(j)'
               /\ row'[j].ack # "none" => j \in Removals /\ row'[j].ack = verdict'[j]
               /\ Queued(j)' => row'[j].commit < Cardinality({q \in Ids : Queued(q)'})
    BY <1>2, <1>5, <1>7, <2>1, <2>2, Zenon DEF RelayInv, StoresFine
  <2> QED
    BY <1>2, <2>3, ZenonT(30) DEF RelayInv, StoresFine, RowFine
<1>13. OrderUnlessRefused'
  <2> SUFFICES ASSUME NEW k \in Ids, NEW j \in Ids, Before(k, j)', Logged(j)'
               PROVE  Excused(k)'
    BY DEF OrderUnlessRefused, Before, Excused
  <2>1. Before(k, j)
    BY <1>2 DEF Before, Queued
  <2>2. CASE Logged(j)
    <3>1. Excused(k) /\ Queued(k)
      BY <2>1, <2>2 DEF RelayInv, OrderUnlessRefused, Before, Excused
    <3> QED
      BY <1>6, <3>1 DEF Onward
  <2>3. CASE ~Logged(j)
    <3>1. j = i
      BY <1>5, <2>3
    <3>2. me.phase = "fresh"
      BY <1>7, <2>3, <3>1, ZenonT(30) DEF RelayInv, StoresFine
    <3>3. k \in me.queue \/ Excused(k)
      BY <1>2, <2>1, <3>1, <3>2 DEF PassFine, FailedAt
    <3>4. k \notin me.queue
      <4>1. Rank[k] \in Nat /\ Rank[i] \in Nat /\ Rank[k] < Rank[i]
        BY <2>1, <3>1, RelayAssumption DEF Before
      <4>2. ~(Rank[i] <= Rank[k])
        BY <4>1
      <4> QED
        BY <1>2, <3>2, <4>2
    <3>5. Excused(k) /\ Queued(k)
      BY <2>1, <3>3, <3>4 DEF Before
    <3> QED
      BY <1>6, <3>5 DEF Onward
  <2> QED
    BY <2>2, <2>3
<1> QED
  BY <1>10, <1>11, <1>12, <1>13 DEF RelayInv

-----------------------------------------------------------------------------
(* Knowledge and the streams.                                               *)

(* A step that leaves the rows, the passes and the log alone.               *)
LEMMA OutsidePreserves ==
  ASSUME RelayInv, UNCHANGED <<row, relay, healthy, log, crashes>>,
         window' \subseteq Removals, stream' \subseteq Removals, answers' \subseteq Removals,
         verdict' \in [Removals -> {"none", "applied", "refused"}],
         \A i \in Removals : verdict[i] # "none" => verdict'[i] = verdict[i],
         \A i \in answers' : verdict'[i] # "none"
  PROVE  RelayInv'
<1>1. TypeOK'
  BY DEF RelayInv, TypeOK
<1>2. Onward
  BY RowsStand DEF Logged
<1>3. \A r \in Relays : PassFine(relay[r])'
  BY <1>2, PassesStand
<1>4. OrderUnlessRefused'
  BY <1>2, OrderStands DEF Logged
<1>5. ASSUME NEW i \in Ids
      PROVE  row[i].ack # "none" => i \in Removals /\ row[i].ack = verdict'[i]
  BY Zenon DEF RelayInv, StoresFine
<1>6. StoresFine'
  BY <1>5 DEF RelayInv, StoresFine, RowFine, Queued, Logged
<1> QED
  BY <1>1, <1>3, <1>4, <1>6 DEF RelayInv
(* Knowledge keeps its first verdict on a removal and answers with it.      *)
LEMMA KnowledgePreserves ==
  ASSUME RelayInv, NEW i \in Removals,
         Consume(i) \/ CloseWindow(i) \/ DropMessage(i) \/ DropAnswer(i)
  PROVE  RelayInv'
<1>1. /\ window \subseteq Removals /\ stream \subseteq Removals /\ answers \subseteq Removals
      /\ verdict \in [Removals -> {"none", "applied", "refused"}]
      /\ \A j \in answers : verdict[j] # "none"
  BY DEF RelayInv, TypeOK, StoresFine
<1>2. CASE Consume(i)
  <2>1. PICK v \in {"applied", "refused"} :
          verdict' = [verdict EXCEPT ![i] = IF @ = "none" THEN v ELSE @]
    BY <1>2, Zenon DEF Consume
  <2>2. /\ stream' = stream \ {i} /\ answers' = answers \cup {i}
        /\ UNCHANGED <<row, relay, healthy, log, window, crashes>>
    BY <1>2 DEF Consume
  <2>3. /\ verdict' \in [Removals -> {"none", "applied", "refused"}]
        /\ \A j \in Removals : verdict[j] # "none" => verdict'[j] = verdict[j]
        /\ verdict'[i] # "none"
    BY <1>1, <2>1
  <2>4. \A j \in answers' : verdict'[j] # "none"
    BY <1>1, <2>2, <2>3
  <2> QED
    BY <1>1, <2>2, <2>3, <2>4, OutsidePreserves
<1>3. CASE CloseWindow(i) \/ DropMessage(i) \/ DropAnswer(i)
  <2>1. /\ window' \subseteq window /\ stream' \subseteq stream /\ answers' \subseteq answers
        /\ UNCHANGED <<row, relay, healthy, log, verdict, crashes>>
    BY <1>3 DEF CloseWindow, DropMessage, DropAnswer, broker, knowledge
  <2>2. \A j \in answers' : verdict'[j] # "none"
    BY <1>1, <2>1
  <2> QED
    BY <1>1, <2>1, <2>2, OutsidePreserves
<1> QED
  BY <1>2, <1>3

(* What Knowledge holds or answers is in the stream's log.                  *)
SentIsLogged == \A i \in stream \cup answers : Logged(i)

(* An answer that arrives is Knowledge's, whether it is the first or not.   *)
LEMMA AcknowledgePreserves ==
  ASSUME RelayInv, SentIsLogged, NEW i \in Removals, Acknowledge(i)
  PROVE  RelayInv'
<1>1. /\ i \in Ids /\ row \in [Ids -> Rows] /\ RowFine(i, row[i])
      /\ verdict[i] \in {"applied", "refused"} /\ answers \subseteq Removals
      /\ row[i].published => Logged(i)
      /\ row[i].ack # "none" => row[i].ack = verdict[i]
  BY RelayAssumption, Zenon DEF RelayInv, TypeOK, StoresFine, Acknowledge
<1>2. /\ row' = Acknowledged(i) /\ answers' \subseteq answers
      /\ UNCHANGED <<relay, healthy, log, window, stream, verdict, crashes>>
  BY DEF Acknowledge, broker
<1>3. CASE row[i].ack # "none"
  <2>1. row' = row
    BY <1>2, <1>3 DEF Acknowledged
  <2>2. \A j \in answers' : verdict'[j] # "none"
    BY <1>2, Zenon DEF RelayInv, StoresFine
  <2> QED
    BY <1>2, <2>1, <2>2, OutsidePreserves DEF RelayInv, TypeOK
<1>4. CASE row[i].ack = "none"
  <2>1. PICK v \in {"applied", "refused"} : v = verdict[i]
    BY <1>1
  <2>2. Queued(i)
    BY <1>1, Zenon DEF SentIsLogged, Acknowledge, RelayInv, StoresFine
  <2> DEFINE y == [row[i] EXCEPT !.ack = v]
  <2>3. row' = [row EXCEPT ![i] = y]
    BY <1>2, <1>4, <2>1 DEF Acknowledged
  <2>4. /\ y \in Rows /\ y.ack = v /\ y.published = row[i].published
        /\ Progress(i, row[i], y)
    <3>1. row[i] \in Rows /\ row[i].queued
      BY <1>1, <2>2 DEF Queued
    <3>2. /\ y \in Rows /\ y.ack = v /\ y.queued = row[i].queued /\ y.commit = row[i].commit
          /\ y.published = row[i].published /\ y.undeliverable = row[i].undeliverable
          /\ y.attempts = row[i].attempts /\ y.wait = row[i].wait
          /\ y.resendWait = row[i].resendWait
      BY <3>1, Zenon DEF Rows
    <3> HIDE DEF y
    <3>3. RowFine(i, y)
      BY <1>1, <3>1, <3>2 DEF RowFine
    <3>4. row[i].attempts \in 0..CountCap
      BY <3>1 DEF Rows
    <3>5. y.attempts >= row[i].attempts
      BY <3>2, <3>4
    <3> QED
      BY <3>2, <3>3, <3>5 DEF Progress
  <2> HIDE DEF y
  <2>5. Onward /\ StoresFine' /\ (row \in [Ids -> Rows])'
    BY <1>1, <1>2, <2>1, <2>3, <2>4, OneRowMoves, Zenon
  <2>6. TypeOK'
    BY <1>1, <1>2, <2>5 DEF RelayInv, TypeOK
  <2>7. \A r \in Relays : PassFine(relay[r])'
    BY <1>2, <2>5, PassesStand
  <2>8. OrderUnlessRefused'
    BY <1>2, <2>5, OrderStands DEF Logged
  <2> QED
    BY <2>5, <2>6, <2>7, <2>8 DEF RelayInv
<1> QED
  BY <1>3, <1>4

-----------------------------------------------------------------------------
(* Every step of the relay.                                                 *)

LEMMA PublishSteps ==
  ASSUME NEW r \in Relays, NEW i \in Ids,
         PublishStored(r, i) \/ PublishRefused(r, i) \/ PublishTooLarge(r, i)
  PROVE  \E result \in {"ok", "tooLarge", "refused"} :
           /\ Sent(r, i, result) /\ (Store(i) \/ UNCHANGED broker)
           /\ result = "ok" => Store(i)
           /\ UNCHANGED <<row, healthy, knowledge, crashes>>
  BY DEF PublishStored, PublishRefused, PublishTooLarge

LEMMA SentStaysLogged ==
  ASSUME RelayInv, SentIsLogged, [Next]_vars
  PROVE  SentIsLogged'
<1> SUFFICES ASSUME NEW j, j \in stream' \cup answers' PROVE Logged(j)'
  BY DEF SentIsLogged
<1>1. CASE UNCHANGED <<log, stream, answers>>
  BY <1>1 DEF SentIsLogged, Logged
<1>2. ASSUME NEW i \in Removals,
             Consume(i) \/ Acknowledge(i) \/ CloseWindow(i) \/ DropMessage(i) \/ DropAnswer(i)
      PROVE  Logged(j)'
  <2>1. log' = log /\ stream' \cup answers' \subseteq stream \cup answers
    BY <1>2 DEF Consume, Acknowledge, CloseWindow, DropMessage, DropAnswer, broker, knowledge
  <2> QED
    BY <2>1 DEF SentIsLogged, Logged
<1>3. ASSUME NEW r \in Relays, NEW i \in Ids,
             PublishStored(r, i) \/ PublishRefused(r, i) \/ PublishTooLarge(r, i)
      PROVE  Logged(j)'
  <2>1. (Store(i) \/ UNCHANGED broker) /\ answers' = answers
    BY <1>3, PublishSteps DEF knowledge
  <2>2. /\ \A k \in Ids : Logged(k) => Logged(k)'
        /\ Store(i) => Logged(i)'
    BY <2>1, StoreGrows DEF RelayInv
  <2>3. j \in stream \cup answers \/ (Store(i) /\ j = i)
    BY <2>1 DEF Store, broker
  <2>4. stream \cup answers \subseteq Ids
    BY RelayAssumption DEF RelayInv, TypeOK
  <2> QED
    BY <2>2, <2>3, <2>4 DEF SentIsLogged
<1>4. ASSUME NEW i \in Ids, Enqueue(i)
      PROVE  UNCHANGED <<log, stream, answers>>
  BY <1>4 DEF Enqueue, broker, knowledge
<1>5. ASSUME NEW r \in Relays,
             SelectFresh(r) \/ Record(r) \/ SelectResend(r) \/ EndPass(r) \/ Crash(r)
      PROVE  UNCHANGED <<log, stream, answers>>
  BY <1>5 DEF SelectFresh, Record, SelectResend, EndPass, Crash, broker, knowledge
<1>6. CASE Tick
  BY <1>1, <1>6 DEF Tick, broker, knowledge
<1>7. CASE UNCHANGED vars
  BY <1>1, <1>7 DEF vars
<1> QED
  BY <1>1, <1>2, <1>3, <1>4, <1>5, <1>6, <1>7 DEF Next

LEMMA RelayStep ==
  ASSUME RelayInv, SentIsLogged, [Next]_vars
  PROVE  RelayInv'
<1>1. ASSUME NEW i \in Ids, Enqueue(i)
      PROVE  RelayInv'
  BY <1>1, EnqueuePreserves
<1>2. ASSUME NEW i \in Removals,
             Consume(i) \/ CloseWindow(i) \/ DropMessage(i) \/ DropAnswer(i)
      PROVE  RelayInv'
  BY <1>2, KnowledgePreserves
<1>3. ASSUME NEW i \in Removals, Acknowledge(i)
      PROVE  RelayInv'
  BY <1>3, AcknowledgePreserves
<1>4. ASSUME NEW r \in Relays, SelectFresh(r)
      PROVE  RelayInv'
  BY <1>4, SelectFreshPreserves
<1>5. ASSUME NEW r \in Relays, Record(r)
      PROVE  RelayInv'
  BY <1>5, RecordPreserves
<1>6. ASSUME NEW r \in Relays, SelectResend(r)
      PROVE  RelayInv'
  BY <1>6, SelectResendPreserves
<1>7. ASSUME NEW r \in Relays, EndPass(r) \/ Crash(r)
      PROVE  RelayInv'
  BY <1>7, EndPassPreserves
<1>8. ASSUME NEW r \in Relays, NEW i \in Ids,
             PublishStored(r, i) \/ PublishRefused(r, i) \/ PublishTooLarge(r, i)
      PROVE  RelayInv'
  BY <1>8, PublishSteps, PublishPreserves
<1>9. CASE Tick
  BY <1>9, TickPreserves
<1>10. CASE UNCHANGED vars
  <2>1. UNCHANGED <<row, relay, healthy, log, window, stream, answers, verdict, crashes>>
    BY <1>10 DEF vars
  <2> QED
    BY <2>1, OutsidePreserves, Zenon DEF RelayInv, TypeOK, StoresFine
<1> QED
  BY <1>1, <1>2, <1>3, <1>4, <1>5, <1>6, <1>7, <1>8, <1>9, <1>10 DEF Next

LEMMA RelayStart ==
  ASSUME Init
  PROVE  RelayInv /\ SentIsLogged
<1>1. NoRow \in Rows /\ NoRow.queued = FALSE /\ \A i \in Ids : RowFine(i, NoRow)
  <2>1. Fresh(0) \in Rows
    BY BoundTypes DEF Fresh, Rows
  <2>2. /\ NoRow \in Rows /\ NoRow.queued = FALSE /\ NoRow.published = FALSE
        /\ NoRow.wait = 0 /\ NoRow.undeliverable = FALSE
        /\ NoRow.resendWait = Unarmed /\ NoRow.ack = "none"
    BY <2>1, Zenon DEF NoRow, Fresh, Rows
  <2> QED
    BY <2>2 DEF RowFine
<1>2. \A i \in Ids : row[i] = NoRow /\ ~Queued(i) /\ ~Logged(i)
  BY <1>1 DEF Init, Queued, Logged
<1>3. TypeOK
  <2>1. row \in [Ids -> Rows]
    BY <1>1 DEF Init
  <2>2. relay \in [Relays -> Passes]
    BY IdleIsFine DEF Init
  <2> QED
    BY <2>1, <2>2, BoundTypes DEF Init, TypeOK, Passes
<1>4. StoresFine
  <2>1. NoRow.published = FALSE /\ NoRow.ack = "none"
    BY DEF NoRow, Fresh
  <2> QED
    BY <1>1, <1>2, <2>1 DEF Init, StoresFine
<1>5. \A r \in Relays : PassFine(relay[r])
  BY IdleIsFine DEF Init
<1>6. OrderUnlessRefused /\ SentIsLogged
  BY <1>2 DEF Init, OrderUnlessRefused, SentIsLogged
<1> QED
  BY <1>3, <1>4, <1>5, <1>6 DEF RelayInv

-----------------------------------------------------------------------------
(* What an answer ends.                                                     *)

(* What an answer fixes of a row.                                           *)
Answer(x) == <<x.ack, x.resends>>

(* The statements a pass runs for row j leave every answered row i its      *)
(* answer: only record_resend would count a copy, and its guard forbids it. *)
LEMMA RecordedKeepsAnswer ==
  ASSUME TypeOK, NEW i \in Ids, NEW j \in Ids, row[i].ack # "none", NEW phase, NEW result
  PROVE  Answer(Recorded(j, phase, result)[i]) = Answer(row[i])
<1>1. row \in [Ids -> Rows] /\ row[i] \in Rows
  BY DEF TypeOK
<1>2. Answer(MarkPublished(j)[i]) = Answer(row[i])
  BY <1>1 DEF MarkPublished, Answer, Rows
<1>3. Answer(RecordResend(j)[i]) = Answer(row[i])
  BY <1>1 DEF RecordResend, Answer, Rows
<1>4. Answer(RecordUndeliverable(j)[i]) = Answer(row[i])
  BY <1>1 DEF RecordUndeliverable, Answer, Rows
<1>5. ASSUME NEW b PROVE Answer(RecordFailure(j, b)[i]) = Answer(row[i])
  BY <1>1 DEF RecordFailure, Answer, Rows
<1> QED
  BY <1>2, <1>3, <1>4, <1>5, Zenon DEF Recorded

LEMMA AnswerStands ==
  ASSUME RelayInv, Next, NEW i \in Removals, row[i].ack # "none"
  PROVE  Answer(row'[i]) = Answer(row[i])
<1>1. i \in Ids /\ TypeOK /\ row \in [Ids -> Rows] /\ row[i] \in Rows
  BY RelayAssumption DEF RelayInv, TypeOK
<1>2. Queued(i)
  BY <1>1, Zenon DEF RelayInv, StoresFine, RowFine, Queued
<1>3. CASE UNCHANGED row
  BY <1>3
<1>4. ASSUME NEW j \in Ids, Enqueue(j)
      PROVE  Answer(row'[i]) = Answer(row[i])
  BY <1>1, <1>2, <1>4 DEF Enqueue
<1>5. ASSUME NEW j \in Removals, Acknowledge(j)
      PROVE  Answer(row'[i]) = Answer(row[i])
  <2>1. row' = row \/ (j # i /\ row'[i] = row[i])
    BY <1>1, <1>5 DEF Acknowledge, Acknowledged
  <2> QED
    BY <2>1
<1>6. ASSUME NEW r \in Relays, Record(r)
      PROVE  Answer(row'[i]) = Answer(row[i])
  <2>1. PICK me \in Passes : me = relay[r]
    BY RelayTypes DEF RelayInv
  <2>2. row' = Recorded(me.at, me.phase, me.sent) /\ me.sent # "none"
    BY <1>6, <2>1 DEF Record
  <2>3. me.at \in Ids
    BY <2>1, <2>2 DEF RelayInv, PassFine
  <2> QED
    BY <1>1, <2>2, <2>3, RecordedKeepsAnswer
<1>7. CASE Tick
  <2>1. row'[i] = Aged(row[i])
    BY <1>1, <1>2, <1>7 DEF Tick
  <2> QED
    BY <1>1, <2>1 DEF Aged, Answer, Rows
<1>8. ASSUME NEW j \in Removals,
             Consume(j) \/ CloseWindow(j) \/ DropMessage(j) \/ DropAnswer(j)
      PROVE  UNCHANGED row
  BY <1>8 DEF Consume, CloseWindow, DropMessage, DropAnswer
<1>9. ASSUME NEW r \in Relays, SelectFresh(r) \/ SelectResend(r) \/ EndPass(r) \/ Crash(r)
      PROVE  UNCHANGED row
  BY <1>9 DEF SelectFresh, SelectResend, EndPass, Crash
<1>10. ASSUME NEW r \in Relays, NEW j \in Ids,
              PublishStored(r, j) \/ PublishRefused(r, j) \/ PublishTooLarge(r, j)
       PROVE  UNCHANGED row
  BY <1>10 DEF PublishStored, PublishRefused, PublishTooLarge
<1> QED
  BY <1>3, <1>4, <1>5, <1>6, <1>7, <1>8, <1>9, <1>10, Zenon DEF Next

(* Neither selection offers a published removal with an answer, and the     *)
(* other steps of a pass put rows down.                                     *)
LEMMA AnsweredIsPutDown ==
  ASSUME RelayInv, Next, NEW i \in Removals, row[i].ack # "none", row[i].published,
         NEW q \in Relays, Holds(q, i)'
  PROVE  Holds(q, i)
<1>1. i \in Ids /\ i # NoId /\ relay \in [Relays -> Passes]
  BY RelayAssumption, RelayTypes DEF RelayInv
<1>2. CASE relay' = relay
  BY <1>2 DEF Holds
<1>3. ASSUME NEW r \in Relays, NEW me \in Passes, relay' = [relay EXCEPT ![r] = me],
             i \in me.queue \/ me.at = i => Holds(r, i)
      PROVE  Holds(q, i)
  <2>1. relay'[q] = IF q = r THEN me ELSE relay[q]
    BY <1>1, <1>3
  <2> QED
    BY <1>3, <2>1 DEF Holds
<1>4. ASSUME NEW r \in Relays, EndPass(r) \/ Crash(r)
      PROVE  Holds(q, i)
  <2>1. relay' = [relay EXCEPT ![r] = Idle] /\ Idle \in Passes
    BY <1>4, IdleIsFine DEF EndPass, Crash
  <2>2. ~(i \in Idle.queue \/ Idle.at = i)
    BY <1>1 DEF Idle
  <2> QED
    BY <1>3, <2>1, <2>2
<1>5. ASSUME NEW r \in Relays, SelectFresh(r)
      PROVE  Holds(q, i)
  <2> DEFINE me == [relay[r] EXCEPT !.phase = "fresh", !.queue = Oldest(DueFresh)]
  <2>1. relay' = [relay EXCEPT ![r] = me]
    BY <1>1, <1>5 DEF SelectFresh
  <2>2. i \notin Oldest(DueFresh) /\ Oldest(DueFresh) \subseteq Ids
    BY DEF Oldest, DueFresh, Unpublished
  <2>3. relay[r] \in Passes
    BY <1>1
  <2>4. me \in Passes /\ me.queue = Oldest(DueFresh) /\ me.at = relay[r].at
    BY <2>2, <2>3 DEF Passes
  <2> HIDE DEF me
  <2>5. i \in me.queue \/ me.at = i => Holds(r, i)
    BY <2>2, <2>4 DEF Holds
  <2> QED
    BY <1>3, <2>1, <2>4, <2>5
<1>6. ASSUME NEW r \in Relays, SelectResend(r)
      PROVE  Holds(q, i)
  <2>1. PICK batch \in SUBSET DueResend :
          relay' = [relay EXCEPT ![r].phase = "resend", ![r].queue = batch]
    BY <1>6 DEF SelectResend
  <2> DEFINE me == [relay[r] EXCEPT !.phase = "resend", !.queue = batch]
  <2>2. relay' = [relay EXCEPT ![r] = me]
    BY <1>1, <2>1
  <2>3. i \notin batch /\ batch \subseteq Ids
    BY <2>1, RelayAssumption DEF DueResend
  <2>4. relay[r] \in Passes
    BY <1>1
  <2>5. me \in Passes /\ me.queue = batch /\ me.at = relay[r].at
    BY <2>3, <2>4 DEF Passes
  <2> HIDE DEF me
  <2>6. i \in me.queue \/ me.at = i => Holds(r, i)
    BY <2>3, <2>5 DEF Holds
  <2> QED
    BY <1>3, <2>2, <2>5, <2>6
<1>7. ASSUME NEW r \in Relays, Record(r)
      PROVE  Holds(q, i)
  <2>1. PICK kept \in SUBSET relay[r].queue, failed \in BOOLEAN :
          relay' = [relay EXCEPT ![r].at = NoId, ![r].sent = "none",
                                 ![r].queue = kept, ![r].failed = failed]
    <3>1. Breaks(relay[r].phase, relay[r].sent) \in BOOLEAN
      BY DEF Breaks
    <3> QED
      BY <1>1, <1>7, <3>1 DEF Record
  <2> DEFINE me == [relay[r] EXCEPT !.at = NoId, !.sent = "none",
                                    !.queue = kept, !.failed = failed]
  <2>2. relay' = [relay EXCEPT ![r] = me]
    BY <1>1, <2>1
  <2>3. relay[r] \in Passes
    BY <1>1
  <2>4. me \in Passes /\ me.queue = kept /\ me.at = NoId
    BY <2>1, <2>3 DEF Passes
  <2> HIDE DEF me
  <2>5. i \in me.queue \/ me.at = i => Holds(r, i)
    BY <1>1, <2>1, <2>4 DEF Holds
  <2> QED
    BY <1>3, <2>2, <2>4, <2>5
<1>8. ASSUME NEW r \in Relays, NEW j \in Ids,
             PublishStored(r, j) \/ PublishRefused(r, j) \/ PublishTooLarge(r, j)
      PROVE  Holds(q, i)
  <2>1. PICK result \in {"ok", "tooLarge", "refused"} : Sent(r, j, result)
    BY <1>8, PublishSteps
  <2> DEFINE me == [relay[r] EXCEPT !.queue = @ \ {j}, !.at = j, !.sent = result]
  <2>2. relay' = [relay EXCEPT ![r] = me] /\ j \in relay[r].queue
    BY <1>1, <2>1 DEF Sent, NextOf
  <2>3. relay[r] \in Passes
    BY <1>1
  <2>4. me \in Passes /\ me.queue = relay[r].queue \ {j} /\ me.at = j
    BY <2>1, <2>3 DEF Passes
  <2> HIDE DEF me
  <2>5. i \in me.queue \/ me.at = i => Holds(r, i)
    BY <2>2, <2>4 DEF Holds
  <2> QED
    BY <1>3, <2>2, <2>4, <2>5
<1>9. ASSUME NEW j \in Removals, Consume(j) \/ Acknowledge(j) \/ CloseWindow(j)
                                    \/ DropMessage(j) \/ DropAnswer(j)
      PROVE  relay' = relay
  BY <1>9 DEF Consume, Acknowledge, CloseWindow, DropMessage, DropAnswer
<1>10. ASSUME (\E j \in Ids : Enqueue(j)) \/ Tick
       PROVE  relay' = relay
  BY <1>10 DEF Enqueue, Tick
<1> QED
  BY <1>2, <1>4, <1>5, <1>6, <1>7, <1>8, <1>9, <1>10, Zenon DEF Next

-----------------------------------------------------------------------------
(* Results.                                                                 *)

(* RelayInv is inductive together with SentIsLogged: whatever the broker    *)
(* stores, refuses or drops and wherever a relay crashes, the rows, the     *)
(* stream, the answers and every pass under way agree.                      *)
THEOREM RelayInductive == Spec => [](RelayInv /\ SentIsLogged)
<1>1. Init => RelayInv /\ SentIsLogged
  BY RelayStart
<1>2. RelayInv /\ SentIsLogged /\ [Next]_vars => (RelayInv /\ SentIsLogged)'
  BY RelayStep, SentStaysLogged
<1> QED
  BY <1>1, <1>2, PTL DEF Spec

(* mark_published only ever follows an acknowledgement of the stream, for   *)
(* any number of relays, crashes and lost acknowledgements.                 *)
THEOREM MarkedRowsAreStored == Spec => []PublishedWasStored
<1>1. RelayInv => PublishedWasStored
  BY Zenon DEF RelayInv, StoresFine, PublishedWasStored
<1> QED
  BY <1>1, RelayInductive, PTL

(* Whatever the batch size and the number of relays, a younger row that     *)
(* commits later overtakes an older one only after a recorded failure.      *)
THEOREM RefusalsAloneReorder == Spec => []OrderUnlessRefused
<1>1. RelayInv => OrderUnlessRefused
  BY DEF RelayInv
<1> QED
  BY <1>1, RelayInductive, PTL

(* A published removal always has a resend scheduled, and no other row has. *)
THEOREM RemovalsStayArmed == Spec => []RemovalStaysArmed
<1>1. RelayInv => RemovalStaysArmed
  BY Zenon DEF RelayInv, StoresFine, RowFine, RemovalStaysArmed
<1> QED
  BY <1>1, RelayInductive, PTL

(* For any number of relays, and wherever they crash, the first answer to a *)
(* removal is final: it stands, no copy is counted after it, and no relay   *)
(* takes the published row up again, even when the answer came before       *)
(* mark_published or while another relay was sending a copy.                *)
THEOREM AnswersAreFinal == Spec => AnswerIsFinal
<1> DEFINE Final ==
      \A i \in Removals : row[i].ack # "none" =>
        /\ row'[i].ack = row[i].ack /\ row'[i].resends = row[i].resends
        /\ row[i].published => \A r \in Relays : Holds(r, i)' => Holds(r, i)
<1>1. ASSUME RelayInv, Next
      PROVE  Final
  <2> SUFFICES ASSUME NEW i \in Removals, row[i].ack # "none"
               PROVE  /\ row'[i].ack = row[i].ack /\ row'[i].resends = row[i].resends
                      /\ row[i].published => \A r \in Relays : Holds(r, i)' => Holds(r, i)
    OBVIOUS
  <2>1. row'[i].ack = row[i].ack /\ row'[i].resends = row[i].resends
    BY <1>1, AnswerStands DEF Answer
  <2>2. row[i].published => \A r \in Relays : Holds(r, i)' => Holds(r, i)
    BY <1>1, AnsweredIsPutDown
  <2> QED
    BY <2>1, <2>2
<1>2. RelayInv /\ [Next]_vars => [Final]_vars
  BY <1>1
<1> QED
  BY <1>2, RelayInductive, PTL DEF Spec, AnswerIsFinal
=============================================================================
