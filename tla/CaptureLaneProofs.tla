------------------------- MODULE CaptureLaneProofs -------------------------
(***************************************************************************)
(* The safety properties of the capture lane for any commands, keys,        *)
(* workers, batch sizes, leases and backoff: the reports by the inductive   *)
(* invariant LaneInv, the facts by FactsInv beside it, and that the lane    *)
(* implements the safety part of OperationReports.                          *)
(***************************************************************************)
EXTENDS CaptureLane, FiniteSetTheorems, TLAPS

(* A worker that holds an outcome holds the claim it is for.                *)
OutcomesHaveClaims ==
  \A w \in Workers : worker[w].outcome # NoOutcome => worker[w].current \in Claims

(* A row is inserted with its inbox claim, and only a command that names a  *)
(* status is queued.                                                        *)
RowsAreClaimed ==
  \A c \in Commands :
    /\ capture[c].status = "none" <=> c \notin inbox
    /\ capture[c].status \in {"accepted", "resolved"} => KeyOf[c] \in Keys

(* No identity of a key is above the number of its captures.                *)
GensAreCounted(f) == \A i \in DOMAIN f : f[i].gen <= Captures(f)

(* The fact that captured the source of identity g is among f.              *)
CapturedIn(f, g) == \E i \in DOMAIN f : f[i].kind = "captured" /\ f[i].gen = g

(* The facts of every key: they replay to its source, their identities are  *)
(* counted, each has the report of its capture, and the identities in use   *)
(* were captured.                                                           *)
FactsInv ==
  /\ FactsReplaySource /\ EveryFactHasItsReport /\ PreservedIsBacked
  /\ \A k \in Keys :
       /\ GensAreCounted(facts[k])
       /\ source[k] # NoSource => CapturedIn(facts[k], source[k].gen)

LaneInv == TypeOK /\ OutcomesHaveClaims /\ RowsAreClaimed /\ OneTerminalReport

-----------------------------------------------------------------------------
(* A sequence is a function on an interval that starts at 1.                *)
LEMMA ListShape ==
  ASSUME NEW S, NEW s \in Seq(S)
  PROVE  /\ Len(s) \in Nat /\ DOMAIN s = 1..Len(s)
         /\ \A i \in 1..Len(s) : s[i] \in S
         /\ s = [i \in DOMAIN s |-> s[i]]
  OBVIOUS

(* Append adds one element behind the ones there are.                       *)
LEMMA ListGrows ==
  ASSUME NEW S, NEW s \in Seq(S), NEW x \in S
  PROVE  /\ Append(s, x) \in Seq(S) /\ Append(s, x) # <<>>
         /\ Len(Append(s, x)) = Len(s) + 1
         /\ \A i \in 1..Len(s) : Append(s, x)[i] = s[i]
         /\ Append(s, x)[Len(s) + 1] = x
  OBVIOUS

(* A function on 1..n is a sequence of length n.                            *)
LEMMA ListOfFunction ==
  ASSUME NEW S, NEW n \in Nat, NEW s \in [1..n -> S]
  PROVE  s \in Seq(S) /\ Len(s) = n
  OBVIOUS

(* Sequences of one length with the same elements are the same.             *)
LEMMA SameList ==
  ASSUME NEW S, NEW s \in Seq(S), NEW t \in Seq(S), NEW n, Len(s) = n, Len(t) = n,
         \A i \in 1..n : s[i] = t[i]
  PROVE  s = t
<1>1. DOMAIN s = 1..n /\ DOMAIN t = 1..n
  BY ListShape
<1>2. s = [i \in 1..n |-> s[i]] /\ t = [i \in 1..n |-> t[i]]
  BY <1>1, ListShape
<1>3. [i \in 1..n |-> s[i]] = [i \in 1..n |-> t[i]]
  OBVIOUS
<1> QED
  BY <1>2, <1>3, Zenon

(* The terminal report goes behind the queued one.                          *)
LEMMA SecondReport ==
  ASSUME NEW x \in Reports, NEW y \in Reports
  PROVE  Append(<<x>>, y) = <<x, y>>
<1>1. <<x>> \in Seq(Reports) /\ <<x, y>> \in Seq(Reports)
        /\ Append(<<x>>, y) \in Seq(Reports)
  OBVIOUS
<1>2. Len(Append(<<x>>, y)) = 2 /\ Len(<<x, y>>) = 2
  OBVIOUS
<1>3. \A i \in 1..2 : Append(<<x>>, y)[i] = <<x, y>>[i]
  OBVIOUS
<1> HIDE DEF Reports
<1> QED
  BY <1>1, <1>2, <1>3, SameList, Zenon

(* retry_delay never leaves the wait of a row undefined.                    *)
LEMMA RetryDelayType ==
  ASSUME NEW n \in Nat
  PROVE  RetryDelay(n) \in Nat
<1> DEFINE e == IF n < 1 THEN 0 ELSE IF n > 9 THEN 8 ELSE n - 1
<1>1. e + 1 \in 1..9
  OBVIOUS
<1>2. PowersOf4[e + 1] \in Nat
  BY <1>1 DEF PowersOf4
<1>3. FirstRetry * PowersOf4[e + 1] \in Nat /\ MaxRetry \in Nat
  BY <1>2, LaneAssumption
<1> QED
  BY <1>3 DEF RetryDelay

(* A command with a row has one of the three statuses.                      *)
LEMMA RowShape ==
  ASSUME TypeOK, NEW c \in Commands, capture[c].status # "none"
  PROVE  capture[c] \in Rows
  BY DEF TypeOK, NoRow

(* A stored source has its three columns.                                   *)
LEMMA SourceShape ==
  ASSUME TypeOK, NEW k \in Keys, source[k] # NoSource
  PROVE  source[k] \in Sources
  BY DEF TypeOK

(* Every fact has an identity, the capture that caused it and a kind.       *)
LEMMA FactShape ==
  ASSUME NEW x \in Facts
  PROVE  /\ x.gen \in Nat \ {0} /\ x.by \in Commands
         /\ x.kind \in {"captured", "updated", "removed"}
  BY DEF Facts

(* Appending a fact keeps the ones before it in their places.               *)
LEMMA Appended ==
  ASSUME NEW f \in Seq(Facts), NEW x \in Facts
  PROVE  /\ Append(f, x) \in Seq(Facts) /\ Len(f) \in Nat
         /\ Len(Append(f, x)) = Len(f) + 1
         /\ DOMAIN f = 1..Len(f) /\ DOMAIN Append(f, x) = 1..(Len(f) + 1)
         /\ \A i \in 1..Len(f) : Append(f, x)[i] = f[i] /\ f[i] \in Facts
         /\ Append(f, x)[Len(f) + 1] = x
<1> HIDE DEF Facts
<1>1. Len(f) \in Nat /\ DOMAIN f = 1..Len(f) /\ \A i \in 1..Len(f) : f[i] \in Facts
  BY ListShape
<1>2. Append(f, x) \in Seq(Facts) /\ Len(Append(f, x)) = Len(f) + 1
  BY ListGrows
<1>3. DOMAIN Append(f, x) = 1..(Len(f) + 1)
  BY <1>2, ListShape
<1>4. /\ \A i \in 1..Len(f) : Append(f, x)[i] = f[i]
      /\ Append(f, x)[Len(f) + 1] = x
  BY <1>1, ListGrows
<1> QED
  BY <1>1, <1>2, <1>3, <1>4

(* The captures of a key are counted, and a captured fact adds one.         *)
LEMMA CapturesType ==
  ASSUME NEW f \in Seq(Facts)
  PROVE  Captures(f) \in Nat
<1> DEFINE captured == {i \in DOMAIN f : f[i].kind = "captured"}
<1>1. DOMAIN f = 1..Len(f) /\ Len(f) \in Nat
  BY ListShape
<1>2. IsFiniteSet(1..Len(f))
  BY <1>1, FS_Interval
<1>3. Cardinality(captured) \in Nat
  BY <1>1, <1>2, FS_Subset, FS_CardinalityType
<1> QED
  BY <1>3 DEF Captures

LEMMA CapturesGrow ==
  ASSUME NEW f \in Seq(Facts), NEW x \in Facts
  PROVE  Captures(Append(f, x)) =
           IF x.kind = "captured" THEN Captures(f) + 1 ELSE Captures(f)
<1> DEFINE before == {i \in DOMAIN f : f[i].kind = "captured"}
           n == Len(f) + 1
           after == {i \in DOMAIN Append(f, x) : Append(f, x)[i].kind = "captured"}
<1>1. IsFiniteSet(before) /\ n \notin before
  <2>1. IsFiniteSet(1..Len(f))
    BY Appended, FS_Interval
  <2>2. before \subseteq 1..Len(f) /\ n \notin 1..Len(f)
    BY Appended
  <2> QED
    BY <2>1, <2>2, FS_Subset
<1>2. \A i : i \in after <=> i \in before \/ (i = n /\ x.kind = "captured")
  <2>1. \A i : i \in 1..n <=> i \in 1..Len(f) \/ i = n
    BY Appended
  <2> QED
    BY <2>1, Appended
<1> HIDE DEF before, after, n
<1>3. Cardinality(before \cup {n}) = Cardinality(before) + 1
  BY <1>1, FS_AddElement, Zenon
<1>4. Captures(f) = Cardinality(before) /\ Captures(Append(f, x)) = Cardinality(after)
  BY DEF Captures, before, after
<1>5. CASE x.kind = "captured"
  <2>1. after = before \cup {n}
    BY <1>2, <1>5
  <2> QED
    BY <2>1, <1>3, <1>4, <1>5
<1>6. CASE x.kind # "captured"
  <2>1. after = before
    BY <1>2, <1>6, Zenon
  <2> QED
    BY <2>1, <1>4, <1>6
<1> QED
  BY <1>5, <1>6

(* An identity is a positive number, stored or freshly minted.              *)
LEMMA SourceGenType ==
  ASSUME TypeOK, NEW k \in Keys
  PROVE  SourceGen(k) \in Nat \ {0}
<1>1. Captures(facts[k]) \in Nat
  BY CapturesType DEF TypeOK
<1>2. FreshGen(k) \in Nat \ {0}
  BY <1>1 DEF FreshGen
<1>3. CASE source[k] # NoSource
  BY <1>3, SourceShape DEF SourceGen, Sources
<1> QED
  BY <1>2, <1>3 DEF SourceGen

(* classify turns every answer of the resolver into an outcome.             *)
LEMMA ClassifyType ==
  ASSUME NEW answer \in Answers
  PROVE  Classify(answer) \in Outcomes /\ Classify(answer) # NoOutcome
<1>1. \A o \in Outcomes : o.kind \in {"post"} \cup Failures
  BY DEF Outcomes
<1>2. [kind |-> "inaccessible"] \in Outcomes
  BY DEF Outcomes, Failures
<1>3. CASE answer \in Outcomes
  BY <1>3, <1>1 DEF Classify, NoOutcome, Failures
<1>4. CASE answer \in [kind : {"otherPost", "unrepresentable"}]
  BY <1>4, <1>2, <1>1 DEF Classify, NoOutcome, Failures
<1> QED
  BY <1>3, <1>4 DEF Answers

-----------------------------------------------------------------------------
(* Before the first delivery there is no row, no report and no claim.       *)
LEMMA InitEstablishes == Init => LaneInv
<1> SUFFICES ASSUME Init PROVE LaneInv
  OBVIOUS
<1>1. TypeOK
  BY LaneAssumption DEF Init, TypeOK, NoRow, NoSource, Idle, NoClaim, NoOutcome
<1>2. OutcomesHaveClaims
  BY DEF Init, OutcomesHaveClaims, Idle
<1>3. RowsAreClaimed
  BY DEF Init, RowsAreClaimed, NoRow
<1>4. OneTerminalReport
  BY Zenon DEF Init, OneTerminalReport, ReportsTellRow, NoRow
<1> QED
  BY <1>1, <1>2, <1>3, <1>4 DEF LaneInv

(* The intake inserts the row with its first report and its inbox claim.    *)
LEMMA PersistPreserves ==
  ASSUME LaneInv, NEW c \in Commands, Persist(c)
  PROVE  LaneInv'
<1> USE DEF LaneInv, Invalid, NamesNoStatus
<1>1. broker' \in [Commands -> {"unsent", "pending", "settled"}]
  BY Zenon DEF Persist, Settle, TypeOK
<1>2. CASE KeyOf[c] = Poison \/ Claimed(c)
  <2>1. UNCHANGED <<inbox, capture, reports, source, facts, worker, abandons>>
    BY <1>2 DEF Persist
  <2> QED
    BY <1>1, <2>1, Zenon DEF TypeOK, OutcomesHaveClaims, RowsAreClaimed, OneTerminalReport,
                      ReportsTellRow
<1>3. CASE KeyOf[c] # Poison /\ c \notin inbox
  <2>1. /\ inbox' = inbox \cup {c}
        /\ capture' = [capture EXCEPT ![c] = NewRow(c)]
        /\ reports' = [reports EXCEPT ![c] = Append(@, NewReport(c))]
        /\ UNCHANGED <<source, facts, worker, abandons>>
    BY <1>3 DEF Persist, Claimed
  <2>2. KeyOf[c] \in Keys \cup {NoStatus}
    BY <1>3, LaneAssumption
  <2>3. NewRow(c) \in Rows /\ NewReport(c) \in Reports
    BY DEF NewRow, Rows, NewReport, Reports, Failures
  <2>4. TypeOK'
    BY <1>1, <2>1, <2>3 DEF TypeOK
  <2>5. OutcomesHaveClaims'
    BY <2>1 DEF OutcomesHaveClaims
  <2>6. RowsAreClaimed'
    BY <2>1, <2>2 DEF RowsAreClaimed, NewRow, TypeOK
  <2>7. reports'[c] = <<NewReport(c)>>
    <3>1. reports[c] = <<>>
      BY <1>3, Zenon DEF RowsAreClaimed, OneTerminalReport, ReportsTellRow
    <3>2. reports'[c] = Append(<<>>, NewReport(c))
      BY <2>1, <3>1 DEF TypeOK
    <3> QED
      BY <3>2, <2>3
  <2>8. OneTerminalReport'
    <3> SUFFICES ASSUME NEW d \in Commands PROVE ReportsTellRow(d)'
      BY DEF OneTerminalReport
    <3>1. CASE d # c
      BY <3>1, <2>1, Zenon DEF OneTerminalReport, ReportsTellRow, TypeOK
    <3>2. CASE d = c
      BY <3>2, <2>1, <2>7, Zenon DEF ReportsTellRow, NewRow, NewReport, TypeOK, Failures
    <3> QED
      BY <3>1, <3>2
  <2> QED
    BY <2>4, <2>5, <2>6, <2>8
<1> QED
  BY <1>2, <1>3 DEF Claimed

(* A claim and the passing of time move only the wait of queued rows.       *)
LEMMA WaitsPreserve ==
  ASSUME LaneInv, UNCHANGED <<broker, inbox, source, reports, facts, abandons>>,
         NEW S \in SUBSET Commands, NEW wait \in [Commands -> Nat],
         \A c \in S : capture[c].status = "accepted",
         capture' = [c \in Commands |->
                       IF c \in S THEN [capture[c] EXCEPT !.wait = wait[c]] ELSE capture[c]]
  PROVE  /\ capture' \in [Commands -> Rows \cup {NoRow}]
         /\ RowsAreClaimed' /\ OneTerminalReport'
<1>1. \A c \in S : capture[c] \in Rows
  BY RowShape DEF LaneInv
<1>2. capture' \in [Commands -> Rows \cup {NoRow}]
  BY <1>1, ZenonT(30) DEF LaneInv, TypeOK, Rows
<1>3. \A c \in Commands : /\ capture'[c].status = capture[c].status
                           /\ capture'[c].reported = capture[c].reported
                           /\ capture'[c].gen = capture[c].gen
  BY <1>1 DEF Rows
<1>4. RowsAreClaimed'
  BY <1>3 DEF LaneInv, RowsAreClaimed
<1>5. OneTerminalReport'
  BY <1>3, ZenonT(30) DEF LaneInv, OneTerminalReport, ReportsTellRow
<1> QED
  BY <1>2, <1>4, <1>5

(* A guarded outcome replaces the row and puts its report behind the queued *)
(* one.                                                                     *)
LEMMA FinishPreserves ==
  ASSUME LaneInv, NEW c \in Commands, Guarded(c), UNCHANGED inbox,
         NEW row \in Rows, NEW report \in Reports,
         capture' = [capture EXCEPT ![c] = row],
         reports' = [reports EXCEPT ![c] = Append(@, report)],
         row.reported,
         \/ row.status = "unavailable" /\ \E f \in Failures : report = [status |-> f]
         \/ row.status = "resolved" /\ report = [status |-> "preserved", gen |-> row.gen]
  PROVE  /\ capture' \in [Commands -> Rows \cup {NoRow}]
         /\ reports' \in [Commands -> Seq(Reports)]
         /\ RowsAreClaimed' /\ OneTerminalReport'
<1>1. capture' \in [Commands -> Rows \cup {NoRow}] /\ reports' \in [Commands -> Seq(Reports)]
  BY DEF LaneInv, TypeOK
<1>2. capture[c].status = "accepted" /\ KeyOf[c] \in Keys /\ KeyOf[c] # NoStatus
  BY LaneAssumption DEF Guarded, LaneInv, RowsAreClaimed
<1>3. RowsAreClaimed'
  BY <1>2 DEF LaneInv, RowsAreClaimed, TypeOK
<1>4. reports'[c] = <<[status |-> "queued"], report>>
  <2>1. reports[c] = <<[status |-> "queued"]>>
    BY <1>2, Zenon DEF LaneInv, OneTerminalReport, ReportsTellRow
  <2>2. reports'[c] = Append(<<[status |-> "queued"]>>, report)
    BY <2>1 DEF LaneInv, TypeOK
  <2>3. [status |-> "queued"] \in Reports
    BY DEF Reports
  <2> QED
    BY <2>2, <2>3, SecondReport, Zenon
<1>5. OneTerminalReport'
  <2> SUFFICES ASSUME NEW d \in Commands PROVE ReportsTellRow(d)'
    BY DEF OneTerminalReport
  <2>1. CASE d # c
    BY <2>1, Zenon DEF LaneInv, OneTerminalReport, ReportsTellRow, TypeOK
  <2>2. CASE d = c
    <3>1. capture'[d] = row
      BY <2>2 DEF LaneInv, TypeOK
    <3>2. CASE row.status = "unavailable"
      BY <3>1, <3>2, <2>2, <1>2, <1>4, Zenon DEF ReportsTellRow
    <3>3. CASE row.status = "resolved"
      BY <3>1, <3>3, <2>2, <1>4, Zenon DEF ReportsTellRow
    <3> QED
      BY <3>2, <3>3
  <2> QED
    BY <2>1, <2>2
<1> QED
  BY <1>1, <1>3, <1>5

(* A pass that goes on with its batch holds no outcome.                     *)
LEMMA NextClaimPreserves ==
  ASSUME LaneInv, NEW w \in Workers, NextClaim(w)
  PROVE  /\ worker' \in [Workers -> [claims : SUBSET Claims,
                                     current : Claims \cup {NoClaim},
                                     outcome : Outcomes \cup {NoOutcome}]]
         /\ OutcomesHaveClaims'
  BY ZenonT(30) DEF LaneInv, TypeOK, NextClaim, OutcomesHaveClaims

(* upsert_owner_source and remove_owner_source keep the types of the source *)
(* and of its facts.                                                        *)
LEMMA UpsertTypes ==
  ASSUME TypeOK, NEW c \in Commands, KeyOf[c] \in Keys, NEW content \in Contents,
         UpsertOwnerSource(c, content)
  PROVE  /\ source' \in [Keys -> Sources \cup {NoSource}]
         /\ facts' \in [Keys -> Seq(Facts)]
<1> DEFINE k == KeyOf[c]
           g == SourceGen(k)
           fact == [kind |-> FactKind(k), gen |-> g, content |-> content, by |-> c]
<1>1. g \in Nat \ {0}
  BY SourceGenType
<1>2. [gen |-> g, content |-> content, by |-> c] \in Sources
  BY <1>1 DEF Sources
<1>3. fact \in Facts
  BY <1>1 DEF Facts, FactKind
<1>4. CASE UNCHANGED <<source, facts>>
  BY <1>4 DEF TypeOK
<1>5. CASE /\ source' = [source EXCEPT ![k] = [gen |-> g, content |-> content, by |-> c]]
           /\ facts' = [facts EXCEPT ![k] = Append(@, fact)]
  <2> HIDE DEF g, fact
  <2> QED
    BY <1>2, <1>3, <1>5 DEF TypeOK
<1> QED
  BY <1>4, <1>5 DEF UpsertOwnerSource

(* The removal helper of terminate keeps the types of the owner's source    *)
(* and of its facts.                                                        *)
LEMMA RemoveTypes ==
  ASSUME TypeOK, NEW c \in Commands, KeyOf[c] \in Keys, RemoveOwnerSource(c)
  PROVE  /\ source' \in [Keys -> Sources \cup {NoSource}]
         /\ facts' \in [Keys -> Seq(Facts)]
<1> DEFINE k == KeyOf[c]
           fact == [kind |-> "removed", gen |-> source[k].gen, by |-> c,
                    seen |-> {d \in Commands : broker[d] # "unsent"}]
<1>1. CASE source[k] = NoSource
  BY <1>1 DEF RemoveOwnerSource, TypeOK
<1>2. CASE source[k] # NoSource
  <2>1. fact \in Facts
    BY <1>2, SourceShape DEF Facts, Sources
  <2>2. /\ source' = [source EXCEPT ![k] = NoSource]
        /\ facts' = [facts EXCEPT ![k] = Append(@, fact)]
    BY <1>2 DEF RemoveOwnerSource
  <2> HIDE DEF fact
  <2> QED
    BY <2>1, <2>2 DEF TypeOK
<1> QED
  BY <1>1, <1>2

-----------------------------------------------------------------------------
(* The facts of one key.                                                    *)

(* A key without a source has no fact, or a removal as its last one.        *)
LEMMA LastFact ==
  ASSUME NEW f \in Seq(Facts), NEW s, Replays(f, s)
  PROVE  /\ s = NoSource <=> Len(f) = 0 \/ f[Len(f)].kind = "removed"
         /\ s # NoSource => /\ Len(f) \in 1..Len(f)
                            /\ s = [gen |-> f[Len(f)].gen, content |-> f[Len(f)].content,
                                    by |-> f[Len(f)].by]
<1> DEFINE n == Len(f)
           told == [gen |-> f[n].gen, content |-> f[n].content, by |-> f[n].by]
<1>1. n \in Nat /\ \A i \in 1..n : f[i] \in Facts
  BY ListShape
<1>2. n # 0 => told # NoSource
  <2> SUFFICES ASSUME n # 0, told = NoSource PROVE FALSE
    OBVIOUS
  <2>1. f[n].gen \in Nat \ {0}
    BY <1>1, FactShape
  <2>2. told.gen = NoSource.gen
    OBVIOUS
  <2> QED
    BY <2>1, <2>2 DEF NoSource
<1> QED
  BY <1>1, <1>2 DEF Replays

(* The three ways a fact is queued: a capture under a fresh identity, an    *)
(* update with other content, a removal of what is there.                   *)
Follows(f, s, x) ==
  \/ s = NoSource /\ x.kind = "captured" /\ \A j \in DOMAIN f : f[j].gen < x.gen
  \/ s # NoSource /\ x.kind = "updated" /\ x.gen = s.gen /\ x.content # s.content
  \/ s # NoSource /\ x.kind = "removed" /\ x.gen = s.gen

Leaves(x) ==
  IF x.kind = "removed" THEN NoSource
  ELSE [gen |-> x.gen, content |-> x.content, by |-> x.by]

LEMMA ReplayGrows ==
  ASSUME NEW f \in Seq(Facts), NEW s, Replays(f, s), NEW x \in Facts, Follows(f, s, x)
  PROVE  Replays(Append(f, x), Leaves(x))
<1> DEFINE n == Len(f)
           g == Append(f, x)
<1>1. /\ n \in Nat /\ Len(g) = n + 1 /\ g[n + 1] = x /\ DOMAIN f = 1..n
      /\ \A i \in 1..n : g[i] = f[i] /\ f[i] \in Facts
  BY Appended
<1> HIDE DEF g
<1>2. ASSUME NEW i \in 1..n
      PROVE  IF i = 1 \/ g[i-1].kind = "removed"
               THEN /\ g[i].kind = "captured"
                    /\ \A j \in 1..(i-1) : g[j].gen < g[i].gen
               ELSE /\ g[i].kind # "captured"
                    /\ g[i].gen = g[i-1].gen
                    /\ g[i].kind = "updated" => g[i].content # g[i-1].content
  <2>1. g[i] = f[i] /\ (i # 1 => g[i-1] = f[i-1])
    BY <1>1
  <2>2. \A j \in 1..(i-1) : g[j] = f[j]
    BY <1>1
  <2> QED
    BY <2>1, <2>2 DEF Replays
<1>3. IF n + 1 = 1 \/ g[n].kind = "removed"
        THEN /\ x.kind = "captured"
             /\ \A j \in 1..n : g[j].gen < x.gen
        ELSE /\ x.kind # "captured"
             /\ x.gen = g[n].gen
             /\ x.kind = "updated" => x.content # g[n].content
  <2>1. CASE s = NoSource
    <3>1. n + 1 = 1 \/ g[n].kind = "removed"
      BY <2>1, <1>1, LastFact
    <3>2. x.kind = "captured" /\ \A j \in 1..n : f[j].gen < x.gen
      BY <2>1, <1>1 DEF Follows
    <3> QED
      BY <3>1, <3>2, <1>1
  <2>2. CASE s # NoSource
    <3>1. /\ n \in 1..n /\ f[n].kind # "removed"
          /\ s = [gen |-> f[n].gen, content |-> f[n].content, by |-> f[n].by]
      BY <2>2, <1>1, LastFact
    <3>2. /\ x.kind # "captured" /\ x.gen = s.gen
          /\ x.kind = "updated" => x.content # s.content
      BY <2>2 DEF Follows
    <3> QED
      BY <3>1, <3>2, <1>1
  <2> QED
    BY <2>1, <2>2
<1>4. ASSUME NEW i \in 1..(n + 1)
      PROVE  IF i = 1 \/ g[i-1].kind = "removed"
               THEN /\ g[i].kind = "captured"
                    /\ \A j \in 1..(i-1) : g[j].gen < g[i].gen
               ELSE /\ g[i].kind # "captured"
                    /\ g[i].gen = g[i-1].gen
                    /\ g[i].kind = "updated" => g[i].content # g[i-1].content
  <2>1. CASE i \in 1..n
    BY <2>1, <1>2
  <2>2. CASE i = n + 1
    <3>1. i - 1 = n /\ g[i] = x /\ (i = 1 <=> n + 1 = 1)
      BY <2>2, <1>1
    <3> QED
      BY <3>1, <1>3
  <2> QED
    BY <1>1, <2>1, <2>2
<1>5. Leaves(x) = IF Len(g) = 0 \/ g[Len(g)].kind = "removed" THEN NoSource
                  ELSE [gen |-> g[Len(g)].gen, content |-> g[Len(g)].content,
                        by |-> g[Len(g)].by]
  BY <1>1 DEF Leaves
<1> QED
  BY <1>1, <1>4, <1>5 DEF Replays, g

(* A queued fact keeps the identities counted and the captures in place.    *)
LEMMA GensGrow ==
  ASSUME NEW f \in Seq(Facts), NEW x \in Facts, GensAreCounted(f),
         x.gen <= Captures(Append(f, x))
  PROVE  GensAreCounted(Append(f, x))
<1>1. /\ Captures(f) \in Nat
      /\ Captures(Append(f, x)) \in {Captures(f), Captures(f) + 1}
  BY CapturesType, CapturesGrow
<1>2. ASSUME NEW i \in 1..Len(f)
      PROVE  Append(f, x)[i].gen <= Captures(Append(f, x))
  <2>1. Append(f, x)[i] = f[i] /\ f[i].gen \in Nat
    BY Appended, FactShape
  <2>2. f[i].gen <= Captures(f)
    BY Appended DEF GensAreCounted
  <2> QED
    BY <2>1, <2>2, <1>1
<1>3. \A i : i \in DOMAIN Append(f, x) <=> i \in 1..Len(f) \/ i = Len(f) + 1
  BY Appended
<1> QED
  BY <1>2, <1>3, Appended DEF GensAreCounted

LEMMA CapturedStays ==
  ASSUME NEW f \in Seq(Facts), NEW x \in Facts, NEW g, CapturedIn(f, g)
  PROVE  CapturedIn(Append(f, x), g)
<1>1. PICK i \in DOMAIN f : f[i].kind = "captured" /\ f[i].gen = g
  BY DEF CapturedIn
<1>2. i \in DOMAIN Append(f, x) /\ Append(f, x)[i] = f[i]
  BY Appended
<1> QED
  BY <1>1, <1>2 DEF CapturedIn

LEMMA CapturedNow ==
  ASSUME NEW f \in Seq(Facts), NEW x \in Facts, x.kind = "captured"
  PROVE  CapturedIn(Append(f, x), x.gen)
<1>1. Len(f) + 1 \in DOMAIN Append(f, x) /\ Append(f, x)[Len(f) + 1] = x
  BY Appended
<1> QED
  BY <1>1 DEF CapturedIn

(* A capture that has not been reported has caused no fact.                 *)
LEMMA UntoldYet ==
  ASSUME LaneInv, NEW c \in Commands, capture[c].status = "none" \/ Guarded(c),
         NEW x \in Facts
  PROVE  ~Tells(reports[c], x)
<1>1. CASE capture[c].status = "none"
  BY <1>1, Zenon DEF LaneInv, OneTerminalReport, ReportsTellRow, Tells
<1>2. CASE Guarded(c)
  <2>1. reports[c] = <<[status |-> "queued"]>>
    BY <1>2, Zenon DEF LaneInv, OneTerminalReport, ReportsTellRow, Guarded
  <2>2. Len(reports[c]) = 1 /\ reports[c][1].status = "queued"
    BY <2>1
  <2> QED
    BY <2>2 DEF Tells
<1> QED
  BY <1>1, <1>2

(* What FactsInv says of the keys alone, whatever the rows are.             *)
KeysAreTold ==
  /\ FactsReplaySource /\ EveryFactHasItsReport
  /\ \A k \in Keys :
       /\ GensAreCounted(facts[k])
       /\ source[k] # NoSource => CapturedIn(facts[k], source[k].gen)

(* A step that queues no fact keeps the facts of every key true.            *)
LEMMA FactsStand ==
  ASSUME LaneInv, FactsInv, UNCHANGED <<source, facts>>,
         \A d \in Commands : \/ reports'[d] = reports[d]
                             \/ capture[d].status = "none" \/ Guarded(d)
  PROVE  KeysAreTold'
<1>1. FactsReplaySource'
  BY DEF FactsInv, FactsReplaySource
<1>2. EveryFactHasItsReport'
  <2> SUFFICES ASSUME NEW k \in Keys, NEW i \in DOMAIN facts'[k]
               PROVE  /\ KeyOf[facts'[k][i].by] = k
                      /\ Tells(reports'[facts'[k][i].by], facts'[k][i])
                      /\ \A j \in DOMAIN facts'[k] :
                           facts'[k][j].by = facts'[k][i].by => j = i
    BY DEF EveryFactHasItsReport
  <2>1. i \in DOMAIN facts[k]
    OBVIOUS
  <2>2. /\ KeyOf[facts[k][i].by] = k
        /\ Tells(reports[facts[k][i].by], facts[k][i])
        /\ \A j \in DOMAIN facts[k] : facts[k][j].by = facts[k][i].by => j = i
    BY <2>1 DEF FactsInv, EveryFactHasItsReport
  <2>3. facts[k][i] \in Facts
    BY <2>1, ListShape DEF LaneInv, TypeOK
  <2>4. reports'[facts[k][i].by] = reports[facts[k][i].by]
    BY <2>2, <2>3, FactShape, UntoldYet
  <2> QED
    BY <2>2, <2>4
<1>3. ASSUME NEW k \in Keys
      PROVE  /\ GensAreCounted(facts'[k])
             /\ source'[k] # NoSource => CapturedIn(facts'[k], source'[k].gen)
  BY DEF FactsInv
<1> QED
  BY <1>1, <1>2, <1>3 DEF KeysAreTold

(* A guarded outcome that queues a fact together with its report.           *)
LEMMA FactQueued ==
  ASSUME LaneInv, FactsInv, NEW c \in Commands, Guarded(c), NEW k \in Keys, KeyOf[c] = k,
         NEW x \in Facts, x.by = c, Follows(facts[k], source[k], x),
         x.gen <= Captures(Append(facts[k], x)),
         source' = [source EXCEPT ![k] = Leaves(x)],
         facts' = [facts EXCEPT ![k] = Append(@, x)],
         NEW r \in Reports, reports' = [reports EXCEPT ![c] = Append(@, r)],
         r = IF x.kind = "removed" THEN [status |-> "deleted"]
             ELSE [status |-> "preserved", gen |-> x.gen]
  PROVE  KeysAreTold'
<1> DEFINE f == facts[k]
<1>1. f \in Seq(Facts) /\ Replays(f, source[k])
  <2>1. facts \in [Keys -> Seq(Facts)] /\ FactsReplaySource
    BY Zenon DEF LaneInv, TypeOK, FactsInv
  <2> QED
    BY <2>1, Zenon DEF FactsReplaySource
<1>2. /\ facts'[k] = Append(f, x) /\ source'[k] = Leaves(x)
      /\ \A q \in Keys : q # k => facts'[q] = facts[q] /\ source'[q] = source[q]
  BY DEF LaneInv, TypeOK
<1>3. FactsReplaySource'
  <2>1. Replays(facts'[k], source'[k])
    BY <1>1, <1>2, ReplayGrows, SMTT(30)
  <2>2. \A q \in Keys : q # k => Replays(facts'[q], source'[q])
    BY <1>2, SMTT(30) DEF FactsInv, FactsReplaySource
  <2> QED
    BY <2>1, <2>2 DEF FactsReplaySource
<1>4. /\ reports'[c] # <<>> /\ reports'[c][Len(reports'[c])] = r
      /\ \A d \in Commands : d # c => reports'[d] = reports[d]
  <2>1. reports[c] \in Seq(Reports) /\ reports'[c] = Append(reports[c], r)
    BY DEF LaneInv, TypeOK
  <2>2. reports'[c] # <<>> /\ reports'[c][Len(reports'[c])] = r
    <3> HIDE DEF Reports
    <3>1. /\ Append(reports[c], r) # <<>> /\ Len(Append(reports[c], r)) = Len(reports[c]) + 1
          /\ Append(reports[c], r)[Len(reports[c]) + 1] = r
      BY <2>1, ListGrows, SMTT(30)
    <3> QED
      BY <2>1, <3>1
  <2>3. reports \in [Commands -> Seq(Reports)]
    BY Zenon DEF LaneInv, TypeOK
  <2>4. \A d \in Commands : d # c => reports'[d] = reports[d]
    BY <2>3
  <2> QED
    BY <2>2, <2>4, Zenon
<1>5. ASSUME NEW q \in Keys, NEW i \in DOMAIN facts[q]
      PROVE  /\ facts[q][i].by \in Commands /\ facts[q][i].by # c
             /\ KeyOf[facts[q][i].by] = q
             /\ Tells(reports'[facts[q][i].by], facts[q][i])
             /\ \A j \in DOMAIN facts[q] : facts[q][j].by = facts[q][i].by => j = i
  <2>1. /\ KeyOf[facts[q][i].by] = q
        /\ Tells(reports[facts[q][i].by], facts[q][i])
        /\ \A j \in DOMAIN facts[q] : facts[q][j].by = facts[q][i].by => j = i
    BY DEF FactsInv, EveryFactHasItsReport
  <2>2. facts[q][i] \in Facts
    BY ListShape, SMTT(30) DEF LaneInv, TypeOK
  <2>3. facts[q][i].by \in Commands /\ facts[q][i].by # c
    BY <2>1, <2>2, FactShape, UntoldYet
  <2> QED
    BY <2>1, <2>3, <1>4, ZenonT(30)
<1>6. EveryFactHasItsReport'
  <2> SUFFICES ASSUME NEW q \in Keys, NEW i \in DOMAIN facts'[q]
               PROVE  /\ KeyOf[facts'[q][i].by] = q
                      /\ Tells(reports'[facts'[q][i].by], facts'[q][i])
                      /\ \A j \in DOMAIN facts'[q] :
                           facts'[q][j].by = facts'[q][i].by => j = i
    BY Zenon DEF EveryFactHasItsReport
  <2>1. CASE q # k
    <3>1. facts'[q] = facts[q]
      BY <1>2, <2>1, Zenon
    <3>2. i \in DOMAIN facts[q]
      BY <3>1
    <3>3. /\ KeyOf[facts[q][i].by] = q
          /\ Tells(reports'[facts[q][i].by], facts[q][i])
          /\ \A j \in DOMAIN facts[q] : facts[q][j].by = facts[q][i].by => j = i
      BY <1>5, <3>2
    <3> QED
      BY <3>1, <3>3
  <2>2. CASE q = k
    <3>1. /\ \A j : j \in DOMAIN facts'[q] <=> j \in DOMAIN f \/ j = Len(f) + 1
          /\ \A j \in DOMAIN f : facts'[q][j] = f[j]
          /\ facts'[q][Len(f) + 1] = x /\ Len(f) + 1 \notin DOMAIN f
      BY <1>1, <1>2, <2>2, Appended, SMTT(30)
    <3>2. Tells(reports'[c], x)
      BY <1>4, SMTT(30) DEF Tells
    <3>3. CASE i \in DOMAIN f
      <4>1. /\ facts'[q][i] = f[i] /\ KeyOf[f[i].by] = k /\ f[i].by # c
            /\ Tells(reports'[f[i].by], f[i])
            /\ \A j \in DOMAIN f : f[j].by = f[i].by => j = i
        <5>1. facts'[q][i] = f[i]
          BY <3>1, <3>3, Zenon
        <5>2. /\ KeyOf[f[i].by] = k /\ f[i].by # c
              /\ Tells(reports'[f[i].by], f[i])
              /\ \A j \in DOMAIN f : f[j].by = f[i].by => j = i
          <6>1. f = facts[k] /\ k \in Keys
            BY <2>2
          <6> HIDE DEF f
          <6> QED
            BY <1>5, <3>3, <6>1
        <5> QED
          BY <5>1, <5>2
      <4>2. ASSUME NEW j \in DOMAIN facts'[q], facts'[q][j].by = f[i].by
            PROVE  j = i
        <5>1. CASE j \in DOMAIN f
          BY <3>1, <4>1, <4>2, <5>1, Zenon
        <5>2. CASE j = Len(f) + 1
          BY <3>1, <4>1, <4>2, <5>2, ZenonT(30)
        <5> QED
          BY <3>1, <4>2, <5>1, <5>2, Zenon
      <4> QED
        BY <2>2, <4>1, <4>2, ZenonT(30)
    <3>4. CASE i = Len(f) + 1
      <4>1. facts'[q][i] = x
        BY <3>1, <3>4, SMTT(30)
      <4>2. ASSUME NEW j \in DOMAIN facts'[q], facts'[q][j].by = c
            PROVE  j = i
        <5>1. \A m \in DOMAIN f : facts'[q][m].by # c
          <6>1. \A m \in DOMAIN f : f[m].by # c
            BY <1>5
          <6> QED
            BY <3>1, <6>1, ZenonT(30)
        <5> QED
          BY <3>1, <3>4, <4>2, <5>1
      <4> QED
        BY <2>2, <3>2, <4>1, <4>2, SMTT(30)
    <3> QED
      BY <3>1, <3>3, <3>4, ZenonT(30)
  <2> QED
    BY <2>1, <2>2, ZenonT(30)
<1>7. GensAreCounted(facts'[k])
  <2>1. GensAreCounted(f)
    BY DEF FactsInv
  <2>2. GensAreCounted(Append(f, x))
    BY <1>1, <2>1, GensGrow, SMTT(30)
  <2> QED
    BY <1>2, <2>2
<1>8. source'[k] # NoSource => CapturedIn(facts'[k], source'[k].gen)
  <2> SUFFICES ASSUME source'[k] # NoSource PROVE CapturedIn(facts'[k], source'[k].gen)
    OBVIOUS
  <2>1. x.kind # "removed" /\ source'[k].gen = x.gen
    BY <1>2, SMTT(30) DEF Leaves
  <2>2. CASE x.kind = "captured"
    BY <2>1, <2>2, <1>1, <1>2, CapturedNow, SMTT(30)
  <2>3. CASE x.kind = "updated"
    <3>1. source[k] # NoSource /\ x.gen = source[k].gen
      BY <2>3 DEF Follows
    <3>2. CapturedIn(f, x.gen)
      BY <3>1 DEF FactsInv
    <3> QED
      BY <2>1, <3>2, <1>1, <1>2, CapturedStays, SMTT(30)
  <2> QED
    BY <2>1, <2>2, <2>3, FactShape, SMTT(30)
<1>9. \A q \in Keys : q # k => /\ GensAreCounted(facts'[q])
                               /\ source'[q] # NoSource =>
                                    CapturedIn(facts'[q], source'[q].gen)
  BY <1>2 DEF FactsInv
<1> QED
  BY <1>3, <1>6, <1>7, <1>8, <1>9, SMTT(30) DEF KeysAreTold

(* Every resolved row keeps its captured fact.                              *)
LEMMA BackedStays ==
  ASSUME LaneInv, LaneInv', PreservedIsBacked,
         \A k \in Keys, g \in Nat : CapturedIn(facts[k], g) => CapturedIn(facts'[k], g),
         \A d \in Commands : capture'[d].status = "resolved" =>
           \/ capture[d].status = "resolved" /\ capture'[d].gen = capture[d].gen
           \/ CapturedIn(facts'[KeyOf[d]], capture'[d].gen)
  PROVE  PreservedIsBacked'
<1> SUFFICES ASSUME NEW d \in Commands, capture'[d].status = "resolved"
             PROVE  CapturedIn(facts'[KeyOf[d]], capture'[d].gen)
  BY DEF PreservedIsBacked, CapturedIn
<1>1. CASE capture[d].status = "resolved" /\ capture'[d].gen = capture[d].gen
  <2>1. CapturedIn(facts[KeyOf[d]], capture[d].gen)
    BY <1>1 DEF PreservedIsBacked, CapturedIn
  <2>2. KeyOf[d] \in Keys
    BY <1>1 DEF LaneInv, RowsAreClaimed
  <2>3. capture[d].gen \in Nat
    BY <1>1, RowShape DEF LaneInv, Rows
  <2> QED
    BY <1>1, <2>1, <2>2, <2>3
<1> QED
  BY <1>1

(* The captured facts of this state are facts of the next one.              *)
CapturesStay ==
  \A k \in Keys, g \in Nat : CapturedIn(facts[k], g) => CapturedIn(facts'[k], g)

(* The identity of a stored source is among the counted ones.               *)
LEMMA StoredGenCounted ==
  ASSUME LaneInv, FactsInv, NEW k \in Keys, source[k] # NoSource
  PROVE  source[k].gen <= Captures(facts[k])
<1>1. GensAreCounted(facts[k]) /\ CapturedIn(facts[k], source[k].gen)
  BY DEF FactsInv
<1> QED
  BY <1>1 DEF GensAreCounted, CapturedIn

(* A fact queued under one key leaves every capture in place.               *)
LEMMA CapturesKept ==
  ASSUME LaneInv, NEW k \in Keys, NEW x \in Facts,
         facts' = [facts EXCEPT ![k] = Append(@, x)]
  PROVE  CapturesStay
<1> SUFFICES ASSUME NEW q \in Keys, NEW g \in Nat, CapturedIn(facts[q], g)
             PROVE  CapturedIn(facts'[q], g)
  BY DEF CapturesStay
<1>1. CASE q = k
  <2>1. facts[k] \in Seq(Facts) /\ facts'[q] = Append(facts[k], x)
    BY <1>1 DEF LaneInv, TypeOK
  <2> QED
    BY <1>1, <2>1, CapturedStays
<1>2. CASE q # k
  <2>1. facts'[q] = facts[q]
    BY <1>2 DEF LaneInv, TypeOK
  <2> QED
    BY <2>1
<1> QED
  BY <1>1, <1>2

(* upsert_owner_source queues the fact that follows, under the identity the *)
(* report names, or finds the digest unchanged.                             *)
LEMMA UpsertTells ==
  ASSUME LaneInv, FactsInv, NEW c \in Commands, Guarded(c), NEW k \in Keys, KeyOf[c] = k,
         NEW content \in Contents, UpsertOwnerSource(c, content),
         NEW r \in Reports, r = [status |-> "preserved", gen |-> SourceGen(k)],
         reports' = [reports EXCEPT ![c] = Append(@, r)]
  PROVE  KeysAreTold' /\ CapturesStay /\ CapturedIn(facts'[k], SourceGen(k))
<1> DEFINE f == facts[k]
<1>1. f \in Seq(Facts) /\ Captures(f) \in Nat /\ TypeOK
  BY CapturesType DEF LaneInv, TypeOK
<1>2. PICK g \in Nat \ {0} : g = SourceGen(k)
  BY <1>1, SourceGenType
<1>3. CASE source[k] # NoSource /\ source[k].content = content
  <2>1. UNCHANGED <<source, facts>>
    BY <1>3 DEF UpsertOwnerSource
  <2>2. \A d \in Commands : \/ reports'[d] = reports[d]
                            \/ capture[d].status = "none" \/ Guarded(d)
    BY DEF LaneInv, TypeOK
  <2>3. KeysAreTold'
    BY <2>1, <2>2, FactsStand, SMTT(30)
  <2>4. CapturesStay
    BY <2>1, ZenonT(30) DEF CapturesStay
  <2>5. CapturedIn(facts'[k], SourceGen(k))
    BY <1>3, <2>1 DEF FactsInv, SourceGen
  <2> QED
    BY <2>3, <2>4, <2>5
<1>4. CASE ~(source[k] # NoSource /\ source[k].content = content)
  <2> DEFINE x == [kind |-> FactKind(k), gen |-> g, content |-> content, by |-> c]
  <2>1. x \in Facts
    BY <1>2 DEF Facts, FactKind
  <2>2. /\ source' = [source EXCEPT ![k] = [gen |-> g, content |-> content, by |-> c]]
        /\ facts' = [facts EXCEPT ![k] = Append(@, x)]
    BY <1>2, <1>4, SMTT(30) DEF UpsertOwnerSource
  <2>3. /\ x.by = c /\ x.gen = g /\ x.content = content /\ x.kind = FactKind(k)
        /\ x.kind # "removed"
    BY DEF FactKind
  <2>4. /\ source' = [source EXCEPT ![k] = Leaves(x)]
        /\ facts' = [facts EXCEPT ![k] = Append(@, x)]
    BY <2>2, <2>3 DEF Leaves
  <2>5. r = IF x.kind = "removed" THEN [status |-> "deleted"]
            ELSE [status |-> "preserved", gen |-> x.gen]
    BY <1>2, <2>3, Zenon
  <2> HIDE DEF x
  <2>6. CASE source[k] = NoSource
    <3>1. g = 1 + Captures(f) /\ x.kind = "captured"
      <4>1. SourceGen(k) = FreshGen(k) /\ FactKind(k) = "captured"
        BY <2>6, Zenon DEF SourceGen, FactKind
      <4>2. FreshGen(k) = 1 + Captures(f)
        BY DEF FreshGen
      <4> QED
        BY <1>2, <2>3, <4>1, <4>2, Zenon
    <3>2. \A j \in DOMAIN f : f[j].gen < x.gen
      <4> SUFFICES ASSUME NEW j \in DOMAIN f PROVE f[j].gen < x.gen
        OBVIOUS
      <4>1. f[j] \in Facts
        BY <1>1, ListShape, SMTT(30)
      <4>2. f[j].gen \in Nat /\ f[j].gen <= Captures(f)
        BY <4>1, FactShape, SMTT(30) DEF FactsInv, GensAreCounted
      <4> QED
        BY <4>2, <3>1, <2>3, <1>1, SMTT(30)
    <3>3. Follows(f, source[k], x)
      BY <2>6, <3>1, <3>2 DEF Follows
    <3>4. x.gen <= Captures(Append(f, x))
      <4>1. Captures(Append(f, x)) = Captures(f) + 1
        BY <1>1, <2>1, <3>1, CapturesGrow, SMTT(30)
      <4>2. PICK n \in Nat : n = Captures(f)
        BY <1>1
      <4>3. x.gen = 1 + n /\ Captures(Append(f, x)) = n + 1
        BY <2>3, <3>1, <4>1, <4>2, Zenon
      <4> QED
        BY <4>3
    <3>5. KeysAreTold'
      BY <2>1, <2>3, <2>4, <2>5, <3>3, <3>4, FactQueued, ZenonT(30)
    <3>6. CapturedIn(facts'[k], g)
      <4>1. facts'[k] = Append(f, x)
        BY <2>2 DEF LaneInv, TypeOK
      <4> QED
        <5>1. CapturedIn(Append(f, x), x.gen)
          BY <1>1, <2>1, <3>1, CapturedNow, Zenon
        <5> QED
          BY <2>3, <4>1, <5>1, Zenon
    <3> QED
      BY <1>2, <2>1, <2>2, <3>5, <3>6, CapturesKept, ZenonT(30)
  <2>7. CASE source[k] # NoSource
    <3>1. g = source[k].gen /\ x.kind = "updated" /\ source[k].content # content
      BY <1>2, <1>4, <2>3, <2>7, ZenonT(30) DEF SourceGen, FactKind
    <3>2. Follows(f, source[k], x)
      BY <2>3, <2>7, <3>1, Zenon DEF Follows
    <3>3. x.gen <= Captures(Append(f, x))
      <4>1. PICK n \in Nat : n = Captures(f)
        BY <1>1, Zenon
      <4>2. Captures(Append(f, x)) = n
        <5>1. x.kind # "captured"
          BY <3>1
        <5> QED
          BY <1>1, <2>1, <4>1, <5>1, CapturesGrow, Zenon
      <4>3. x.gen <= Captures(f)
        BY <2>3, <2>7, <3>1, StoredGenCounted, Zenon
      <4> QED
        BY <4>1, <4>2, <4>3, Zenon
    <3>4. KeysAreTold'
      BY <2>1, <2>3, <2>4, <2>5, <3>2, <3>3, FactQueued, Zenon
    <3>5. CapturesStay
      BY <2>1, <2>2, CapturesKept, Zenon
    <3>6. CapturedIn(f, g)
      BY <2>7, <3>1, SMTT(30) DEF FactsInv
    <3> QED
      BY <1>2, <3>4, <3>5, <3>6, ZenonT(30) DEF CapturesStay
  <2> QED
    BY <2>6, <2>7, SMTT(30)
<1> QED
  BY <1>3, <1>4

(* A deletion removes the stored source with its last fact, or finds none.  *)
LEMMA RemovalTells ==
  ASSUME LaneInv, FactsInv, NEW c \in Commands, Guarded(c), NEW k \in Keys, KeyOf[c] = k,
         RemoveOwnerSource(c), NEW r \in Reports, r = [status |-> "deleted"],
         reports' = [reports EXCEPT ![c] = Append(@, r)]
  PROVE  KeysAreTold' /\ CapturesStay
<1> DEFINE f == facts[k]
<1>1. f \in Seq(Facts) /\ Captures(f) \in Nat
  BY CapturesType DEF LaneInv, TypeOK
<1>2. CASE source[k] = NoSource
  <2>1. UNCHANGED <<source, facts>>
    BY <1>2 DEF RemoveOwnerSource
  <2>2. \A d \in Commands : \/ reports'[d] = reports[d]
                            \/ capture[d].status = "none" \/ Guarded(d)
    BY DEF LaneInv, TypeOK
  <2>3. KeysAreTold'
    BY <2>1, <2>2, FactsStand
  <2> QED
    BY <2>1, <2>3 DEF CapturesStay
<1>3. CASE source[k] # NoSource
  <2> DEFINE seen == {d \in Commands : broker[d] # "unsent"}
             x == [kind |-> "removed", gen |-> source[k].gen, by |-> c, seen |-> seen]
  <2>1. source[k].gen \in Nat \ {0}
    BY <1>3, SourceShape, SMTT(30) DEF LaneInv, Sources
  <2>2. x \in Facts
    BY <2>1 DEF Facts
  <2>3. /\ source' = [source EXCEPT ![k] = NoSource]
        /\ facts' = [facts EXCEPT ![k] = Append(@, x)]
    BY <1>3, ZenonT(30) DEF RemoveOwnerSource
  <2>4. x.by = c /\ x.gen = source[k].gen /\ x.kind = "removed"
    OBVIOUS
  <2>5. r = IF x.kind = "removed" THEN [status |-> "deleted"]
            ELSE [status |-> "preserved", gen |-> x.gen]
    BY <2>4, ZenonT(30)
  <2> HIDE DEF x, seen
  <2>6. /\ source' = [source EXCEPT ![k] = Leaves(x)]
        /\ facts' = [facts EXCEPT ![k] = Append(@, x)]
        /\ Follows(f, source[k], x)
    BY <1>3, <2>3, <2>4 DEF Leaves, Follows
  <2>7. x.gen <= Captures(Append(f, x))
    BY <1>1, <1>3, <2>1, <2>2, <2>4, CapturesGrow, StoredGenCounted, ZenonT(30)
  <2>8. KeysAreTold'
    BY <2>2, <2>4, <2>5, <2>6, <2>7, FactQueued, Zenon
  <2> QED
    BY <2>2, <2>3, <2>8, CapturesKept, ZenonT(30)
<1> QED
  BY <1>2, <1>3

-----------------------------------------------------------------------------
(* claim_due takes a batch of due rows and pushes their next attempt out.   *)
LEMMA ClaimDuePreserves ==
  ASSUME LaneInv, NEW w \in Workers, ClaimDue(w)
  PROVE  LaneInv'
<1>1. PICK batch \in SUBSET Due :
        /\ capture' = [c \in Commands |->
                         IF c \in batch THEN [capture[c] EXCEPT !.wait = Lease]
                                        ELSE capture[c]]
        /\ worker' = [worker EXCEPT ![w].claims =
                        {[command |-> c, attempts |-> capture[c].attempts] : c \in batch}]
  BY Zenon DEF ClaimDue
<1>2. \A c \in batch : c \in Commands /\ capture[c].status = "accepted"
  BY DEF Due
<1>3. \A c \in batch : [command |-> c, attempts |-> capture[c].attempts] \in Claims
  BY <1>2, RowShape DEF LaneInv, Rows, Claims
<1>4. /\ capture' \in [Commands -> Rows \cup {NoRow}]
      /\ RowsAreClaimed' /\ OneTerminalReport'
  <2> DEFINE wait == [c \in Commands |-> Lease]
  <2>1. wait \in [Commands -> Nat] /\ batch \in SUBSET Commands
    BY <1>2, LaneAssumption
  <2>2. capture' = [c \in Commands |->
                      IF c \in batch THEN [capture[c] EXCEPT !.wait = wait[c]] ELSE capture[c]]
    BY <1>1
  <2>3. UNCHANGED <<broker, inbox, source, reports, facts, abandons>>
    BY DEF ClaimDue
  <2> HIDE DEF wait
  <2> QED
    BY <1>2, <2>1, <2>2, <2>3, WaitsPreserve, Zenon
<1>5. TypeOK'
  <2> DEFINE new == {[command |-> c, attempts |-> capture[c].attempts] : c \in batch}
  <2>1. new \in SUBSET Claims
    BY <1>3
  <2>2. worker' = [worker EXCEPT ![w].claims = new]
    BY <1>1
  <2> HIDE DEF new
  <2> QED
    BY <2>1, <2>2, <1>4, ZenonT(30) DEF ClaimDue, LaneInv, TypeOK
<1>6. OutcomesHaveClaims'
  BY <1>1 DEF LaneInv, OutcomesHaveClaims, TypeOK
<1> QED
  BY <1>4, <1>5, <1>6 DEF LaneInv

(* Time moves only the waits.                                               *)
LEMMA TickPreserves ==
  ASSUME LaneInv, Tick
  PROVE  LaneInv'
<1> DEFINE S == {c \in Commands : capture[c].status = "accepted" /\ capture[c].wait > 0}
           wait == [c \in Commands |-> IF c \in S THEN capture[c].wait - 1 ELSE 0]
<1>1. \A c \in S : capture[c] \in Rows
  BY RowShape DEF LaneInv
<1>2. wait \in [Commands -> Nat]
  BY <1>1 DEF Rows
<1>3. capture' = [c \in Commands |->
                    IF c \in S THEN [capture[c] EXCEPT !.wait = wait[c]] ELSE capture[c]]
  BY DEF Tick
<1>4. UNCHANGED <<broker, inbox, source, reports, facts, worker, abandons>>
  BY DEF Tick
<1>5. S \in SUBSET Commands /\ \A c \in S : capture[c].status = "accepted"
  OBVIOUS
<1> HIDE DEF S, wait
<1>6. /\ capture' \in [Commands -> Rows \cup {NoRow}]
      /\ RowsAreClaimed' /\ OneTerminalReport'
  BY <1>2, <1>3, <1>4, <1>5, WaitsPreserve, Zenon
<1>7. TypeOK' /\ OutcomesHaveClaims'
  BY <1>4, <1>6 DEF LaneInv, TypeOK, OutcomesHaveClaims
<1> QED
  BY <1>6, <1>7 DEF LaneInv

(* An answer belongs to the claim it was asked for.                         *)
LEMMA ResolvePreserves ==
  ASSUME LaneInv, NEW w \in Workers, Resolve(w)
  PROVE  LaneInv'
<1>1. PICK claim \in worker[w].claims, answer \in Answers :
        worker' = [worker EXCEPT ![w] =
                     [claims |-> @.claims \ {claim}, current |-> claim,
                      outcome |-> Classify(answer)]]
  BY Zenon DEF Resolve
<1>2. claim \in Claims /\ Classify(answer) \in Outcomes
  BY ClassifyType DEF LaneInv, TypeOK
<1>3. TypeOK'
  BY <1>1, <1>2 DEF Resolve, LaneInv, TypeOK
<1>4. OutcomesHaveClaims'
  BY <1>1, <1>2 DEF LaneInv, OutcomesHaveClaims, TypeOK
<1>5. RowsAreClaimed' /\ OneTerminalReport'
  BY Zenon DEF Resolve, LaneInv, RowsAreClaimed, OneTerminalReport, ReportsTellRow
<1> QED
  BY <1>3, <1>4, <1>5 DEF LaneInv

(* A deferred capture stays queued, unreported, with another wait.          *)
LEMMA DeferPreserves ==
  ASSUME LaneInv, NEW w \in Workers, Defer(w)
  PROVE  LaneInv'
<1> DEFINE claim == worker[w].current
           c == claim.command
<1>1. claim \in Claims /\ c \in Commands /\ claim.attempts \in Nat
  <2>1. worker[w].outcome # NoOutcome
    BY DEF Defer, NoOutcome
  <2>2. claim \in Claims
    BY <2>1, Zenon DEF LaneInv, OutcomesHaveClaims
  <2> QED
    BY <2>2 DEF Claims
<1>2. UNCHANGED <<broker, inbox, source, reports, facts, abandons>> /\ NextClaim(w)
  BY DEF Defer
<1>3. /\ capture' \in [Commands -> Rows \cup {NoRow}]
      /\ RowsAreClaimed' /\ OneTerminalReport'
  <2>1. CASE ~Guarded(c)
    <3>1. capture' = capture
      BY <2>1 DEF Defer
    <3> QED
      BY <3>1, <1>2, ZenonT(30)
       DEF LaneInv, TypeOK, RowsAreClaimed, OneTerminalReport, ReportsTellRow
  <2>2. CASE Guarded(c)
    <3> DEFINE delay == RetryDelay(claim.attempts + 1)
               row == [capture[c] EXCEPT !.attempts = @ + 1, !.wait = delay]
    <3>1. capture[c] \in Rows
      BY <1>1, <2>2, RowShape DEF LaneInv, Guarded
    <3>2. delay \in Nat
      BY <1>1, RetryDelayType
    <3>3. capture' = [capture EXCEPT ![c] = row]
      BY <2>2, Zenon DEF Defer
    <3>4. /\ row \in Rows /\ row.status = "accepted" /\ row.reported = capture[c].reported
          /\ capture[c].status = "accepted"
      <4>1. row \in Rows
        <5>1. capture[c].attempts + 1 \in Nat
          BY <3>1 DEF Rows
        <5> QED
          BY <3>1, <3>2, <5>1, Zenon DEF Rows
      <4>2. row.status = capture[c].status /\ row.reported = capture[c].reported
        BY <3>1 DEF Rows
      <4> QED
        BY <2>2, <4>1, <4>2 DEF Guarded
    <3> HIDE DEF row, c, delay
    <3>5. capture' \in [Commands -> Rows \cup {NoRow}]
      BY <3>3, <3>4, Zenon DEF LaneInv, TypeOK
    <3>6. \A d \in Commands : capture'[d] = IF d = c THEN row ELSE capture[d]
      BY <3>3 DEF LaneInv, TypeOK
    <3>7. RowsAreClaimed'
      BY <1>2, <3>4, <3>6 DEF LaneInv, RowsAreClaimed
    <3>8. OneTerminalReport'
      BY <1>2, <3>4, <3>6, ZenonT(30) DEF LaneInv, OneTerminalReport, ReportsTellRow
    <3> QED
      BY <3>5, <3>7, <3>8
  <2> QED
    BY <2>1, <2>2
<1>4. TypeOK' /\ OutcomesHaveClaims'
  BY <1>2, <1>3, NextClaimPreserves DEF LaneInv, TypeOK
<1> QED
  BY <1>3, <1>4 DEF LaneInv

(* The terminal outcomes: one guarded row, one report, and the source of an *)
(* owner's post.                                                            *)
LEMMA TerminatePreserves ==
  ASSUME LaneInv, NEW w \in Workers, Terminate(w)
  PROVE  LaneInv'
<1> DEFINE c == worker[w].current.command
           failure == worker[w].outcome.kind
<1>1. c \in Commands /\ failure \in Failures
  <2>1. failure \in Failures
    BY Zenon DEF Terminate
  <2>2. worker[w].outcome # NoOutcome
    BY <2>1 DEF NoOutcome, Failures
  <2>3. worker[w].current \in Claims
    BY <2>2 DEF LaneInv, OutcomesHaveClaims
  <2> QED
    BY <2>1, <2>3 DEF Claims
<1>2. UNCHANGED <<broker, inbox, abandons>> /\ NextClaim(w)
  BY Zenon DEF Terminate
<1>3. CASE ~Guarded(c)
  <2>1. UNCHANGED <<capture, source, facts, reports>>
    BY <1>3 DEF Terminate
  <2> QED
    BY <1>2, <2>1, NextClaimPreserves, Zenon
       DEF LaneInv, TypeOK, RowsAreClaimed, OneTerminalReport, ReportsTellRow
<1>4. CASE Guarded(c)
  <2> DEFINE row == [capture[c] EXCEPT !.status = "unavailable", !.attempts = @ + 1,
                                       !.reported = TRUE, !.wait = 0]
             report == [status |-> failure]
  <2>1. capture[c] \in Rows /\ KeyOf[c] \in Keys
    BY <1>1, <1>4, RowShape DEF LaneInv, Guarded, RowsAreClaimed
  <2>2. row \in Rows /\ row.reported = TRUE /\ row.status = "unavailable"
    <3>1. row \in Rows
      <4>1. capture[c].attempts + 1 \in Nat
        BY <2>1 DEF Rows
      <4> QED
        BY <2>1, <4>1, Zenon DEF Rows
    <3>2. row.reported = TRUE /\ row.status = "unavailable"
      BY <2>1 DEF Rows
    <3> QED
      BY <3>1, <3>2
  <2>3. report \in Reports /\ \E f \in Failures : report = [status |-> f]
    BY <1>1 DEF Reports
  <2>4. /\ capture' = [capture EXCEPT ![c] = row]
        /\ reports' = [reports EXCEPT ![c] = Append(@, report)]
    BY <1>4, Zenon DEF Terminate
  <2>5. /\ source' \in [Keys -> Sources \cup {NoSource}]
        /\ facts' \in [Keys -> Seq(Facts)]
    <3>1. CASE failure = "deleted"
      BY <1>1, <1>4, <2>1, <3>1, RemoveTypes, ZenonT(30) DEF Terminate, LaneInv
    <3>2. CASE failure # "deleted"
      BY <1>4, <3>2 DEF Terminate, LaneInv, TypeOK
    <3> QED
      BY <3>1, <3>2
  <2> HIDE DEF row, report, c
  <2>6. /\ capture' \in [Commands -> Rows \cup {NoRow}]
        /\ reports' \in [Commands -> Seq(Reports)]
        /\ RowsAreClaimed' /\ OneTerminalReport'
    BY <1>1, <1>2, <1>4, <2>2, <2>3, <2>4, FinishPreserves, ZenonT(30)
  <2>7. TypeOK' /\ OutcomesHaveClaims'
    BY <1>2, <2>5, <2>6, NextClaimPreserves DEF LaneInv, TypeOK
  <2> QED
    BY <2>6, <2>7 DEF LaneInv
<1> QED
  BY <1>3, <1>4

(* preserve finishes the row with the report that names its source.         *)
LEMMA PreservePreserves ==
  ASSUME LaneInv, NEW w \in Workers, Preserve(w)
  PROVE  LaneInv'
<1> DEFINE c == worker[w].current.command
           content == worker[w].outcome.content
           g == SourceGen(KeyOf[c])
<1>1. c \in Commands /\ content \in Contents
  <2>1. worker[w].outcome.kind = "post"
    BY Zenon DEF Preserve
  <2>2. worker[w].outcome # NoOutcome
    BY <2>1 DEF NoOutcome
  <2>3. worker[w].current \in Claims
    BY <2>2 DEF LaneInv, OutcomesHaveClaims
  <2>4. worker[w].outcome \in Outcomes
    BY <2>2 DEF LaneInv, TypeOK
  <2>5. content \in Contents
    BY <2>1, <2>4 DEF Outcomes, Failures
  <2> QED
    BY <2>3, <2>5 DEF Claims
<1>2. UNCHANGED <<broker, inbox, abandons>> /\ NextClaim(w)
  BY ZenonT(30) DEF Preserve
<1>3. CASE ~Guarded(c)
  <2>1. UNCHANGED <<capture, source, facts, reports>>
    BY <1>3 DEF Preserve
  <2> QED
    BY <1>2, <2>1, NextClaimPreserves, Zenon
       DEF LaneInv, TypeOK, RowsAreClaimed, OneTerminalReport, ReportsTellRow
<1>4. CASE Guarded(c)
  <2> DEFINE row == [capture[c] EXCEPT !.status = "resolved", !.attempts = @ + 1, !.gen = g,
                                       !.reported = TRUE, !.wait = 0]
             report == [status |-> "preserved", gen |-> g]
  <2>1. capture[c] \in Rows /\ KeyOf[c] \in Keys
    BY <1>1, <1>4, RowShape DEF LaneInv, Guarded, RowsAreClaimed
  <2>2. g \in Nat \ {0}
    BY <2>1, SourceGenType DEF LaneInv
  <2>3. row \in Rows /\ row.reported = TRUE /\ row.status = "resolved" /\ row.gen = g
    <3> HIDE DEF g
    <3>1. row \in Rows
      <4>1. capture[c].attempts + 1 \in Nat
        BY <2>1 DEF Rows
      <4> QED
        BY <2>1, <2>2, <4>1, Zenon DEF Rows
    <3>2. row.reported = TRUE /\ row.status = "resolved" /\ row.gen = g
      BY <2>1 DEF Rows
    <3> QED
      BY <3>1, <3>2
  <2>4. report \in Reports
    BY <2>2 DEF Reports
  <2>5. /\ capture' = [capture EXCEPT ![c] = row]
        /\ reports' = [reports EXCEPT ![c] = Append(@, report)]
        /\ UpsertOwnerSource(c, content)
    BY <1>4, ZenonT(30) DEF Preserve
  <2>6. /\ source' \in [Keys -> Sources \cup {NoSource}]
        /\ facts' \in [Keys -> Seq(Facts)]
    BY <1>1, <2>1, <2>5, UpsertTypes DEF LaneInv
  <2>7. report = [status |-> "preserved", gen |-> row.gen]
    BY <2>3
  <2> HIDE DEF row, report, c
  <2>8. /\ capture' \in [Commands -> Rows \cup {NoRow}]
        /\ reports' \in [Commands -> Seq(Reports)]
        /\ RowsAreClaimed' /\ OneTerminalReport'
    BY <1>1, <1>2, <1>4, <2>3, <2>4, <2>5, <2>7, FinishPreserves, ZenonT(30)
  <2>9. TypeOK' /\ OutcomesHaveClaims'
    BY <1>2, <2>6, <2>8, NextClaimPreserves DEF LaneInv, TypeOK
  <2> QED
    BY <2>8, <2>9 DEF LaneInv
<1> QED
  BY <1>3, <1>4

(* A lost pass and a published command leave every row and report alone.    *)
LEMMA QuietPreserves ==
  ASSUME LaneInv,
         (\E c \in Commands : Send(c)) \/ (\E w \in Workers : Abandon(w)) \/ UNCHANGED vars
  PROVE  LaneInv'
<1>1. UNCHANGED <<inbox, capture, source, reports, facts>>
  BY DEF Send, Abandon, vars
<1>2. TypeOK'
  <2>1. CASE \E c \in Commands : Send(c)
    BY <2>1 DEF Send, LaneInv, TypeOK
  <2>2. ASSUME NEW w \in Workers, Abandon(w)
        PROVE  TypeOK'
    <3>1. Idle \in [claims : SUBSET Claims, current : Claims \cup {NoClaim},
                    outcome : Outcomes \cup {NoOutcome}]
      BY DEF Idle
    <3>2. abandons' \in 0..MaxAbandons
      BY <2>2, LaneAssumption DEF Abandon, LaneInv, TypeOK
    <3> QED
      BY <1>1, <2>2, <3>1, <3>2, SMTT(30) DEF Abandon, LaneInv, TypeOK
  <2>3. CASE UNCHANGED vars
    BY <2>3, SMTT(30) DEF vars, LaneInv, TypeOK
  <2> QED
    BY <2>1, <2>2, <2>3
<1>3. OutcomesHaveClaims'
  <2>1. \A v \in Workers : worker'[v] = worker[v] \/ worker'[v] = Idle
    <3>1. worker \in [Workers -> [claims : SUBSET Claims, current : Claims \cup {NoClaim},
                                  outcome : Outcomes \cup {NoOutcome}]]
      BY DEF LaneInv, TypeOK
    <3>2. worker' = worker \/ \E w \in Workers : worker' = [worker EXCEPT ![w] = Idle]
      BY Zenon DEF Send, Abandon, vars
    <3> QED
      BY <3>1, <3>2, Zenon
  <2>2. Idle.outcome = NoOutcome
    BY DEF Idle
  <2> QED
    BY <2>1, <2>2, Zenon DEF LaneInv, OutcomesHaveClaims
<1>4. RowsAreClaimed' /\ OneTerminalReport'
  BY <1>1, Zenon DEF LaneInv, RowsAreClaimed, OneTerminalReport, ReportsTellRow
<1> QED
  BY <1>2, <1>3, <1>4 DEF LaneInv

-----------------------------------------------------------------------------
(* The facts under every step.                                              *)

(* A step that only moves the wait and the attempts of queued rows.         *)
LEMMA WaitsTell ==
  ASSUME LaneInv, LaneInv', FactsInv, UNCHANGED <<source, facts, reports>>,
         \A d \in Commands : capture'[d].status = "resolved" =>
           capture[d].status = "resolved" /\ capture'[d].gen = capture[d].gen
  PROVE  FactsInv'
<1>1. KeysAreTold'
  BY FactsStand
<1>2. \A k \in Keys, g \in Nat : CapturedIn(facts[k], g) => CapturedIn(facts'[k], g)
  OBVIOUS
<1>3. PreservedIsBacked'
  BY <1>2, BackedStays DEF FactsInv
<1> QED
  BY <1>1, <1>3 DEF FactsInv, KeysAreTold

LEMMA ClaimDueTells ==
  ASSUME LaneInv, LaneInv', FactsInv, NEW w \in Workers, ClaimDue(w)
  PROVE  FactsInv'
<1>1. PICK batch \in SUBSET Due :
        capture' = [c \in Commands |->
                      IF c \in batch THEN [capture[c] EXCEPT !.wait = Lease]
                                     ELSE capture[c]]
  BY SMTT(30) DEF ClaimDue
<1>2. ASSUME NEW d \in Commands, capture'[d].status = "resolved"
      PROVE  capture[d].status = "resolved" /\ capture'[d].gen = capture[d].gen
  <2>1. CASE d \in batch
    <3>1. capture[d].status = "accepted" /\ capture[d] \in Rows
      BY <2>1, RowShape DEF Due, LaneInv
    <3>2. capture'[d].status = "accepted"
      BY <1>1, <2>1, <3>1 DEF Rows
    <3> QED
      BY <1>2, <3>2
  <2>2. CASE d \notin batch
    BY <1>1, <1>2, <2>2
  <2> QED
    BY <2>1, <2>2
<1>3. UNCHANGED <<source, facts, reports>>
  BY DEF ClaimDue
<1> QED
  BY <1>2, <1>3, WaitsTell

LEMMA TickTells ==
  ASSUME LaneInv, LaneInv', FactsInv, Tick
  PROVE  FactsInv'
<1>1. ASSUME NEW d \in Commands, capture'[d].status = "resolved"
      PROVE  capture[d].status = "resolved" /\ capture'[d].gen = capture[d].gen
  <2>1. CASE capture[d].status = "accepted" /\ capture[d].wait > 0
    <3>1. capture[d] \in Rows
      BY <2>1, RowShape DEF LaneInv
    <3>2. capture'[d].status = "accepted"
      BY <2>1, <3>1 DEF Tick, Rows
    <3> QED
      BY <1>1, <3>2, SMTT(30)
  <2>2. CASE ~(capture[d].status = "accepted" /\ capture[d].wait > 0)
    BY <1>1, <2>2 DEF Tick
  <2> QED
    BY <2>1, <2>2
<1>2. UNCHANGED <<source, facts, reports>>
  BY DEF Tick
<1> QED
  BY <1>1, <1>2, WaitsTell

LEMMA DeferTells ==
  ASSUME LaneInv, LaneInv', FactsInv, NEW w \in Workers, Defer(w)
  PROVE  FactsInv'
<1>1. PICK c \in Commands : c = worker[w].current.command
  <2>1. worker[w].outcome # NoOutcome
    BY DEF Defer, NoOutcome
  <2> QED
    BY <2>1, SMTT(30) DEF LaneInv, OutcomesHaveClaims, Claims
<1>2. UNCHANGED <<source, facts, reports>>
  BY DEF Defer
<1>3. CASE ~Guarded(c)
  BY <1>1, <1>2, <1>3, WaitsTell, SMTT(30) DEF Defer
<1>4. CASE Guarded(c)
  <2>1. capture' = [capture EXCEPT ![c].attempts = @ + 1,
                      ![c].wait = RetryDelay(worker[w].current.attempts + 1)]
    BY <1>1, <1>4 DEF Defer
  <2>2. capture[c] \in Rows /\ capture[c].status = "accepted"
    BY <1>4, RowShape DEF LaneInv, Guarded
  <2>3. capture'[c].status = "accepted"
    BY <2>1, <2>2 DEF LaneInv, TypeOK, Rows
  <2>4. \A d \in Commands : d # c => capture'[d] = capture[d]
    BY <2>1 DEF LaneInv, TypeOK
  <2>5. \A d \in Commands : capture'[d].status = "resolved" =>
          capture[d].status = "resolved" /\ capture'[d].gen = capture[d].gen
    BY <2>3, <2>4
  <2> QED
    BY <1>2, <2>5, WaitsTell, SMTT(30)
<1> QED
  BY <1>3, <1>4

LEMMA PersistTells ==
  ASSUME LaneInv, LaneInv', FactsInv, NEW c \in Commands, Persist(c)
  PROVE  FactsInv'
<1>1. UNCHANGED <<source, facts>>
  BY DEF Persist
<1>2. CASE Invalid(c) \/ Claimed(c)
  BY <1>1, <1>2, WaitsTell DEF Persist
<1>3. CASE ~(Invalid(c) \/ Claimed(c))
  <2>1. /\ capture' = [capture EXCEPT ![c] = NewRow(c)]
        /\ reports' = [reports EXCEPT ![c] = Append(@, NewReport(c))]
    BY <1>3 DEF Persist
  <2>2. capture[c].status = "none"
    BY <1>3 DEF LaneInv, RowsAreClaimed, Claimed
  <2>3. \A d \in Commands : reports'[d] = reports[d] \/ capture[d].status = "none"
    BY <2>1, <2>2 DEF LaneInv, TypeOK
  <2>4. KeysAreTold'
    BY <1>1, <2>3, FactsStand, SMTT(30)
  <2>5. capture'[c].status # "resolved" /\ \A d \in Commands : d # c => capture'[d] = capture[d]
    BY <2>1 DEF LaneInv, TypeOK, NewRow
  <2>6. \A d \in Commands : capture'[d].status = "resolved" =>
          capture[d].status = "resolved" /\ capture'[d].gen = capture[d].gen
    BY <2>5
  <2>7. \A k \in Keys, g \in Nat : CapturedIn(facts[k], g) => CapturedIn(facts'[k], g)
    BY <1>1, SMTT(30)
  <2>8. PreservedIsBacked'
    BY <2>6, <2>7, BackedStays DEF FactsInv
  <2> QED
    BY <2>4, <2>8 DEF FactsInv, KeysAreTold
<1> QED
  BY <1>2, <1>3

(* An ended capture leaves its deletion, its report, or nothing new.        *)
LEMMA TerminateTells ==
  ASSUME LaneInv, LaneInv', FactsInv, NEW w \in Workers, Terminate(w)
  PROVE  FactsInv'
<1> DEFINE failure == worker[w].outcome.kind
<1>1. PICK c \in Commands : c = worker[w].current.command
  <2>1. worker[w].outcome.kind \in Failures
    BY Zenon DEF Terminate
  <2>2. worker[w].outcome # NoOutcome
    BY <2>1 DEF NoOutcome, Failures
  <2> QED
    BY <2>2 DEF LaneInv, OutcomesHaveClaims, Claims
<1>2. CASE ~Guarded(c)
  <2>1. UNCHANGED <<capture, source, facts, reports>>
    BY <1>1, <1>2, SMTT(30) DEF Terminate
  <2> QED
    BY <2>1, WaitsTell
<1>3. CASE Guarded(c)
  <2>1. /\ capture' = [capture EXCEPT ![c].status = "unavailable", ![c].attempts = @ + 1,
                                      ![c].reported = TRUE, ![c].wait = 0]
        /\ reports' = [reports EXCEPT ![c] = Append(@, [status |-> failure])]
        /\ IF failure = "deleted" THEN RemoveOwnerSource(c) ELSE UNCHANGED <<source, facts>>
    BY <1>1, <1>3, Zenon DEF Terminate
  <2>2. capture[c] \in Rows
    BY <1>3, RowShape DEF LaneInv, Guarded
  <2>3. capture'[c].status = "unavailable"
    BY <2>1, <2>2 DEF LaneInv, TypeOK, Rows
  <2>4. \A d \in Commands : capture'[d].status = "resolved" =>
          capture[d].status = "resolved" /\ capture'[d].gen = capture[d].gen
    BY <2>1, <2>3 DEF LaneInv, TypeOK
  <2>5. KeysAreTold' /\ CapturesStay
    <3>1. CASE failure = "deleted"
      <4>1. PICK k \in Keys : k = KeyOf[c]
        BY <1>3 DEF LaneInv, RowsAreClaimed, Guarded
      <4>2. PICK r \in Reports : r = [status |-> "deleted"]
        BY Zenon DEF Reports, Failures
      <4>3. reports' = [reports EXCEPT ![c] = Append(@, r)]
        BY <2>1, <3>1, <4>2, SMTT(30)
      <4> QED
        BY <1>3, <2>1, <3>1, <4>1, <4>2, <4>3, RemovalTells, ZenonT(30)
    <3>2. CASE failure # "deleted"
      <4>1. UNCHANGED <<source, facts>>
        BY <2>1, <3>2
      <4>2. \A d \in Commands : reports'[d] = reports[d] \/ Guarded(d)
        BY <1>3, <2>1, SMTT(30) DEF LaneInv, TypeOK
      <4> QED
        BY <4>1, <4>2, FactsStand DEF CapturesStay
    <3> QED
      BY <3>1, <3>2
  <2>6. PreservedIsBacked'
    BY <2>4, <2>5, BackedStays, SMTT(30) DEF FactsInv, CapturesStay
  <2> QED
    BY <2>5, <2>6 DEF FactsInv, KeysAreTold
<1> QED
  BY <1>2, <1>3

(* A preserved capture names the identity its fact was captured under.      *)
LEMMA PreserveTells ==
  ASSUME LaneInv, LaneInv', FactsInv, NEW w \in Workers, Preserve(w)
  PROVE  FactsInv'
<1> DEFINE content == worker[w].outcome.content
<1>1. PICK c \in Commands : c = worker[w].current.command /\ content \in Contents
  <2>1. worker[w].outcome # NoOutcome /\ worker[w].outcome.kind = "post"
    <3>1. worker[w].outcome.kind = "post"
      BY Zenon DEF Preserve
    <3> QED
      BY <3>1 DEF NoOutcome
  <2>2. worker[w].outcome \in Outcomes
    BY <2>1 DEF LaneInv, TypeOK
  <2>3. content \in Contents
    BY <2>1, <2>2, SMTT(30) DEF Outcomes, Failures
  <2> QED
    BY <2>1, <2>3 DEF LaneInv, OutcomesHaveClaims, Claims
<1>2. CASE ~Guarded(c)
  <2>1. UNCHANGED <<capture, source, facts, reports>>
    BY <1>1, <1>2 DEF Preserve
  <2> QED
    BY <2>1, WaitsTell
<1>3. CASE Guarded(c)
  <2>1. PICK k \in Keys : k = KeyOf[c]
    BY <1>3 DEF LaneInv, RowsAreClaimed, Guarded
  <2>2. PICK g \in Nat \ {0} : g = SourceGen(k)
    BY SourceGenType DEF LaneInv
  <2>3. PICK r \in Reports : r = [status |-> "preserved", gen |-> g]
    BY <2>2, Zenon DEF Reports
  <2>4. /\ UpsertOwnerSource(c, content)
        /\ capture' = [capture EXCEPT ![c].status = "resolved", ![c].attempts = @ + 1,
                         ![c].gen = g, ![c].reported = TRUE, ![c].wait = 0]
        /\ reports' = [reports EXCEPT ![c] = Append(@, r)]
    BY <1>1, <1>3, <2>1, <2>2, <2>3, ZenonT(30) DEF Preserve
  <2>5. KeysAreTold' /\ CapturesStay /\ CapturedIn(facts'[k], g)
    BY <1>1, <1>3, <2>1, <2>2, <2>3, <2>4, UpsertTells, Zenon
  <2>6. capture[c] \in Rows
    BY <1>3, RowShape DEF LaneInv, Guarded
  <2>7. capture'[c].gen = g /\ \A d \in Commands : d # c => capture'[d] = capture[d]
    BY <2>4, <2>6 DEF LaneInv, TypeOK, Rows
  <2>8. \A d \in Commands : capture'[d].status = "resolved" =>
          \/ capture[d].status = "resolved" /\ capture'[d].gen = capture[d].gen
          \/ CapturedIn(facts'[KeyOf[d]], capture'[d].gen)
    BY <2>1, <2>5, <2>7, SMTT(30)
  <2>9. PreservedIsBacked'
    BY <2>5, <2>8, BackedStays, SMTT(30) DEF FactsInv, CapturesStay
  <2> QED
    BY <2>5, <2>9, Zenon DEF FactsInv, KeysAreTold
<1> QED
  BY <1>2, <1>3

-----------------------------------------------------------------------------
(* LaneInv is kept by every step of the lane.                               *)
LEMMA LaneStep ==
  ASSUME LaneInv, [Next]_vars
  PROVE  LaneInv'
<1>1. CASE \E c \in Commands : Persist(c)
  BY <1>1, PersistPreserves
<1>2. CASE \E w \in Workers : ClaimDue(w) \/ Resolve(w) \/ Defer(w)
  BY <1>2, ClaimDuePreserves, ResolvePreserves, DeferPreserves
<1>3. CASE \E w \in Workers : Terminate(w) \/ Preserve(w)
  BY <1>3, TerminatePreserves, PreservePreserves
<1>4. CASE Tick
  BY <1>4, TickPreserves
<1>5. CASE (\E c \in Commands : Send(c)) \/ (\E w \in Workers : Abandon(w))
             \/ UNCHANGED vars
  BY <1>5, QuietPreserves
<1> QED
  BY <1>1, <1>2, <1>3, <1>4, <1>5 DEF Next

(* LaneInv holds in every reachable state of the lane.                      *)
THEOREM Inductive == Spec => []LaneInv
<1>1. LaneInv /\ [Next]_vars => LaneInv'
  BY LaneStep
<1> QED
  BY <1>1, InitEstablishes, PTL DEF Spec

(* The rows, claims, reports and facts keep their types for every number of *)
(* commands and workers.                                                    *)
THEOREM TypesAreKept == Spec => []TypeOK
<1>1. LaneInv => TypeOK
  BY DEF LaneInv
<1> QED
  BY <1>1, Inductive, PTL

(* No interleaving of workers, expired leases, redeliveries and crashed     *)
(* passes reports a capture twice or leaves a finished one unreported: the  *)
(* guard of terminate and preserve on status and reported_at suffices, for  *)
(* every number of workers and whatever the lease is.                       *)
THEOREM ReportedOnce == Spec => []OneTerminalReport
<1>1. LaneInv => OneTerminalReport
  BY DEF LaneInv
<1> QED
  BY <1>1, Inductive, PTL

(* What the outbox holds of every owner's post and what the database stores *)
(* agree in every reachable state: the facts replay to the stored source,   *)
(* each has the one report of the capture that caused it, and the source    *)
(* every success names was captured.                                        *)
THEOREM FactsInductive == Spec => []FactsInv
<1>1. Init => FactsInv
  <2> SUFFICES ASSUME Init PROVE FactsInv
    OBVIOUS
  <2>1. FactsReplaySource
    <3>1. Len(<<>>) = 0 /\ 1..0 = {}
      OBVIOUS
    <3>2. Replays(<<>>, NoSource)
      BY <3>1, SMTT(30) DEF Replays
    <3> QED
      BY <3>2 DEF Init, FactsReplaySource
  <2>2. EveryFactHasItsReport /\ PreservedIsBacked
    BY DEF Init, EveryFactHasItsReport, PreservedIsBacked, NoRow
  <2>3. \A k \in Keys : GensAreCounted(facts[k]) /\ source[k] = NoSource
    BY DEF Init, GensAreCounted
  <2> QED
    BY <2>1, <2>2, <2>3 DEF FactsInv
<1>2. LaneInv /\ FactsInv /\ [Next]_vars => FactsInv'
  <2> SUFFICES ASSUME LaneInv, FactsInv, [Next]_vars PROVE FactsInv'
    OBVIOUS
  <2>1. LaneInv'
    BY LaneStep
  <2>2. CASE \E c \in Commands : Persist(c)
    BY <2>1, <2>2, PersistTells
  <2>3. CASE \E w \in Workers : ClaimDue(w) \/ Defer(w)
    BY <2>1, <2>3, ClaimDueTells, DeferTells
  <2>4. CASE \E w \in Workers : Terminate(w) \/ Preserve(w)
    BY <2>1, <2>4, TerminateTells, PreserveTells
  <2>5. CASE Tick
    BY <2>1, <2>5, TickTells
  <2>6. CASE (\E c \in Commands : Send(c)) \/ (\E w \in Workers : Resolve(w) \/ Abandon(w))
               \/ UNCHANGED vars
    <3>1. UNCHANGED <<capture, source, facts, reports>>
      BY <2>6, SMTT(30) DEF Send, Resolve, Abandon, vars
    <3> QED
      BY <2>1, <3>1, WaitsTell, SMTT(30)
  <2> QED
    BY <2>2, <2>3, <2>4, <2>5, <2>6 DEF Next
<1> QED
  BY <1>1, <1>2, Inductive, PTL DEF Spec

(* The queued facts of an owner's post replay to its row of                 *)
(* explicit_sources, with fresh identities after a removal and no repeated  *)
(* content: the lock of upsert_owner_source and remove_owner_source keeps   *)
(* this for every number of workers.                                        *)
THEOREM FactsReplay == Spec => []FactsReplaySource
<1>1. FactsInv => FactsReplaySource
  BY DEF FactsInv
<1> QED
  BY <1>1, FactsInductive, PTL

(* No fact without the terminal report of its capture and no capture with   *)
(* two facts, however many workers hold a claim on it (the guard on         *)
(* reported_at and the rollback in preserve).                               *)
THEOREM FactsAreReported == Spec => []EveryFactHasItsReport
<1>1. FactsInv => EveryFactHasItsReport
  BY DEF FactsInv
<1> QED
  BY <1>1, FactsInductive, PTL

(* The source a preserved report names has been captured.                   *)
THEOREM SuccessIsBacked == Spec => []PreservedIsBacked
<1>1. FactsInv => PreservedIsBacked
  BY DEF FactsInv
<1> QED
  BY <1>1, FactsInductive, PTL
-----------------------------------------------------------------------------
(* The lane implements OperationReports, as far as safety goes.             *)

(* The status column of a report list with one more report.                 *)
LEMMA StatusesGrow ==
  ASSUME NEW r \in Seq(Reports), NEW x \in Reports
  PROVE  Statuses(Append(r, x)) = Append(Statuses(r), x.status)
<1> DEFINE S == {"queued", "preserved"} \cup Failures
           s == Append(Statuses(r), x.status)
           t == Statuses(Append(r, x))
<1>1. \A y \in Reports : y.status \in S
  BY DEF Reports
<1> HIDE DEF S, Reports
<1>2. /\ Len(r) \in Nat /\ DOMAIN r = 1..Len(r) /\ \A i \in 1..Len(r) : r[i] \in Reports
  BY ListShape
<1>3. Statuses(r) \in [1..Len(r) -> S]
  BY <1>1, <1>2 DEF Statuses
<1>4. Statuses(r) \in Seq(S) /\ Len(Statuses(r)) = Len(r)
  BY <1>2, <1>3, ListOfFunction
<1>5. /\ Append(r, x) \in Seq(Reports) /\ Len(Append(r, x)) = Len(r) + 1
      /\ \A i \in 1..Len(r) : Append(r, x)[i] = r[i]
      /\ Append(r, x)[Len(r) + 1] = x
  BY <1>2, ListGrows
<1>6. DOMAIN Append(r, x) = 1..(Len(r) + 1)
  BY <1>5, ListShape
<1>7. /\ t = [i \in 1..(Len(r) + 1) |-> Append(r, x)[i].status]
  BY <1>6 DEF Statuses
<1>8. /\ s \in Seq(S) /\ Len(s) = Len(r) + 1
      /\ \A i \in 1..Len(r) : s[i] = Statuses(r)[i]
      /\ s[Len(r) + 1] = x.status
  BY <1>1, <1>4, ListGrows
<1>9. \A i \in 1..Len(r) : Statuses(r)[i] = r[i].status
  BY <1>2 DEF Statuses
<1> HIDE DEF s, t
<1>10. DOMAIN s = 1..(Len(r) + 1) /\ s = [i \in DOMAIN s |-> s[i]]
  BY <1>8, ListShape
<1>11. \A i \in 1..(Len(r) + 1) : s[i] = Append(r, x)[i].status
  <2> SUFFICES ASSUME NEW i \in 1..(Len(r) + 1) PROVE s[i] = Append(r, x)[i].status
    OBVIOUS
  <2>1. CASE i \in 1..Len(r)
    BY <1>5, <1>8, <1>9, <2>1
  <2>2. CASE i = Len(r) + 1
    BY <1>5, <1>8, <2>2
  <2> QED
    BY <1>2, <2>1, <2>2
<1> QED
  BY <1>7, <1>10, <1>11 DEF s, t

LEMMA SameStatuses ==
  ASSUME NEW r, NEW s, r = s
  PROVE  Statuses(r) = Statuses(s)
  OBVIOUS

LEMMA FirstStatuses ==
  Statuses(<<>>) = <<>> /\ Statuses(<<[status |-> "queued"]>>) = <<"queued">>
<1>1. <<>> \in Seq(Reports) /\ [status |-> "queued"] \in Reports
  BY DEF Reports
<1>2. Statuses(<<>>) = <<>>
  BY DEF Statuses
<1>3. Append(<<>>, [status |-> "queued"]) = <<[status |-> "queued"]>>
  OBVIOUS
<1>4. Append(<<>>, [status |-> "queued"].status) = <<"queued">>
  OBVIOUS
<1> QED
  BY <1>1, <1>2, <1>3, <1>4, StatusesGrow, Zenon

(* A report that goes where the protocol wants it is a step of the promise. *)
LEMMA ReportIsPromised ==
  ASSUME TypeOK, NEW c \in Commands, NEW x \in Reports,
         reports' = [reports EXCEPT ![c] = Append(@, x)],
         \/ reports[c] = <<>> /\ x.status \in {"queued", "inaccessible"}
         \/ reports[c] = <<[status |-> "queued"]>> /\ x.status \in Failures \cup {"preserved"}
  PROVE  Promise!Next
<1> DEFINE told == [d \in Commands |-> Statuses(reports[d])]
<1>1. reports[c] \in Seq(Reports) /\ reports \in [Commands -> Seq(Reports)]
  BY DEF TypeOK
<1>2. Statuses(reports'[c]) = Append(Statuses(reports[c]), x.status)
  BY <1>1, StatusesGrow
<1>3. \A d \in Commands : d # c => reports'[d] = reports[d]
  BY <1>1
<1>4. told' = [told EXCEPT ![c] = Append(@, x.status)]
  <2>1. told' = [d \in Commands |-> Statuses(reports'[d])]
    OBVIOUS
  <2>2. \A d \in Commands : Statuses(reports'[d]) =
          IF d = c THEN Append(Statuses(reports[c]), x.status) ELSE Statuses(reports[d])
    <3> SUFFICES ASSUME NEW d \in Commands
                 PROVE  Statuses(reports'[d]) = IF d = c THEN Append(Statuses(reports[c]), x.status)
                                                ELSE Statuses(reports[d])
      OBVIOUS
    <3>1. CASE d = c
      BY <1>2, <3>1, Zenon
    <3>2. CASE d # c
      <4>1. reports'[d] = reports[d]
        BY <1>3, <3>2
      <4>2. Statuses(reports'[d]) = Statuses(reports[d])
        BY <4>1, SameStatuses, Zenon
      <4> QED
        BY <3>2, <4>2, Zenon
    <3> QED
      BY <3>1, <3>2, Zenon
  <2> QED
    BY <2>1, <2>2, Zenon
<1>5. told[c] = Statuses(reports[c])
  OBVIOUS
<1>6. CASE reports[c] = <<>> /\ x.status \in {"queued", "inaccessible"}
  <2>1. told[c] = <<>>
    BY <1>5, <1>6, FirstStatuses
  <2>2. Promise!Accept(c) \/ Promise!Refuse(c)
    BY <1>4, <1>6, <2>1, Zenon DEF Promise!Accept, Promise!Refuse, Promise!Report
  <2> QED
    BY <2>2 DEF Promise!Next
<1>7. CASE reports[c] = <<[status |-> "queued"]>> /\ x.status \in Failures \cup {"preserved"}
  <2>1. told[c] = <<"queued">>
    BY <1>5, <1>7, FirstStatuses
  <2>2. Promise!Finish(c)
    BY <1>4, <1>7, <2>1, Zenon DEF Promise!Finish, Promise!Report
  <2> QED
    BY <2>2 DEF Promise!Next
<1> QED
  BY <1>6, <1>7

(* The transaction that inserts the row reports it queued or inaccessible;  *)
(* a redelivery reports nothing.                                            *)
LEMMA PersistIsPromised ==
  ASSUME LaneInv, NEW c \in Commands, Persist(c)
  PROVE  Promise!Next \/ UNCHANGED reports
<1> SUFFICES ASSUME ~(Invalid(c) \/ Claimed(c)) PROVE Promise!Next
  BY DEF Persist
<1>1. reports' = [reports EXCEPT ![c] = Append(@, NewReport(c))]
  BY DEF Persist
<1>2. reports[c] = <<>>
  <2>1. capture[c].status = "none"
    BY DEF Claimed, LaneInv, RowsAreClaimed
  <2> QED
    BY <2>1, Zenon DEF LaneInv, OneTerminalReport, ReportsTellRow
<1>3. NewReport(c) \in Reports /\ NewReport(c).status \in {"queued", "inaccessible"}
  BY DEF NewReport, Reports, Failures
<1> QED
  BY <1>1, <1>2, <1>3, ReportIsPromised, Zenon DEF LaneInv

(* A worker reports an outcome only for a row that is still queued.         *)
LEMMA OutcomeIsPromised ==
  ASSUME LaneInv, NEW w \in Workers, Terminate(w) \/ Preserve(w)
  PROVE  Promise!Next \/ UNCHANGED reports
<1>1. PICK c : c = worker[w].current.command
  OBVIOUS
<1>2. c \in Commands
  <2>1. worker[w].outcome.kind \in Failures \cup {"post"}
    BY Zenon DEF Terminate, Preserve
  <2>2. worker[w].outcome # NoOutcome
    BY <2>1 DEF NoOutcome, Failures
  <2>3. worker[w].current \in Claims
    BY <2>2 DEF LaneInv, OutcomesHaveClaims
  <2> QED
    BY <1>1, <2>3 DEF Claims
<1>3. CASE ~Guarded(c)
  BY <1>1, <1>3 DEF Terminate, Preserve
<1>4. CASE Guarded(c)
  <2>1. reports[c] = <<[status |-> "queued"]>>
    BY <1>2, <1>4, Zenon DEF Guarded, LaneInv, OneTerminalReport, ReportsTellRow
  <2>2. CASE Terminate(w)
    <3>1. PICK x : x = [status |-> worker[w].outcome.kind]
      BY Zenon
    <3>2. x \in Reports /\ x.status \in Failures
      BY <2>2, <3>1, Zenon DEF Terminate, Reports
    <3>3. reports' = [reports EXCEPT ![c] = Append(@, x)]
      BY <1>1, <1>4, <2>2, <3>1, Zenon DEF Terminate
    <3> QED
      BY <1>2, <2>1, <3>2, <3>3, ReportIsPromised, Zenon DEF LaneInv
  <2>3. CASE Preserve(w)
    <3>1. PICK x : x = [status |-> "preserved", gen |-> SourceGen(KeyOf[c])]
      BY Zenon
    <3>2. KeyOf[c] \in Keys
      BY <1>2, <1>4 DEF Guarded, LaneInv, RowsAreClaimed
    <3>3. SourceGen(KeyOf[c]) \in Nat \ {0}
      BY <3>2, SourceGenType DEF LaneInv
    <3>4. x \in Reports /\ x.status = "preserved"
      BY <3>1, <3>3 DEF Reports
    <3>5. reports' = [reports EXCEPT ![c] = Append(@, x)]
      BY <1>1, <1>4, <2>3, <3>1, Zenon DEF Preserve
    <3> QED
      BY <1>2, <2>1, <3>4, <3>5, ReportIsPromised, Zenon DEF LaneInv
  <2> QED
    BY <2>2, <2>3
<1> QED
  BY <1>3, <1>4

(* Every step of the lane is a step of the promise or changes no report.    *)
LEMMA StepIsPromised ==
  ASSUME LaneInv, [Next]_vars
  PROVE  Promise!Next \/ UNCHANGED reports
<1>1. CASE \E c \in Commands : Persist(c)
  BY <1>1, PersistIsPromised
<1>2. CASE \E w \in Workers : Terminate(w) \/ Preserve(w)
  BY <1>2, OutcomeIsPromised, SMTT(30)
<1>3. CASE \E w \in Workers : ClaimDue(w) \/ Resolve(w) \/ Defer(w) \/ Abandon(w)
  BY <1>3 DEF ClaimDue, Resolve, Defer, Abandon
<1>4. CASE Tick \/ (\E c \in Commands : Send(c)) \/ UNCHANGED vars
  BY <1>4 DEF Tick, Send, vars
<1> QED
  BY <1>1, <1>2, <1>3, <1>4 DEF Next

(* The lane implements the safety part of OperationReports, for every       *)
(* number of commands, workers and redeliveries: an operation is reported   *)
(* queued once and finished once, or refused at once.                       *)
THEOREM LaneImplementsPromise == Spec => Promise!Safety
<1>1. Init => Promise!Init
  BY FirstStatuses DEF Init, Promise!Init
<1>2. LaneInv /\ [Next]_vars => [Promise!Next]_([c \in Commands |-> Statuses(reports[c])])
  BY StepIsPromised
<1> QED
  BY <1>1, <1>2, Inductive, PTL DEF Spec, Promise!Safety
=============================================================================
