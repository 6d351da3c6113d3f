--------------------------- MODULE ProcessProofs ---------------------------
(***************************************************************************)
(* Proofs about the two programs of the repository and the gate in front of *)
(* the provider: LegacyTransition, then ServiceLifecycle and ApiBudget.     *)
(* The three share no state.                                                *)
(***************************************************************************)
EXTENDS LegacyTransition, ServiceLifecycle, ApiBudget, FiniteSetTheorems, WellFoundedInduction, TLAPS

(* Types of what the review reads and writes.                               *)
Shapes ==
  /\ file \in Contents
  /\ approvals \subseteq Decided(BOOLEAN)
  /\ operator \in [Operators -> {Idle} \cup Reading \cup Deciding]

Current == {a \in approvals : a.current}

(* One decision is current at most.                                         *)
OneCurrent == \A a, b \in Current : a = b

(* The reviewable reports are those a current decision approves.            *)
Reviewed == reviewable = {a.report : a \in {b \in Current : b.decision = "approved"}}

-----------------------------------------------------------------------------
(* Types.                                                                   *)

(* A decision stays one when reports are added.                             *)
LEMMA MoreReports ==
  ASSUME Shapes, reports \subseteq reports', approvals' = approvals
  PROVE  approvals' \subseteq Decided(BOOLEAN)'
  BY DEF Shapes, Decided

(* The states of the operators stay typed when reports are added.           *)
LEMMA OperatorsKept ==
  ASSUME Shapes, reports \subseteq reports',
         NEW o \in Operators, NEW t \in {Idle} \cup Reading \cup Deciding',
         operator' = [operator EXCEPT ![o] = t]
  PROVE  operator' \in [Operators -> {Idle} \cup Reading \cup Deciding']
<1>1. Deciding \subseteq Deciding'
  BY DEF Deciding
<1> QED
  BY <1>1 DEF Shapes

(* Closed decisions are decisions that are not current.                     *)
LEMMA ClosedShape ==
  ASSUME Shapes, NEW stale \in SUBSET approvals
  PROVE  /\ Closed(stale) \subseteq Decided(BOOLEAN)
         /\ {a \in Closed(stale) : a.current} = Current \ stale
<1>1. \A a \in stale : /\ [a EXCEPT !.current = FALSE] \in Decided(BOOLEAN)
                       /\ [a EXCEPT !.current = FALSE].current = FALSE
  BY Zenon DEF Shapes, Decided
<1>2. approvals \subseteq Decided(BOOLEAN)
  BY DEF Shapes
<1> QED
  BY <1>1, <1>2, Zenon DEF Closed, Current

(* Every step keeps the shapes.                                             *)
LEMMA NextShapes ==
  ASSUME Shapes, [Next]_vars
  PROVE  Shapes'
<1>1. CASE UNCHANGED vars
  BY <1>1 DEF vars, surroundings, review, Shapes, Decided, Deciding
<1>2. CASE FileChanges \/ AuthoritySpoiled \/ (\E p \in Posts : \E t \in Says[p] : PersistPost(p, t))
             \/ (\E items \in SUBSET Posts : ReplaceAuthority(items))
  <2>1. file' \in Contents
    BY <1>2 DEF FileChanges, AuthoritySpoiled, PersistPost, ReplaceAuthority, Shapes
  <2> QED
    BY <1>2, <2>1 DEF FileChanges, AuthoritySpoiled, PersistPost, ReplaceAuthority, Shapes,
                      review, Decided, Deciding
<1>3. ASSUME NEW o \in Operators,
             \/ ReadText(o) \/ ReadSqlite(o) \/ QueryRows(o) \/ ReadAgain(o)
             \/ VerifyIdentity(o) \/ PersistImport(o) \/ ReuseImport(o) \/ Abandon(o)
      PROVE  Shapes'
  <2>1. UNCHANGED <<file, reports, approvals>>
    BY <1>3 DEF ReadText, ReadSqlite, QueryRows, ReadAgain, VerifyIdentity, PersistImport,
                ReuseImport, Abandon, surroundings, review
  <2>2. PICK t \in {Idle} \cup Reading : operator' = [operator EXCEPT ![o] = t]
    <3>1. operator[o] \in Reading => operator[o].digest \in Contents /\ operator[o].rows \in Contents
      BY DEF Reading
    <3>2. operator[o].at \in {"rows", "again", "identity", "persist"} => operator[o] \in Reading
      BY DEF Shapes, Idle, Deciding
    <3>3. \A at \in {"rows", "again", "identity", "persist"}, d, c \in Contents :
             [at |-> at, digest |-> d, rows |-> c] \in Reading
      BY DEF Reading
    <3>4. CASE ReadText(o) \/ ReadSqlite(o)
      BY <3>3, <3>4 DEF ReadText, ReadSqlite, Go, Shapes
    <3>5. CASE QueryRows(o) \/ ReadAgain(o)
      BY <3>1, <3>2, <3>3, <3>5 DEF QueryRows, ReadAgain, Go, Shapes
    <3>6. CASE VerifyIdentity(o)
      <4>1. operator' = [operator EXCEPT ![o] = [operator[o] EXCEPT !.at = "persist"]]
        BY <3>6 DEF VerifyIdentity
      <4>2. [operator[o] EXCEPT !.at = "persist"] \in Reading
        BY <3>2, <3>6 DEF VerifyIdentity, Reading
      <4> QED
        BY <4>1, <4>2, Zenon
    <3>7. CASE PersistImport(o) \/ ReuseImport(o) \/ Abandon(o)
      BY <3>7 DEF PersistImport, ReuseImport, Abandon
    <3> QED
      BY <1>3, <3>4, <3>5, <3>6, <3>7
  <2> QED
    BY <2>1, <2>2, MoreReports, OperatorsKept, Zenon DEF Shapes
<1>4. ASSUME NEW c \in Contents, ShadowReportFor(c)
      PROVE  Shapes'
  <2>1. reports \subseteq reports' /\ Deciding \subseteq Deciding'
    BY <1>4 DEF ShadowReportFor, Deciding
  <2> QED
    BY <1>4, <2>1, MoreReports DEF ShadowReportFor, surroundings, Shapes
<1>5. ASSUME NEW r \in reports, SupersedeOthers(r), UNCHANGED <<file, reports>>
      PROVE  approvals' \subseteq Decided(BOOLEAN)'
  BY <1>5, ClosedShape DEF SupersedeOthers, Decided
<1>6. ASSUME NEW r \in reports, ChecklistFor(r)
      PROVE  Shapes'
  BY <1>5, <1>6 DEF ChecklistFor, surroundings, Shapes, Deciding
<1>7. ASSUME NEW r \in reports, NEW o \in Operators, NEW e \in Evidence, NEW d \in Decisions,
             BeginApproval(o, r, e, d)
      PROVE  Shapes'
  <2>1. [at |-> "approve", report |-> r, evidence |-> e, decision |-> d] \in Deciding'
    BY <1>7 DEF BeginApproval, Deciding
  <2>2. UNCHANGED <<file, reports>> /\ SupersedeOthers(r)
    BY <1>7 DEF BeginApproval, surroundings
  <2>3. operator' \in [Operators -> {Idle} \cup Reading \cup Deciding']
    BY <1>7, <2>1, <2>2, OperatorsKept, Zenon DEF BeginApproval
  <2> QED
    BY <1>5, <2>2, <2>3 DEF Shapes
<1>8. ASSUME NEW o \in Operators, RecordApproval(o)
      PROVE  Shapes'
  <2>1. UNCHANGED <<file, reports>> /\ operator' = [operator EXCEPT ![o] = Idle]
    BY <1>8 DEF RecordApproval, surroundings
  <2>2. operator[o] \in Deciding
    BY <1>8 DEF RecordApproval, Shapes, Idle, Reading
  <2>3. Decision(o, TRUE) \in Decided(BOOLEAN)
    BY <2>2 DEF Decision, Deciding, Decided
  <2>4. Closed(Current) \subseteq Decided(BOOLEAN)
    BY ClosedShape DEF Current
  <2>5. approvals' \subseteq Decided(BOOLEAN)'
    BY <1>8, <2>1, <2>3, <2>4, Zenon DEF RecordApproval, Current, Decided
  <2> QED
    BY <2>1, <2>5, OperatorsKept, Zenon DEF Shapes
<1> QED
  BY <1>1, <1>2, <1>3, <1>4, <1>6, <1>7, <1>8 DEF Next

-----------------------------------------------------------------------------
(* The review.                                                              *)

Agreed == OneCurrent /\ Reviewed

(* Closing the current decision closes the review of its report.            *)
LEMMA SupersedeAgrees ==
  ASSUME Shapes, Agreed, NEW r, SupersedeOthers(r)
  PROVE  Agreed'
<1> DEFINE stale == {a \in approvals : a.current /\ a.report # r}
<1>1. stale \subseteq Current /\ stale \subseteq approvals
  BY DEF Current
<1>2. Current' = Current \ stale
  BY <1>1, ClosedShape DEF SupersedeOthers, Current
<1>3. reviewable' = reviewable \ {a.report : a \in stale}
  BY DEF SupersedeOthers, ResetReviewability
<1>4. CASE stale = {}
  BY <1>2, <1>3, <1>4 DEF Agreed, OneCurrent, Reviewed
<1>5. CASE stale # {}
  <2>1. PICK a \in stale : TRUE
    BY <1>5
  <2>2. Current = {a} /\ stale = {a}
    BY <1>1, <2>1 DEF Agreed, OneCurrent
  <2>3. Current' = {} /\ reviewable' = {}
    BY <1>2, <1>3, <2>2 DEF Agreed, Reviewed
  <2> QED
    BY <2>3 DEF Agreed, OneCurrent, Reviewed
<1> QED
  BY <1>4, <1>5

(* A recorded decision is the only current one.                             *)
LEMMA RecordAgrees ==
  ASSUME Shapes, Agreed, NEW o \in Operators, RecordApproval(o)
  PROVE  Agreed'
<1> DEFINE r == operator[o].report
           D == Decision(o, TRUE)
<1>1. {a \in Closed(Current) : a.current} = {}
  BY ClosedShape DEF Current
<1>2. D.current = TRUE /\ D.report = r /\ D.decision = operator[o].decision
  BY DEF Decision
<1>3. approvals' = Closed(Current) \cup {D}
  BY DEF RecordApproval, Current
<1>4. Current' = {D}
  <2> HIDE DEF D
  <2> QED
    BY <1>1, <1>2, <1>3 DEF Current
<1>5. ResetReviewability(Current) = {}
  BY DEF ResetReviewability, Agreed, Reviewed
<1>6. reviewable' = IF operator[o].decision = "approved" THEN {r} ELSE {}
  BY <1>5 DEF RecordApproval, Current
<1> HIDE DEF D
<1> QED
  BY <1>2, <1>4, <1>6 DEF Agreed, OneCurrent, Reviewed

(* No other step touches decisions or reviewable reports.                   *)
LEMMA NextAgrees ==
  ASSUME Shapes, Agreed, [Next]_vars
  PROVE  Agreed'
<1>1. CASE UNCHANGED <<reviewable, approvals>>
  BY <1>1 DEF Agreed, OneCurrent, Reviewed, Current
<1>2. ASSUME NEW r \in reports, ChecklistFor(r)
      PROVE  Agreed'
  BY <1>2, SupersedeAgrees DEF ChecklistFor
<1>3. ASSUME NEW r \in reports, NEW o \in Operators, NEW e \in Evidence, NEW d \in Decisions,
             BeginApproval(o, r, e, d)
      PROVE  Agreed'
  BY <1>3, SupersedeAgrees DEF BeginApproval
<1>4. ASSUME NEW o \in Operators, RecordApproval(o)
      PROVE  Agreed'
  BY <1>4, RecordAgrees
<1>5. CASE UNCHANGED vars
  BY <1>1, <1>5 DEF vars, review
<1>6. CASE FileChanges \/ AuthoritySpoiled \/ (\E p \in Posts : \E t \in Says[p] : PersistPost(p, t))
             \/ (\E items \in SUBSET Posts : ReplaceAuthority(items))
  BY <1>1, <1>6 DEF FileChanges, AuthoritySpoiled, PersistPost, ReplaceAuthority, review
<1>7. ASSUME NEW o \in Operators,
             \/ ReadText(o) \/ ReadSqlite(o) \/ QueryRows(o) \/ ReadAgain(o)
             \/ VerifyIdentity(o) \/ PersistImport(o) \/ ReuseImport(o) \/ Abandon(o)
      PROVE  Agreed'
  BY <1>1, <1>7 DEF ReadText, ReadSqlite, QueryRows, ReadAgain, VerifyIdentity, PersistImport,
                    ReuseImport, Abandon, review
<1>8. ASSUME NEW c \in Contents, ShadowReportFor(c)
      PROVE  Agreed'
  BY <1>1, <1>8 DEF ShadowReportFor
<1> QED
  BY <1>2, <1>3, <1>4, <1>5, <1>6, <1>7, <1>8 DEF Next

(* However checklists and decisions of any number of operators interleave,  *)
(* one decision is current at most and a report is reviewable exactly when  *)
(* the current decision approves it (supersede_approvals_for_new_report,    *)
(* supersede_current_approvals, reset_report_reviewability).                *)
THEOREM ReviewFollowsDecision == Spec => []ReviewableIsApproved
<1>1. Init => Shapes /\ Agreed
  <2>1. 1 \in Contents
    BY TransitionAssumption DEF Contents
  <2> QED
    BY <2>1 DEF Init, Shapes, Agreed, OneCurrent, Reviewed, Current
<1>2. Shapes /\ Agreed /\ [Next]_vars => (Shapes /\ Agreed)'
  BY NextShapes, NextAgrees
<1>3. Agreed => ReviewableIsApproved
  BY DEF Agreed, OneCurrent, Reviewed, Current, ReviewableIsApproved
<1> QED
  BY <1>1, <1>2, <1>3, PTL DEF Spec

-----------------------------------------------------------------------------
(* A nonempty set of naturals has a least member.                           *)
LEMMA LeastExists ==
  ASSUME NEW S \in SUBSET Nat, S # {}
  PROVE  \E m \in S : \A n \in S : m <= n
<1>1. PICK m \in S : \A n \in S : ~(<<n, m>> \in OpToRel(<, Nat))
  BY NatLessThanWellFounded, WFMin, Zenon
<1>2. \A n \in S : ~(n < m)
  BY <1>1, Zenon DEF OpToRel
<1> QED
  BY <1>2

(* A loop of N rounds, each of which is a function on the states S, has a   *)
(* course.                                                                  *)
Course(S, base, N, round, f) ==
  /\ f \in [0..N -> S]
  /\ f[0] = base
  /\ \A n \in 1..N : f[n] = round[n][f[n - 1]]

LEMMA LoopRuns ==
  ASSUME NEW S, NEW base \in S, NEW N \in Nat, NEW round \in [1..N -> [S -> S]]
  PROVE  \E f : Course(S, base, N, round, f)
<1> DEFINE Stuck == {m \in 0..N : ~\E f : Course(S, base, m, round, f)}
<1>1. SUFFICES ASSUME Stuck # {} PROVE FALSE
  <2>1. N \in 0..N
    OBVIOUS
  <2> QED
    BY <2>1, Zenon
<1>2. PICK m \in Stuck : \A n \in Stuck : m <= n
  <2>1. Stuck \in SUBSET Nat
    OBVIOUS
  <2> QED
    BY <1>1, <2>1, LeastExists, Zenon
<1>3. m # 0
  <2>1. Course(S, base, 0, round, [n \in 0..0 |-> base])
    BY DEF Course
  <2> QED
    BY <2>1
<1>4. m \in 1..N /\ m - 1 \in 0..N /\ m - 1 \notin Stuck
  BY <1>2, <1>3
<1>5. PICK f : Course(S, base, m - 1, round, f)
  BY <1>4
<1> DEFINE g == [n \in 0..m |-> IF n = m THEN round[m][f[m - 1]] ELSE f[n]]
<1>6. \A n \in 0..m - 1 : f[n] \in S
  BY <1>5 DEF Course
<1>7. round[m][f[m - 1]] \in S
  BY <1>4, <1>6
<1>8. g \in [0..m -> S]
  BY <1>4, <1>6, <1>7
<1>9. g[0] = base
  BY <1>3, <1>4, <1>5 DEF Course
<1>10. ASSUME NEW n \in 1..m PROVE g[n] = round[n][g[n - 1]]
  <2>1. CASE n = m
    BY <1>4, <2>1
  <2>2. CASE n # m
    <3>1. n \in 1..m - 1 /\ n - 1 \in 0..m /\ n - 1 # m /\ n \in 0..m
      BY <1>4, <2>2
    <3>2. f[n] = round[n][f[n - 1]]
      BY <1>5, <3>1 DEF Course
    <3> QED
      BY <2>2, <3>1, <3>2
  <2> QED
    BY <2>1, <2>2
<1> HIDE DEF g
<1>11. Course(S, base, m, round, g)
  BY <1>8, <1>9, <1>10 DEF Course
<1> QED
  BY <1>11

-----------------------------------------------------------------------------
PostStates == {NoPost} \cup [from : {"official-api", "legacy-import"}, says : Sayings]
Sums == [posts : [Posts -> PostStates], counts : [Counted -> Nat]]

(* What one record leaves.                                                  *)
LEMMA RecordStep ==
  ASSUME NEW acc \in Sums, NEW row \in Legacy
  PROVE  /\ ImportRecord(acc, row) \in Sums
         /\ Total(ImportRecord(acc, row).counts) = Total(acc.counts) + 1
         /\ \A p \in Posts :
              /\ acc.posts[p].from = "official-api" =>
                   ImportRecord(acc, row).posts[p] = acc.posts[p]
              /\ ImportRecord(acc, row).posts[p].from = "official-api" =>
                   acc.posts[p].from = "official-api"
<1>0. acc.posts \in [Posts -> PostStates] /\ acc.counts \in [Counted -> Nat]
  BY DEF Sums
<1>1. /\ row.explicit \in Posts \cup {None} /\ row.url \in Posts \cup {None}
      /\ row.says \in Sayings
  BY DEF Legacy
<1>2. Resolved(row) \in Posts \cup {None}
  BY <1>1 DEF Resolved, Resolution
<1>3. \A n \in Counted : 
        LET c == [acc.counts EXCEPT ![n] = @ + 1]
        IN c \in [Counted -> Nat] /\ Total(c) = Total(acc.counts) + 1
  <2>1. ASSUME NEW n \in Counted
        PROVE  [acc.counts EXCEPT ![n] = @ + 1] \in [Counted -> Nat]
    BY <1>0
  <2>2. \A n \in Counted : Total([acc.counts EXCEPT ![n] = @ + 1]) = Total(acc.counts) + 1
    BY <1>0 DEF Counted, Total
  <2> QED
    BY <2>1, <2>2
<1>4. CASE Resolved(row) = None
  <2>1. PICK n \in Counted : ImportRecord(acc, row) = [acc EXCEPT !.counts[n] = @ + 1]
    BY <1>4 DEF ImportRecord, Counted
  <2>2. /\ ImportRecord(acc, row).posts = acc.posts
        /\ ImportRecord(acc, row).counts = [acc.counts EXCEPT ![n] = @ + 1]
        /\ ImportRecord(acc, row) \in Sums
    BY <1>0, <1>3, <2>1 DEF Sums
  <2> QED
    BY <1>3, <2>2
<1>5. CASE Resolved(row) # None
  <2> DEFINE p == Resolved(row)
             up == Upsert(row, acc.posts[p])
  <2>1. p \in Posts /\ acc.posts[p] \in PostStates
    BY <1>0, <1>2, <1>5
  <2>2. /\ up[1] \in Counted /\ up[2] \in PostStates
        /\ acc.posts[p].from = "official-api" => up[2] = acc.posts[p]
        /\ up[2].from = "official-api" => acc.posts[p].from = "official-api"
    BY <1>1, <2>1 DEF Upsert, Outdated, PostStates, NoPost, Counted
  <2>3. ImportRecord(acc, row) = [acc EXCEPT !.counts[up[1]] = @ + 1, !.posts[p] = up[2]]
    BY <1>5 DEF ImportRecord
  <2>4. PICK n, q, u : n = up[1] /\ q = p /\ u = up[2]
    OBVIOUS
  <2> HIDE DEF p, up
  <2>5. ImportRecord(acc, row) = [acc EXCEPT !.counts[n] = @ + 1, !.posts[q] = u]
    BY <2>3, <2>4
  <2>6. /\ ImportRecord(acc, row).posts = [acc.posts EXCEPT ![q] = u]
        /\ ImportRecord(acc, row).counts = [acc.counts EXCEPT ![n] = @ + 1]
        /\ ImportRecord(acc, row) \in Sums
    <3>1. n \in Counted /\ q \in Posts /\ u \in PostStates
      BY <2>1, <2>2, <2>4
    <3>2. /\ [acc.counts EXCEPT ![n] = @ + 1] \in [Counted -> Nat]
          /\ [acc.posts EXCEPT ![q] = u] \in [Posts -> PostStates]
      BY <1>0, <1>3, <3>1
    <3>3. ImportRecord(acc, row) = [posts |-> [acc.posts EXCEPT ![q] = u],
                                    counts |-> [acc.counts EXCEPT ![n] = @ + 1]]
      BY <2>5, Zenon DEF Sums
    <3> QED
      BY <3>2, <3>3 DEF Sums
  <2>7. Total(ImportRecord(acc, row).counts) = Total(acc.counts) + 1
    BY <1>3, <2>2, <2>4, <2>6
  <2>8. ASSUME NEW r \in Posts
        PROVE  /\ acc.posts[r].from = "official-api" =>
                    ImportRecord(acc, row).posts[r] = acc.posts[r]
               /\ ImportRecord(acc, row).posts[r].from = "official-api" =>
                    acc.posts[r].from = "official-api"
    <3>1. ImportRecord(acc, row).posts[r] = IF r = q THEN u ELSE acc.posts[r]
      BY <1>0, <2>6
    <3> QED
      BY <2>2, <2>4, <3>1
  <2> QED
    BY <2>6, <2>7, <2>8
<1> QED
  BY <1>4, <1>5

-----------------------------------------------------------------------------
(* The batch of a source.                                                   *)

(* The keys of a source are finitely many numbers.                          *)
LEMMA KeysFinite ==
  ASSUME NEW c \in Contents
  PROVE  /\ \A row \in Records(c) : row \in Legacy /\ row.key \in Keys(c)
         /\ Keys(c) \subseteq Nat
         /\ IsFiniteSet(Keys(c))
         /\ Cardinality(Keys(c)) \in Nat
<1>1. Source[c] \in Seq(Legacy)
  BY TransitionAssumption DEF Contents
<1>2. Len(Source[c]) \in Nat /\ DOMAIN Source[c] = 1..Len(Source[c])
  BY <1>1
<1>3. \A i \in DOMAIN Source[c] : Source[c][i] \in Legacy /\ Source[c][i].key \in Nat
  <2>1. \A i \in DOMAIN Source[c] : Source[c][i] \in Legacy
    BY <1>1
  <2>2. \A r \in Legacy : r.key \in Nat
    BY DEF Legacy
  <2> QED
    BY <2>1, <2>2, Zenon
<1> DEFINE f == [i \in 1..Len(Source[c]) |-> Source[c][i].key]
<1>4. f \in Surjection(1..Len(Source[c]), Keys(c))
  BY <1>2 DEF Surjection, Keys, Records
<1>5. IsFiniteSet(1..Len(Source[c]))
  <2>1. 1 \in Int /\ Len(Source[c]) \in Int
    BY <1>2
  <2> QED
    BY <2>1, FS_Interval, Zenon
<1>6. IsFiniteSet(Keys(c))
  BY <1>4, <1>5, FS_Surjection
<1> QED
  BY <1>3, <1>6, FS_CardinalityType DEF Keys, Records

(* The rank of a key tells it from the others, and every rank is taken.     *)
LEMMA RankTells ==
  ASSUME NEW c \in Contents
  PROVE  /\ \A k, j \in Keys(c) : Rank(c, k) = Rank(c, j) => k = j
         /\ \A k \in Keys(c) : Rank(c, k) \in 1..Cardinality(Keys(c))
         /\ \A i \in 1..Cardinality(Keys(c)) : \E k \in Keys(c) : Rank(c, k) = i
<1>0. Keys(c) \subseteq Nat /\ IsFiniteSet(Keys(c)) /\ Cardinality(Keys(c)) \in Nat
  BY KeysFinite, Zenon
<1> DEFINE Below(k) == {j \in Keys(c) : j <= k}
<1>1. \A k \in Keys(c) : IsFiniteSet(Below(k)) /\ k \in Below(k)
  <2> TAKE k \in Keys(c)
  <2>1. Below(k) \in SUBSET Keys(c)
    OBVIOUS
  <2>2. IsFiniteSet(Below(k))
    BY <1>0, <2>1, FS_Subset, Zenon
  <2>3. k \in Below(k)
    BY <1>0
  <2> QED
    BY <2>2, <2>3
<1>2. ASSUME NEW k \in Keys(c)
      PROVE  Rank(c, k) \in 1..Cardinality(Keys(c))
  <2>1. Below(k) \in SUBSET Keys(c)
    OBVIOUS
  <2>2. Cardinality(Below(k)) <= Cardinality(Keys(c))
    BY <1>0, <2>1, FS_Subset, Zenon
  <2>3. Cardinality(Below(k)) \in Nat
    BY <1>1, FS_CardinalityType, Zenon
  <2>4. Cardinality(Below(k)) # 0
    <3>1. Below(k) # {}
      BY <1>1, Zenon
    <3> QED
      BY <1>1, <3>1, FS_EmptySet, Zenon
  <2>5. Rank(c, k) = Cardinality(Below(k))
    BY DEF Rank
  <2> HIDE DEF Below
  <2> QED
    BY <1>0, <2>2, <2>3, <2>4, <2>5
<1>3. ASSUME NEW k \in Keys(c), NEW j \in Keys(c), k < j
      PROVE  Rank(c, k) # Rank(c, j)
  <2>1. Below(k) \in SUBSET Below(j)
    BY <1>0, <1>3
  <2>2. j \notin Below(k)
    BY <1>0, <1>3
  <2>3. Cardinality(Below(j)) # Cardinality(Below(k))
    BY <1>1, <2>1, <2>2, FS_Subset, Zenon
  <2> QED
    BY <2>3 DEF Rank
<1>4. ASSUME NEW k \in Keys(c), NEW j \in Keys(c), Rank(c, k) = Rank(c, j)
      PROVE  k = j
  <2>1. ~(k < j) /\ ~(j < k)
    BY <1>3, <1>4
  <2> QED
    BY <1>0, <2>1
<1> DEFINE N == Cardinality(Keys(c))
           f == [k \in Keys(c) |-> Rank(c, k)]
<1>5. f \in Injection(Keys(c), 1..N)
  BY <1>2, <1>4 DEF Injection, IsInjective
<1>6. IsFiniteSet(1..N) /\ Cardinality(1..N) = N
  <2>0. N \in Int /\ 1 \in Int
    BY <1>0
  <2> HIDE DEF N, f
  <2>1. IsFiniteSet(1..N) /\ Cardinality(1..N) = IF 1 > N THEN 0 ELSE N - 1 + 1
    BY <2>0, FS_Interval, Zenon
  <2> USE DEF N
  <2> QED
    BY <1>0, <2>1
<1>7. f \in Surjection(Keys(c), 1..N)
  BY <1>5, <1>6, FS_Injection
<1> QED
  BY <1>2, <1>4, <1>7, Zenon DEF Surjection

(* A batch lists the records of a source that is well formed.               *)
LEMMA BatchLists ==
  ASSUME NEW c \in Contents, Wellformed(c)
  PROVE  /\ Len(Batch[c]) = Cardinality(Keys(c))
         /\ DOMAIN Batch[c] = 1..Cardinality(Keys(c))
         /\ \A i \in 1..Cardinality(Keys(c)) :
              Batch[c][i] \in Legacy /\ Batch[c][i] \in Records(c)
         /\ \A row \in Records(c) : \E i \in 1..Cardinality(Keys(c)) : Batch[c][i] = row
<1> DEFINE N == Cardinality(Keys(c))
           Lines == Records(c)
<1>0. N \in Nat
  BY KeysFinite, Zenon
<1>1. Batch[c] = [i \in 1..N |-> CHOOSE row \in Lines : Rank(c, row.key) = i]
  BY DEF Batch
<1>3. \A row \in Lines : row \in Legacy /\ row.key \in Keys(c)
  BY KeysFinite, Zenon
<1>4. \A a, b \in Lines : a.key = b.key => a = b
  BY DEF Wellformed
<1>5. \A i \in 1..N : \E row \in Lines : Rank(c, row.key) = i
  <2> TAKE i \in 1..N
  <2>1. PICK k \in Keys(c) : Rank(c, k) = i
    BY RankTells, Zenon
  <2>2. PICK row \in Lines : row.key = k
    BY DEF Keys
  <2> QED
    BY <2>1, <2>2
<1>2. Lines = Records(c)
  OBVIOUS
<1> HIDE DEF N, Lines
<1>6. \A i \in 1..N : Batch[c][i] \in Lines /\ Rank(c, Batch[c][i].key) = i
  <2> TAKE i \in 1..N
  <2>1. Batch[c][i] = CHOOSE row \in Lines : Rank(c, row.key) = i
    BY <1>1
  <2>2. \E row \in Lines : Rank(c, row.key) = i
    BY <1>5, Zenon
  <2> QED
    BY <2>1, <2>2, Zenon
<1>7. \A row \in Lines : \E i \in 1..N : Batch[c][i] = row
  <2> TAKE row \in Lines
  <2>1. row.key \in Keys(c)
    BY <1>3, Zenon
  <2>2. Rank(c, row.key) \in 1..N
    BY <2>1, RankTells, Zenon DEF N
  <2>3. PICK i \in 1..N : i = Rank(c, row.key)
    BY <2>2, Zenon
  <2>4. Batch[c][i] \in Lines /\ Rank(c, Batch[c][i].key) = Rank(c, row.key)
    BY <1>6, <2>3, Zenon
  <2>5. Batch[c][i].key = row.key
    BY <1>3, <2>1, <2>4, RankTells, Zenon
  <2> QED
    BY <1>4, <2>4, <2>5, Zenon
<1>8. DOMAIN Batch[c] = 1..N /\ Len(Batch[c]) = N
  BY <1>0, <1>1
<1> QED
  BY <1>2, <1>3, <1>6, <1>7, <1>8 DEF N

-----------------------------------------------------------------------------
(* The import of a batch.                                                   *)

(* What the import of a well-formed source leaves: one count per record,    *)
(* the official posts as they were, and no other official post.             *)
LEMMA ImportLeaves ==
  ASSUME NEW c \in Contents, Wellformed(c), posts \in [Posts -> PostStates]
  PROVE  /\ Imported(c) \in Sums
         /\ Total(Imported(c).counts) = Cardinality(Keys(c))
         /\ \A p \in Posts :
              /\ posts[p].from = "official-api" => Imported(c).posts[p] = posts[p]
              /\ Imported(c).posts[p].from = "official-api" => posts[p].from = "official-api"
<1> DEFINE N == Len(Batch[c])
           base == [posts |-> posts, counts |-> [k \in Counted |-> 0]]
           round == [n \in 1..N |-> [acc \in Sums |-> ImportRecord(acc, Batch[c][n])]]
           Upto(f) == [n \in 0..N |-> IF n = 0 THEN base ELSE ImportRecord(f[n - 1], Batch[c][n])]
<1>0. N = Cardinality(Keys(c)) /\ N \in Nat
  BY BatchLists, KeysFinite, Zenon
<1>1. \A n \in 1..N : Batch[c][n] \in Legacy
  BY <1>0, BatchLists
<1>2. base \in Sums
  BY DEF Sums
<1>3. round \in [1..N -> [Sums -> Sums]]
  BY <1>1, RecordStep
<1>4. PICK f : Course(Sums, base, N, round, f)
  BY <1>0, <1>2, <1>3, LoopRuns, Zenon
<1>5. f = Upto(f)
  <2>1. \A n \in 1..N : f[n] = ImportRecord(f[n - 1], Batch[c][n])
    <3> TAKE n \in 1..N
    <3>1. n - 1 \in 0..N
      BY <1>0
    <3>2. f[n - 1] \in Sums /\ f[n] = round[n][f[n - 1]]
      BY <1>4, <3>1, Zenon DEF Course
    <3> QED
      BY <3>2
  <2>2. f \in [0..N -> Sums] /\ f[0] = base
    BY <1>4 DEF Course
  <2>3. \A n \in 0..N : n # 0 => n \in 1..N
    BY <1>0
  <2> HIDE DEF N, base, round
  <2> QED
    BY <2>1, <2>2, <2>3
<1>6. PICK g : g = Upto(g) /\ Imported(c) = g[N]
  <2> DEFINE h == CHOOSE h : h = Upto(h)
  <2>1. Imported(c) = h[N]
    BY DEF Imported
  <2>2. h = Upto(h)
    BY <1>5, Zenon
  <2> QED
    BY <2>1, <2>2, Zenon
<1> DEFINE Kept(n) ==
      /\ g[n] \in Sums
      /\ Total(g[n].counts) = n
      /\ \A p \in Posts :
           /\ posts[p].from = "official-api" => g[n].posts[p] = posts[p]
           /\ g[n].posts[p].from = "official-api" => posts[p].from = "official-api"
           Lost == {n \in 0..N : ~Kept(n)}
<1>7. Kept(0)
  <2>1. g[0] = base
    BY <1>0, <1>6
  <2>2. base.posts = posts /\ Total(base.counts) = 0
    BY DEF Total, Counted
  <2> HIDE DEF base
  <2> QED
    BY <1>2, <2>1, <2>2
<1>8. ASSUME NEW n \in 1..N, Kept(n - 1)
      PROVE  Kept(n)
  <2>1. g[n] = ImportRecord(g[n - 1], Batch[c][n])
    <3>1. n \in 0..N /\ n # 0
      BY <1>0
    <3> QED
      BY <1>6, <3>1
  <2>2. PICK acc, row : acc = g[n - 1] /\ row = Batch[c][n]
    OBVIOUS
  <2>3. acc \in Sums /\ row \in Legacy /\ g[n] = ImportRecord(acc, row)
    BY <1>1, <1>8, <2>1, <2>2
  <2>4. Total(acc.counts) = n - 1
    BY <1>8, <2>2
  <2>5. g[n] \in Sums /\ Total(g[n].counts) = n
    <3>1. g[n] \in Sums /\ Total(g[n].counts) = Total(acc.counts) + 1
      BY <2>3, RecordStep, Zenon
    <3> QED
      BY <1>0, <2>4, <3>1
  <2>6. ASSUME NEW p \in Posts
        PROVE  /\ posts[p].from = "official-api" => g[n].posts[p] = posts[p]
               /\ g[n].posts[p].from = "official-api" => posts[p].from = "official-api"
    <3>1. /\ posts[p].from = "official-api" => acc.posts[p] = posts[p]
          /\ acc.posts[p].from = "official-api" => posts[p].from = "official-api"
      BY <1>8, <2>2
    <3>2. /\ acc.posts[p].from = "official-api" =>
               ImportRecord(acc, row).posts[p] = acc.posts[p]
          /\ ImportRecord(acc, row).posts[p].from = "official-api" =>
               acc.posts[p].from = "official-api"
      BY <2>3, RecordStep, Zenon
    <3> QED
      BY <2>3, <3>1, <3>2
  <2> QED
    BY <2>5, <2>6
<1>9. Kept(N)
  <2>1. SUFFICES ASSUME Lost # {} PROVE FALSE
    <3>1. N \in 0..N
      BY <1>0
    <3> HIDE DEF Kept
    <3> QED
      BY <3>1
  <2>2. PICK m \in Lost : \A n \in Lost : m <= n
    <3>1. Lost \in SUBSET Nat
      OBVIOUS
    <3> QED
      BY <2>1, <3>1, LeastExists, Zenon
  <2> HIDE DEF Kept
  <2>3. m \in 1..N /\ m - 1 \in 0..N
    BY <1>0, <1>7, <2>2
  <2>4. Kept(m - 1)
    <3>1. m - 1 \notin Lost
      BY <2>2, <2>3
    <3> QED
      BY <2>3, <3>1
  <2> QED
    BY <1>8, <2>2, <2>3, <2>4
<1> QED
  BY <1>0, <1>6, <1>9, Zenon

-----------------------------------------------------------------------------
(* What is read, imported and reported.                                     *)

(* The content a command digested, the one it queried and the one the file  *)
(* has come in this order, and past the second read they are one.           *)
ReadersHold ==
  \A o \in Operators :
    /\ operator[o].at = "rows" => operator[o].digest <= file
    /\ operator[o].at = "again" =>
         /\ operator[o].digest <= operator[o].rows /\ operator[o].rows <= file
         /\ Wellformed(operator[o].rows)
    /\ operator[o].at \in {"identity", "persist"} =>
         operator[o].rows = operator[o].digest /\ Wellformed(operator[o].digest)

ImportsHold ==
  /\ imports \in [Contents -> {None} \cup [rows : Contents, counts : [Counted -> Nat]]]
  /\ \A c \in Contents : imports[c] # None =>
       /\ imports[c].rows = c /\ Wellformed(c)
       /\ Total(imports[c].counts) = Cardinality(Keys(c))

PostsHold == posts \in [Posts -> PostStates] /\ DOMAIN delivered = Posts /\ OfficialPostStands

(* The contents are numbered.                                               *)
LEMMA ContentsNumbered ==
  Contents \subseteq Nat /\ 1 \in Contents
<1>1. Source \in Seq(Seq(Legacy)) /\ Source # << >>
  BY TransitionAssumption
<1> QED
  BY <1>1 DEF Contents

(* A command that reads knows which contents it has read.                   *)
LEMMA ReaderKnows ==
  ASSUME Shapes, NEW o \in Operators,
         operator[o].at \in {"rows", "again", "identity", "persist"}
  PROVE  /\ operator[o] \in Reading
         /\ operator[o].digest \in Contents /\ operator[o].rows \in Contents
         /\ operator[o].digest \in Nat /\ operator[o].rows \in Nat
<1>1. operator[o] \in {Idle} \cup Reading \cup Deciding
  BY DEF Shapes
<1>2. operator[o] # Idle /\ operator[o] \notin Deciding
  BY DEF Idle, Deciding
<1>3. operator[o] \in Reading
  BY <1>1, <1>2
<1>4. operator[o].digest \in Contents /\ operator[o].rows \in Contents
  BY <1>3 DEF Reading
<1> QED
  BY <1>3, <1>4, ContentsNumbered, Zenon

(* A command keeps what it has read until it moves on.                      *)
LEMMA NextReaders ==
  ASSUME Shapes, ReadersHold, [Next]_vars
  PROVE  ReadersHold'
<1> USE DEF ReadersHold
<1>0. file \in Nat /\ Contents \subseteq Nat
  BY ContentsNumbered DEF Shapes
<1>1. ASSUME UNCHANGED operator, file' \in Nat, file <= file'
      PROVE  ReadersHold'
  <2>1. \A o \in Operators : operator[o].at \in {"rows", "again"} =>
          operator[o].digest \in Nat /\ operator[o].rows \in Nat
    BY ReaderKnows
  <2> QED
    BY <1>0, <1>1, <2>1
<1>2. ASSUME NEW o \in Operators, NEW t, operator' = [operator EXCEPT ![o] = t], file' = file,
             /\ t.at = "rows" => t.digest <= file
             /\ t.at = "again" => /\ t.digest <= t.rows /\ t.rows <= file
                                  /\ Wellformed(t.rows)
             /\ t.at \in {"identity", "persist"} => t.rows = t.digest /\ Wellformed(t.digest)
      PROVE  ReadersHold'
  <2>1. \A u \in Operators : operator'[u] = IF u = o THEN t ELSE operator[u]
    BY <1>2 DEF Shapes
  <2> QED
    BY <1>2, <2>1
<1>3. ASSUME NEW o \in Operators, ReadText(o) \/ ReadSqlite(o)
      PROVE  ReadersHold'
  <2>1. PICK at \in {"identity", "rows"} :
          /\ operator' = [operator EXCEPT ![o] = [at |-> at, digest |-> file, rows |-> file]]
          /\ file' = file /\ (at = "identity" => Wellformed(file))
    BY <1>3 DEF ReadText, ReadSqlite, Go, surroundings
  <2>2. PICK t : t = [at |-> at, digest |-> file, rows |-> file]
    OBVIOUS
  <2>3. t.at = at /\ t.digest = file /\ t.rows = file
    BY <2>2
  <2> QED
    BY <1>0, <1>2, <2>1, <2>2, <2>3
<1>4. ASSUME NEW o \in Operators, QueryRows(o)
      PROVE  ReadersHold'
  <2>1. operator[o].digest <= file
    BY <1>4 DEF QueryRows
  <2>2. PICK t : t = [at |-> "again", digest |-> operator[o].digest, rows |-> file]
    OBVIOUS
  <2>f. t.at = "again" /\ t.digest = operator[o].digest /\ t.rows = file
    BY <2>2
  <2>w. Wellformed(file)
    BY <1>4 DEF QueryRows
  <2>3. t.at = "again" /\ t.digest <= t.rows /\ t.rows <= file /\ Wellformed(t.rows)
    BY <1>0, <2>1, <2>f, <2>w
  <2>4. operator' = [operator EXCEPT ![o] = t] /\ file' = file
    BY <1>4, <2>2 DEF QueryRows, Go, surroundings
  <2> QED
    BY <1>2, <2>3, <2>4
<1>5. ASSUME NEW o \in Operators, ReadAgain(o)
      PROVE  ReadersHold'
  <2>1. operator[o].digest \in Nat /\ operator[o].rows \in Nat
    BY <1>5, ReaderKnows DEF ReadAgain
  <2>2. operator[o].rows = operator[o].digest /\ Wellformed(operator[o].rows)
    BY <1>0, <1>5, <2>1 DEF ReadAgain, SourceKept
  <2>3. PICK t : t = [at |-> "identity", digest |-> operator[o].digest, rows |-> operator[o].rows]
    OBVIOUS
  <2>4. t.at = "identity" /\ t.rows = t.digest /\ Wellformed(t.digest)
    BY <2>2, <2>3
  <2>5. operator' = [operator EXCEPT ![o] = t] /\ file' = file
    BY <1>5, <2>3 DEF ReadAgain, Go, surroundings
  <2> QED
    BY <1>2, <2>4, <2>5
<1>6. ASSUME NEW o \in Operators, VerifyIdentity(o)
      PROVE  ReadersHold'
  <2>1. operator[o] \in Reading
    BY <1>6, ReaderKnows DEF VerifyIdentity
  <2>2. PICK t : t = [operator[o] EXCEPT !.at = "persist"]
    OBVIOUS
  <2>3. t.at = "persist" /\ t.rows = operator[o].rows /\ t.digest = operator[o].digest
    BY <2>1, <2>2 DEF Reading
  <2>4. operator' = [operator EXCEPT ![o] = t] /\ file' = file
    BY <1>6, <2>2 DEF VerifyIdentity, surroundings
  <2>5. operator[o].rows = operator[o].digest /\ Wellformed(operator[o].digest)
    BY <1>6 DEF VerifyIdentity
  <2> QED
    BY <1>2, <2>3, <2>4, <2>5
<1>7. ASSUME NEW o \in Operators,
             PersistImport(o) \/ ReuseImport(o) \/ RecordApproval(o) \/ Abandon(o)
      PROVE  ReadersHold'
  <2>1. operator' = [operator EXCEPT ![o] = Idle] /\ file' = file
    BY <1>7, Zenon DEF PersistImport, ReuseImport, RecordApproval, Abandon, surroundings
  <2>2. Idle.at = "idle"
    BY DEF Idle
  <2> QED
    BY <1>2, <2>1, <2>2
<1>8. ASSUME NEW r, NEW o \in Operators, NEW e, NEW d, BeginApproval(o, r, e, d)
      PROVE  ReadersHold'
  BY <1>2, <1>8 DEF BeginApproval, surroundings
<1>9. CASE UNCHANGED vars
  BY <1>0, <1>1, <1>9 DEF vars, surroundings
<1>10. CASE FileChanges \/ AuthoritySpoiled \/ (\E p \in Posts : \E t \in Says[p] : PersistPost(p, t))
             \/ (\E items \in SUBSET Posts : ReplaceAuthority(items))
  <2>1. UNCHANGED operator /\ file' \in {file, file + 1}
    BY <1>10 DEF FileChanges, AuthoritySpoiled, PersistPost, ReplaceAuthority
  <2> QED
    BY <1>0, <1>1, <2>1
<1>11. ASSUME NEW c \in Contents, ShadowReportFor(c)
      PROVE  ReadersHold'
  BY <1>0, <1>1, <1>11 DEF ShadowReportFor, surroundings
<1>12. ASSUME NEW r \in reports, ChecklistFor(r)
      PROVE  ReadersHold'
  BY <1>0, <1>1, <1>12 DEF ChecklistFor, surroundings
<1> QED
  BY <1>3, <1>4, <1>5, <1>6, <1>7, <1>8, <1>9, <1>10, <1>11, <1>12, Zenon DEF Next

(* An import holds the content its digest names.                            *)
LEMMA NextImports ==
  ASSUME Shapes, ReadersHold, PostsHold, ImportsHold, [Next]_vars
  PROVE  ImportsHold'
<1>1. ASSUME UNCHANGED imports
      PROVE  ImportsHold'
  BY <1>1 DEF ImportsHold
<1>2. ASSUME NEW o \in Operators, PersistImport(o)
      PROVE  ImportsHold'
  <2>1. PICK c : c = operator[o].digest
    OBVIOUS
  <2>2. c \in Contents /\ operator[o].rows = c /\ Wellformed(c)
    BY <1>2, <2>1, ReaderKnows DEF PersistImport, ReadersHold
  <2>3. PICK counts : counts = Imported(c).counts
    OBVIOUS
  <2>4. imports' = [imports EXCEPT ![c] = [rows |-> c, counts |-> counts]]
    BY <1>2, <2>1, <2>2, <2>3 DEF PersistImport
  <2>5. counts \in [Counted -> Nat] /\ Total(counts) = Cardinality(Keys(c))
    BY <2>2, <2>3, ImportLeaves DEF PostsHold, Sums
  <2>6. [rows |-> c, counts |-> counts] \in [rows : Contents, counts : [Counted -> Nat]]
    BY <2>2, <2>5
  <2>7. \A d \in Contents : imports'[d] = IF d = c THEN [rows |-> c, counts |-> counts] ELSE imports[d]
    BY <2>4 DEF ImportsHold
  <2> QED
    BY <2>2, <2>4, <2>5, <2>6, <2>7 DEF ImportsHold
<1>3. ASSUME NEW o \in Operators,
             \/ ReadText(o) \/ ReadSqlite(o) \/ QueryRows(o) \/ ReadAgain(o)
             \/ VerifyIdentity(o) \/ ReuseImport(o) \/ RecordApproval(o) \/ Abandon(o)
      PROVE  ImportsHold'
  BY <1>1, <1>3, Zenon DEF ReadText, ReadSqlite, QueryRows, ReadAgain, VerifyIdentity,
                    ReuseImport, RecordApproval, Abandon
<1>4. ASSUME NEW r, NEW o \in Operators, NEW e, NEW d, BeginApproval(o, r, e, d)
      PROVE  ImportsHold'
  BY <1>1, <1>4 DEF BeginApproval
<1>5. CASE UNCHANGED vars
  BY <1>1, <1>5 DEF vars
<1>6. CASE FileChanges \/ AuthoritySpoiled \/ (\E p \in Posts : \E t \in Says[p] : PersistPost(p, t))
             \/ (\E items \in SUBSET Posts : ReplaceAuthority(items))
  BY <1>1, <1>6 DEF FileChanges, AuthoritySpoiled, PersistPost, ReplaceAuthority
<1>7. ASSUME NEW c \in Contents, ShadowReportFor(c)
      PROVE  ImportsHold'
  BY <1>1, <1>7 DEF ShadowReportFor
<1>8. ASSUME NEW r \in reports, ChecklistFor(r)
      PROVE  ImportsHold'
  BY <1>1, <1>8 DEF ChecklistFor
<1> QED
  BY <1>2, <1>3, <1>4, <1>5, <1>6, <1>7, <1>8 DEF Next

(* A delivered text replaces the text; an import leaves official posts.     *)
LEMMA NextPosts ==
  ASSUME Shapes, ReadersHold, PostsHold, [Next]_vars
  PROVE  PostsHold'
<1>1. ASSUME UNCHANGED <<posts, delivered>>
      PROVE  PostsHold'
  BY <1>1 DEF PostsHold, OfficialPostStands
<1>2. ASSUME NEW o \in Operators, PersistImport(o)
      PROVE  PostsHold'
  <2>1. PICK c : c = operator[o].digest
    OBVIOUS
  <2>2. c \in Contents /\ operator[o].rows = c /\ Wellformed(c)
    BY <1>2, <2>1, ReaderKnows DEF PersistImport, ReadersHold
  <2>3. posts' = Imported(c).posts /\ delivered' = delivered
    BY <1>2, <2>2 DEF PersistImport, surroundings
  <2>4. posts \in [Posts -> PostStates]
    BY DEF PostsHold
  <2>5. posts' \in [Posts -> PostStates]
    BY <2>2, <2>3, <2>4, ImportLeaves DEF Sums
  <2>6. ASSUME NEW p \in Posts, posts'[p].from = "official-api"
        PROVE  posts'[p].says = delivered'[p]
    <3>1. posts[p].from = "official-api" /\ posts'[p] = posts[p]
      BY <2>2, <2>3, <2>4, <2>6, ImportLeaves
    <3> QED
      BY <2>3, <3>1 DEF PostsHold, OfficialPostStands
  <2> QED
    BY <2>3, <2>5, <2>6 DEF PostsHold, OfficialPostStands
<1>3. ASSUME NEW p \in Posts, NEW t \in Says[p], PersistPost(p, t)
      PROVE  PostsHold'
  <2>1. t \in Sayings
    BY TransitionAssumption
  <2>2. PICK w : w = [from |-> IF posts[p] = NoPost THEN "official-api" ELSE posts[p].from,
                      says |-> t]
    OBVIOUS
  <2>3. posts' = [posts EXCEPT ![p] = w] /\ delivered' = [delivered EXCEPT ![p] = t]
    BY <1>3, <2>2 DEF PersistPost
  <2>4. posts \in [Posts -> PostStates]
    BY DEF PostsHold
  <2>5. w \in PostStates /\ w.says = t
    BY <2>1, <2>2, <2>4 DEF PostStates
  <2>6. posts' \in [Posts -> PostStates]
    BY <2>3, <2>4, <2>5
  <2>7. ASSUME NEW q \in Posts, posts'[q].from = "official-api"
        PROVE  posts'[q].says = delivered'[q]
    <3>1. CASE q = p
      BY <2>3, <2>4, <2>5, <3>1 DEF PostsHold
    <3>2. CASE q # p
      BY <2>3, <2>4, <2>7, <3>2 DEF PostsHold, OfficialPostStands
    <3> QED
      BY <3>1, <3>2
  <2> QED
    BY <2>3, <2>6, <2>7 DEF PostsHold, OfficialPostStands
<1>4. ASSUME NEW o \in Operators,
             \/ ReadText(o) \/ ReadSqlite(o) \/ QueryRows(o) \/ ReadAgain(o)
             \/ VerifyIdentity(o) \/ ReuseImport(o) \/ RecordApproval(o) \/ Abandon(o)
      PROVE  PostsHold'
  BY <1>1, <1>4, Zenon DEF ReadText, ReadSqlite, QueryRows, ReadAgain, VerifyIdentity,
                    ReuseImport, RecordApproval, Abandon, surroundings
<1>5. ASSUME NEW r, NEW o \in Operators, NEW e, NEW d, BeginApproval(o, r, e, d)
      PROVE  PostsHold'
  BY <1>1, <1>5 DEF BeginApproval, surroundings
<1>6. CASE UNCHANGED vars
  BY <1>1, <1>6 DEF vars, surroundings
<1>7. CASE FileChanges \/ AuthoritySpoiled \/ (\E items \in SUBSET Posts : ReplaceAuthority(items))
  BY <1>1, <1>7 DEF FileChanges, AuthoritySpoiled, ReplaceAuthority
<1>8. ASSUME NEW c \in Contents, ShadowReportFor(c)
      PROVE  PostsHold'
  BY <1>1, <1>8 DEF ShadowReportFor, surroundings
<1>9. ASSUME NEW r \in reports, ChecklistFor(r)
      PROVE  PostsHold'
  BY <1>1, <1>9 DEF ChecklistFor, surroundings
<1> QED
  BY <1>2, <1>3, <1>4, <1>5, <1>6, <1>7, <1>8, <1>9, Zenon DEF Next

(* The class of a record tells whether the snapshot holds its post.         *)
LEMMA ClassTells ==
  ASSUME NEW row, NEW official
  PROVE  /\ ClassOf(row, official) = "legacy_only" <=>
              Resolved(row) \notin DOMAIN official \cup {None}
         /\ ClassOf(row, official) \in {"matched", "url_matched"} <=>
              Resolved(row) \in DOMAIN official \ {None}
<1>1. Resolution(row) \in {"identity_conflict", "unmapped"} <=> Resolved(row) = None
  BY DEF Resolved, Resolution
<1>2. Resolution(row) \in {"identity_conflict", "provider_post", "canonical_url", "unmapped"}
  BY DEF Resolution
<1> QED
  BY <1>1, <1>2 DEF ClassOf

(* A report of an import accounts for both sides.                           *)
LEMMA ReportAccounts ==
  ASSUME NEW c \in Contents, imports[c] # None, ImportsHold
  PROVE  /\ Report(c).official_only = DOMAIN Report(c).official \ Names(Report(c).import)
         /\ {i \in DOMAIN Report(c).classes : Report(c).classes[i] = "legacy_only"} =
              {i \in DOMAIN Report(c).classes :
                 Resolved(Batch[Report(c).import][i]) \notin DOMAIN Report(c).official \cup {None}}
<1>1. PICK rows, official : /\ rows = Batch[c]
                            /\ official = [p \in authority.items |-> posts[p].says.text]
  OBVIOUS
<1>2. imports[c].rows = c /\ Wellformed(c)
  BY DEF ImportsHold
<1>3. /\ Report(c).import = c /\ Report(c).official = official
      /\ Report(c).classes = [i \in DOMAIN rows |-> ClassOf(rows[i], official)]
      /\ Report(c).official_only = DOMAIN official \ MatchedIds(rows, official)
  BY <1>1, <1>2, Zenon DEF Report
<1>4. DOMAIN official \ MatchedIds(rows, official) = DOMAIN official \ Names(c)
  <2>1. ASSUME NEW p \in DOMAIN official
        PROVE  p \in MatchedIds(rows, official) <=> p \in Names(c)
    <3>1. p \in MatchedIds(rows, official) <=>
            p # None /\ \E i \in DOMAIN rows : Resolved(rows[i]) = p
      BY ClassTells DEF MatchedIds
    <3>2. p \in Names(c) <=> p # None /\ \E row \in Records(c) : Resolved(row) = p
      BY DEF Names
    <3>3. /\ \A i \in DOMAIN rows : rows[i] \in Records(c)
          /\ \A row \in Records(c) : \E i \in DOMAIN rows : rows[i] = row
      BY <1>1, <1>2, BatchLists
    <3> QED
      BY <3>1, <3>2, <3>3
  <2> QED
    BY <2>1
<1>5. \A i \in DOMAIN rows : ClassOf(rows[i], official) = "legacy_only" <=>
        Resolved(rows[i]) \notin DOMAIN official \cup {None}
  BY ClassTells
<1> QED
  BY <1>1, <1>3, <1>4, <1>5

(* Reports are only added.                                                  *)
LEMMA NextReports ==
  ASSUME ImportsHold, ShadowAccountsForAll, [Next]_vars
  PROVE  ShadowAccountsForAll'
<1>1. ASSUME UNCHANGED reports
      PROVE  ShadowAccountsForAll'
  BY <1>1 DEF ShadowAccountsForAll
<1>2. ASSUME NEW c \in Contents, ShadowReportFor(c)
      PROVE  ShadowAccountsForAll'
  <2>1. PICK r : r = Report(c)
    OBVIOUS
  <2>2. reports' = reports \cup {r} /\ imports[c] # None
    BY <1>2, <2>1 DEF ShadowReportFor
  <2>3. /\ r.official_only = DOMAIN r.official \ Names(r.import)
        /\ {i \in DOMAIN r.classes : r.classes[i] = "legacy_only"} =
             {i \in DOMAIN r.classes :
                Resolved(Batch[r.import][i]) \notin DOMAIN r.official \cup {None}}
    BY <2>1, <2>2, ReportAccounts
  <2> QED
    BY <2>2, <2>3 DEF ShadowAccountsForAll
<1>3. ASSUME NEW o \in Operators,
             \/ ReadText(o) \/ ReadSqlite(o) \/ QueryRows(o) \/ ReadAgain(o) \/ PersistImport(o)
             \/ VerifyIdentity(o) \/ ReuseImport(o) \/ RecordApproval(o) \/ Abandon(o)
      PROVE  ShadowAccountsForAll'
  BY <1>1, <1>3, Zenon DEF ReadText, ReadSqlite, QueryRows, ReadAgain, VerifyIdentity,
                    PersistImport, ReuseImport, RecordApproval, Abandon, review
<1>4. ASSUME NEW r, NEW o \in Operators, NEW e, NEW d, BeginApproval(o, r, e, d)
      PROVE  ShadowAccountsForAll'
  BY <1>1, <1>4 DEF BeginApproval
<1>5. CASE UNCHANGED vars
  BY <1>1, <1>5 DEF vars, review
<1>6. CASE FileChanges \/ AuthoritySpoiled \/ (\E p \in Posts : \E t \in Says[p] : PersistPost(p, t))
             \/ (\E items \in SUBSET Posts : ReplaceAuthority(items))
  BY <1>1, <1>6 DEF FileChanges, AuthoritySpoiled, PersistPost, ReplaceAuthority, review
<1>7. ASSUME NEW r \in reports, ChecklistFor(r)
      PROVE  ShadowAccountsForAll'
  BY <1>1, <1>7 DEF ChecklistFor
<1> QED
  BY <1>2, <1>3, <1>4, <1>5, <1>6, <1>7 DEF Next

-----------------------------------------------------------------------------
(* The inductive invariant of reading, importing and reporting.             *)
TransitionInv == Shapes /\ ReadersHold /\ ImportsHold /\ PostsHold /\ ShadowAccountsForAll

(* It holds in every reachable state.                                       *)
LEMMA TransitionInvariant == Spec => []TransitionInv
<1>1. Init => TransitionInv
  <2> SUFFICES ASSUME Init PROVE TransitionInv
    OBVIOUS
  <2>1. Shapes
    BY ContentsNumbered DEF Init, Shapes
  <2>2. ReadersHold
    BY DEF Init, ReadersHold, Idle
  <2>3. ImportsHold
    BY DEF Init, ImportsHold
  <2>4. PostsHold
    BY DEF Init, PostsHold, OfficialPostStands, PostStates, NoPost
  <2>5. ShadowAccountsForAll
    BY DEF Init, ShadowAccountsForAll
  <2> QED
    BY <2>1, <2>2, <2>3, <2>4, <2>5 DEF TransitionInv
<1>2. TransitionInv /\ [Next]_vars => TransitionInv'
  BY NextShapes, NextReaders, NextImports, NextPosts, NextReports DEF TransitionInv
<1> QED
  BY <1>1, <1>2, PTL DEF Spec

(* Whatever the file becomes between the reads of any number of commands,   *)
(* an import holds the records of the very content its digest names, each   *)
(* key counted once (preflight_field_theory_sqlite, finish_batch,           *)
(* persist_import_records).                                                 *)
THEOREM ImportsHoldTheirSource == Spec => []ImportHoldsItsSource
<1>1. TransitionInv => ImportHoldsItsSource
  BY DEF TransitionInv, ImportsHold, ImportHoldsItsSource
<1> QED
  BY <1>1, TransitionInvariant, PTL

(* A post the official API delivered first says what the API said last,     *)
(* whatever batches are imported before or after (persist_posts,            *)
(* upsert_imported_post).                                                   *)
THEOREM OfficialPostsStand == Spec => []OfficialPostStands
<1>1. TransitionInv => OfficialPostStands
  BY DEF TransitionInv, PostsHold
<1> QED
  BY <1>1, TransitionInvariant, PTL

(* Every report accounts for every post of its snapshot and every record of *)
(* its import (classify_shadow_entries).                                    *)
THEOREM ReportsAccountForAll == Spec => []ShadowAccountsForAll
<1>1. TransitionInv => ShadowAccountsForAll
  BY DEF TransitionInv
<1> QED
  BY <1>1, TransitionInvariant, PTL

-----------------------------------------------------------------------------
(* The service process.                                                     *)

(* What the place of run() tells of the tasks, the stop request, the fault  *)
(* and the exit status.                                                     *)
ServiceInv ==
  /\ main \in Boot \cup {"serving", "grace", "stopping", "draining", "joining", "exited"}
  /\ main \in {"listen", "serving", "grace", "stopping", "draining", "joining"} =>
       \A t \in Tasks : task[t] # "none"
  /\ DOMAIN task = Tasks
  /\ main \in Boot \cup {"serving", "grace", "stopping"} => ~stop
  /\ main = "stopping" => lifecycle = "draining"
  /\ stop => lifecycle = "draining"
  /\ main \in Boot \cup {"serving"} => ~failure /\ ~signalled
  /\ main = "grace" => failure
  /\ main \in {"stopping", "draining", "joining"} => failure \/ signalled
  /\ main # "exited" => exit = "none"
  /\ exit = "success" => signalled /\ ~failure

(* A process that starts is wired for nothing and has promised nothing.     *)
LEMMA ServiceStarts == ServiceInit => ServiceInv
  BY DEF ServiceInit, ServiceInv, Boot

(* Every step of the process keeps this.                                    *)
LEMMA ServiceSteps ==
  ASSUME ServiceInv, [ServiceNext]_serviceVars
  PROVE  ServiceInv'
<1> USE DEF ServiceInv, Boot, runtime
<1>1. CASE LoadConfig \/ OpenDatabase \/ OpenBus
  BY <1>1 DEF LoadConfig, OpenDatabase, OpenBus
<1>2. CASE SpawnBusTasks
  BY <1>2 DEF SpawnBusTasks
<1>3. CASE BindListener
  BY <1>3 DEF BindListener
<1>4. CASE BootFails
  BY <1>4 DEF BootFails, ExitCode, Dropped
<1>5. ASSUME NEW t \in Tasks, TaskFails(t) \/ TaskStops(t)
      PROVE  ServiceInv'
  BY <1>5 DEF TaskFails, TaskStops
<1>6. ASSUME NEW healthy \in BOOLEAN, RelayReports(healthy)
      PROVE  ServiceInv'
  BY <1>6 DEF RelayReports, SetBusReady
<1>7. CASE NextExit
  BY <1>7 DEF NextExit, SetBusReady
<1>8. CASE Signal \/ GraceEnds
  BY <1>8 DEF Signal, GraceEnds, BeginDrain
<1>9. CASE ServerStops
  BY <1>9 DEF ServerStops
<1>10. CASE DrainTasks
  BY <1>10 DEF DrainTasks, Dropped, Status
<1>11. CASE UNCHANGED serviceVars
  BY <1>11 DEF serviceVars
<1>12. CASE SendStop
  BY <1>12 DEF SendStop
<1>13. CASE ServerFails
  BY <1>13 DEF ServerFails, Answering, Dropped
<1> QED
  BY <1>1, <1>2, <1>3, <1>4, <1>5, <1>6, <1>7, <1>8, <1>9, <1>10, <1>11, <1>12, <1>13, Zenon
     DEF ServiceNext

(* It holds in every reachable state.                                       *)
LEMMA ServiceInvariant == ServiceSpec => []ServiceInv
<1>1. ServiceInv /\ [ServiceNext]_serviceVars => ServiceInv'
  BY ServiceSteps
<1> QED
  BY <1>1, ServiceStarts, PTL DEF ServiceSpec

(* Whatever the tasks and the relay's reports do, a probe gets 200 only      *)
(* from a process whose bus tasks were all started and whose shutdown has   *)
(* not begun (RuntimeState::readiness, spawn_bus_tasks, begin_drain).       *)
THEOREM ReadyProcessIsWired == ServiceSpec => []ReadyIsWired
<1>1. ServiceInv => ReadyIsWired
  BY DEF ServiceInv, ReadyIsWired, Answers200, Answering,
         Readiness
<1> QED
  BY <1>1, ServiceInvariant, PTL

(* A process exits with success only after a signal and without a fault     *)
(* that was seen before it (the failure slot of run()).                     *)
THEOREM ExitStatusTellsFault == ServiceSpec => []ExitTellsFault
<1>1. ServiceInv => ExitTellsFault
  BY DEF ServiceInv, ExitTellsFault
<1> QED
  BY <1>1, ServiceInvariant, PTL

-----------------------------------------------------------------------------
(* The provider budget.                                                     *)

(* The row lock of charge: what a caller read inside its transaction is     *)
(* what the row still holds.                                                *)
LockedReads ==
  \A c \in Callers : caller[c].at = "reading" =>
    lock[caller[c].row] = c /\ caller[c].read = used[caller[c].row]

BudgetInv == BudgetTypeOK /\ CallsStayUnderCap /\ LockedReads

-----------------------------------------------------------------------------
(* A window that begins at t is one of window_start_for and has begun.      *)
BegunWindow(t) == t <= now /\ \E k \in Nat : t = k * Window

(* Every window with a row, and every window a caller is about to charge,   *)
(* is such a window.                                                        *)
Aligned ==
  /\ \A r \in opened : BegunWindow(r[2])
  /\ \A c \in Callers : caller[c] # Outside => BegunWindow(caller[c].row[2])

(* An instant aligned down (window_start_for) is the start of a window that *)
(* is not later than the instant.                                           *)
LEMMA WindowStartIsAligned ==
  ASSUME NEW t \in 0..MaxTime
  PROVE  /\ WindowStartFor(t) \in 0..MaxTime /\ WindowStartFor(t) <= t
         /\ \E k \in Nat : WindowStartFor(t) = k * Window
<1> DEFINE q == t \div Window
<1>1. Window \in Nat /\ Window > 0 /\ MaxTime \in Nat /\ t \in Nat /\ t <= MaxTime
  BY BudgetAssumption
<1>2. q \in Nat /\ t = Window * q + (t % Window) /\ 0 <= t % Window
  BY <1>1
<1>3. q * Window \in Nat /\ q * Window <= t
  BY <1>1, <1>2
<1>4. WindowStartFor(t) = q * Window
  BY DEF WindowStartFor
<1> QED
  BY <1>1, <1>2, <1>3, <1>4

(* Of two multiples of the window length the greater is a window later.     *)
LEMMA WindowsApart ==
  ASSUME NEW j \in Nat, NEW k \in Nat, j * Window < k * Window
  PROVE  j * Window + Window <= k * Window
<1>1. Window \in Nat
  BY BudgetAssumption
<1>2. CASE j < k
  <2>1. PICK d \in Nat : k = j + 1 + d
    <3>1. k - (j + 1) \in Nat /\ k = j + 1 + (k - (j + 1))
      BY <1>2
    <3> QED
      BY <3>1
  <2>2. k * Window = j * Window + Window + d * Window
    BY <1>1, <2>1
  <2>3. d * Window \in Nat /\ j * Window \in Nat
    BY <1>1
  <2> QED
    BY <1>1, <2>2, <2>3
<1>3. CASE k <= j
  <2>1. PICK d \in Nat : j = k + d
    <3>1. j - k \in Nat /\ j = k + (j - k)
      BY <1>3
    <3> QED
      BY <3>1
  <2>2. j * Window = k * Window + d * Window
    BY <1>1, <2>1
  <2>3. d * Window \in Nat /\ k * Window \in Nat
    BY <1>1
  <2> QED
    BY <2>2, <2>3
<1> QED
  BY <1>2, <1>3

(* What a caller holds at each place of reserve and refund.                 *)
LEMMA CallerShape ==
  ASSUME BudgetTypeOK, NEW c \in Callers
  PROVE  /\ caller[c].at = "reading" =>
              /\ caller[c].row \in Rows /\ caller[c].cost \in Costs
              /\ caller[c].read \in Nat
         /\ caller[c].at \in {"reserving", "full", "held"} =>
              caller[c].row \in Rows /\ caller[c].cost \in Costs
<1>1. caller[c] \in {Outside} \cup Asking \cup Charging
  BY DEF BudgetTypeOK
<1>2. CASE caller[c] = Outside
  BY <1>2 DEF Outside
<1>3. CASE caller[c] \in Asking
  BY <1>3 DEF Asking
<1>4. CASE caller[c] \in Charging
  BY <1>4 DEF Charging
<1> QED
  BY <1>1, <1>2, <1>3, <1>4

(* A ledger without rows and without callers satisfies BudgetInv.           *)
LEMMA BudgetStarts == BudgetInit => BudgetInv
<1> SUFFICES ASSUME BudgetInit PROVE BudgetInv
  OBVIOUS
<1>1. BudgetTypeOK
  BY BudgetAssumption DEF BudgetInit, BudgetTypeOK, Outside
<1>2. CallsStayUnderCap
  BY BudgetAssumption DEF BudgetInit, CallsStayUnderCap
<1>3. LockedReads
  BY DEF BudgetInit, LockedReads, Outside
<1> QED
  BY <1>1, <1>2, <1>3 DEF BudgetInv

(* Every step of every caller keeps BudgetInv; the only step that raises    *)
(* granted (Accept) charges the same row with the same cost under the lock. *)
LEMMA BudgetSteps == BudgetInv /\ [BudgetNext]_budgetVars => BudgetInv'
<1> SUFFICES ASSUME BudgetInv, [BudgetNext]_budgetVars PROVE BudgetInv'
  OBVIOUS
<1> USE DEF BudgetInv
<1>1. CASE Tick
  <2>1. BudgetTypeOK'
    BY <1>1, BudgetAssumption DEF Tick, BudgetTypeOK
  <2>2. CallsStayUnderCap' /\ LockedReads'
    BY <1>1 DEF Tick, CallsStayUnderCap, LockedReads
  <2> QED
    BY <2>1, <2>2
<1>2. CASE UNCHANGED budgetVars
  BY <1>2 DEF budgetVars, BudgetTypeOK, CallsStayUnderCap, LockedReads
<1>3. ASSUME NEW c \in Callers, NEW l \in Ledgers, NEW cost \in Costs, Reserve(c, l, cost)
      PROVE  BudgetInv'
  <2>1. <<l, WindowStartFor(now)>> \in Rows
    BY WindowStartIsAligned DEF BudgetTypeOK, Rows
  <2>2. BudgetTypeOK'
    BY <1>3, <2>1 DEF Reserve, BudgetTypeOK, Asking
  <2>3. CallsStayUnderCap'
    BY <1>3 DEF Reserve, CallsStayUnderCap
  <2>4. LockedReads'
    BY <1>3 DEF Reserve, LockedReads, BudgetTypeOK
  <2> QED
    BY <2>2, <2>3, <2>4
<1>4. ASSUME NEW c \in Callers, ReadUsage(c)
      PROVE  BudgetInv'
  <2>1. caller[c].row \in Rows /\ caller[c].cost \in Costs
    BY <1>4, CallerShape DEF ReadUsage
  <2>2. BudgetTypeOK'
    BY <1>4, <2>1 DEF ReadUsage, BudgetTypeOK, Charging
  <2>3. CallsStayUnderCap'
    BY <1>4 DEF ReadUsage, CallsStayUnderCap
  <2>4. LockedReads'
    BY <1>4, <2>1, BudgetAssumption DEF ReadUsage, LockedReads, BudgetTypeOK
  <2> QED
    BY <2>2, <2>3, <2>4
<1>5. ASSUME NEW c \in Callers, Refuse(c)
      PROVE  BudgetInv'
  <2>1. caller[c].row \in Rows /\ caller[c].cost \in Costs
    BY <1>5, CallerShape DEF Refuse
  <2>2. BudgetTypeOK'
    BY <1>5, <2>1 DEF Refuse, Unlock, Become, BudgetTypeOK, Asking
  <2>3. CallsStayUnderCap'
    BY <1>5 DEF Refuse, CallsStayUnderCap
  <2>4. LockedReads'
    BY <1>5, <2>1, CallerShape DEF Refuse, Unlock, Become, LockedReads, BudgetTypeOK
  <2> QED
    BY <2>2, <2>3, <2>4
<1>6. ASSUME NEW c \in Callers, GiveUp(c) \/ Keep(c)
      PROVE  BudgetInv'
  <2>1. BudgetTypeOK'
    BY <1>6 DEF GiveUp, Keep, BudgetTypeOK
  <2>2. CallsStayUnderCap'
    BY <1>6 DEF GiveUp, Keep, CallsStayUnderCap
  <2>3. LockedReads'
    BY <1>6 DEF GiveUp, Keep, LockedReads, BudgetTypeOK, Outside
  <2> QED
    BY <2>1, <2>2, <2>3
<1>7. ASSUME NEW c \in Callers, Accept(c) \/ CommitLost(c)
      PROVE  BudgetInv'
  <2> DEFINE r == caller[c].row
             cost == caller[c].cost
  <2>1. r \in Rows /\ cost \in Costs /\ cost \in Nat /\ Cap \in Nat
    BY <1>7, CallerShape, BudgetAssumption, Zenon DEF Accept, CommitLost, Bump
  <2>2. caller[c].at = "reading" /\ lock[r] = c /\ caller[c].read = used[r]
    BY <1>7 DEF Accept, CommitLost, Bump, LockedReads
  <2>3. used' = [used EXCEPT ![r] = @ + cost] /\ used[r] + cost <= Cap
    BY <1>7, <2>2 DEF Accept, CommitLost, Bump, Fits
  <2>4. granted' = [granted EXCEPT ![r] = @ + cost] \/ granted' = granted
    BY <1>7 DEF Accept, CommitLost
  <2>5. caller' = [caller EXCEPT ![c] = Outside]
          \/ caller' = [caller EXCEPT ![c] = [at |-> "held", row |-> r, cost |-> cost]]
    BY <1>7 DEF Accept, CommitLost, Become
  <2>6. lock' = [lock EXCEPT ![r] = NoCaller] /\ opened' = opened \cup {r} /\ now' = now
    BY <1>7, <2>2, <2>1 DEF Accept, CommitLost, Bump, Unlock, BudgetTypeOK
  <2>7. BudgetTypeOK'
    <3>1. used' \in [Rows -> Nat] /\ granted' \in [Rows -> Int]
      BY <2>1, <2>3, <2>4 DEF BudgetTypeOK
    <3>2. PICK x \in {Outside} \cup Asking : caller' = [caller EXCEPT ![c] = x]
      BY <2>1, <2>5 DEF Asking
    <3>3. caller' \in [Callers -> {Outside} \cup Asking \cup Charging]
      BY <3>2 DEF BudgetTypeOK
    <3>4. /\ lock' \in [Rows -> Callers \cup {NoCaller}]
          /\ opened' \subseteq Rows /\ now' \in 0..MaxTime
      BY <2>1, <2>6 DEF BudgetTypeOK
    <3> QED
      BY <3>1, <3>3, <3>4 DEF BudgetTypeOK
  <2>8. CallsStayUnderCap'
    BY <2>1, <2>3, <2>4 DEF CallsStayUnderCap, BudgetTypeOK
  <2>9. LockedReads'
    <3> SUFFICES ASSUME NEW d \in Callers, caller'[d].at = "reading"
                 PROVE  /\ lock'[caller'[d].row] = d
                        /\ caller'[d].read = used'[caller'[d].row]
      BY DEF LockedReads
    <3>1. d # c /\ caller'[d] = caller[d]
      BY <2>5 DEF BudgetTypeOK, Outside
    <3>2. /\ lock[caller[d].row] = d /\ caller[d].read = used[caller[d].row]
          /\ caller[d].row \in Rows
      BY <3>1, CallerShape DEF LockedReads
    <3>3. caller[d].row # r
      BY <2>2, <3>1, <3>2
    <3> QED
      BY <2>1, <2>3, <2>6, <3>1, <3>2, <3>3 DEF BudgetTypeOK
  <2> QED
    BY <2>7, <2>8, <2>9
<1>8. ASSUME NEW c \in Callers, Rollback(c)
      PROVE  BudgetInv'
  <2>1. caller[c].row \in Rows
    BY <1>8, CallerShape DEF Rollback
  <2>2. BudgetTypeOK'
    BY <1>8, <2>1 DEF Rollback, Unlock, BudgetTypeOK
  <2>3. CallsStayUnderCap'
    BY <1>8 DEF Rollback, CallsStayUnderCap
  <2>4. LockedReads'
    BY <1>8, <2>1, CallerShape DEF Rollback, Unlock, LockedReads, BudgetTypeOK, Outside
  <2> QED
    BY <2>2, <2>3, <2>4
<1>9. ASSUME NEW c \in Callers, Refund(c)
      PROVE  BudgetInv'
  <2>1. caller[c].row \in Rows /\ caller[c].cost \in Nat /\ Cap \in Nat
    BY <1>9, CallerShape, BudgetAssumption, Zenon DEF Refund
  <2>2. BudgetTypeOK'
    BY <1>9, <2>1 DEF Refund, Refunded, BudgetTypeOK
  <2>3. CallsStayUnderCap'
    BY <1>9, <2>1 DEF Refund, Refunded, CallsStayUnderCap, BudgetTypeOK
  <2>4. LockedReads'
    <3> SUFFICES ASSUME NEW d \in Callers, caller'[d].at = "reading"
                 PROVE  /\ lock'[caller'[d].row] = d
                        /\ caller'[d].read = used'[caller'[d].row]
      BY DEF LockedReads
    <3>1. d # c /\ caller'[d] = caller[d]
      BY <1>9 DEF Refund, BudgetTypeOK, Outside
    <3>2. /\ lock[caller[d].row] = d /\ caller[d].read = used[caller[d].row]
          /\ caller[d].row \in Rows
      BY <3>1, CallerShape DEF LockedReads
    <3>3. caller[d].row # caller[c].row
      BY <1>9, <3>2, BudgetAssumption DEF Refund
    <3> QED
      BY <1>9, <2>1, <3>1, <3>2, <3>3 DEF Refund, BudgetTypeOK
  <2> QED
    BY <2>2, <2>3, <2>4
<1> QED
  BY <1>1, <1>2, <1>3, <1>4, <1>5, <1>6, <1>7, <1>8, <1>9 DEF BudgetNext

(* A caller that moves on keeps its window.                                 *)
LEMMA AlignedSteps == BudgetTypeOK /\ Aligned /\ [BudgetNext]_budgetVars => Aligned'
<1> SUFFICES ASSUME BudgetTypeOK, Aligned, [BudgetNext]_budgetVars PROVE Aligned'
  OBVIOUS
<1>0. caller \in [Callers -> {Outside} \cup Asking \cup Charging]
  BY DEF BudgetTypeOK
<1>1. ASSUME now' = now, opened' = opened, NEW c \in Callers, NEW x,
             caller' = [caller EXCEPT ![c] = x], x # Outside => BegunWindow(x.row[2])
      PROVE  Aligned'
  <2>1. \A t : BegunWindow(t)' <=> BegunWindow(t)
    BY <1>1, Zenon DEF BegunWindow
  <2>2. \A d \in Callers : caller'[d] = IF d = c THEN x ELSE caller[d]
    BY <1>0, <1>1
  <2> QED
    BY <1>1, <2>1, <2>2, Zenon DEF Aligned
<1>2. CASE Tick
  <2>1. \A t : BegunWindow(t) => BegunWindow(t)'
    <3> SUFFICES ASSUME NEW t, BegunWindow(t) PROVE BegunWindow(t)'
      OBVIOUS
    <3>1. PICK k \in Nat : t = k * Window
      BY DEF BegunWindow
    <3>2. t \in Nat
      BY <3>1, BudgetAssumption
    <3> QED
      BY <1>2, <3>1, <3>2 DEF Tick, BegunWindow, BudgetTypeOK
  <2> QED
    BY <1>2, <2>1, Zenon DEF Tick, Aligned
<1>3. ASSUME NEW c \in Callers, NEW l \in Ledgers, NEW cost \in Costs, Reserve(c, l, cost)
      PROVE  Aligned'
  <2>1. BegunWindow(WindowStartFor(now))
    BY WindowStartIsAligned DEF BudgetTypeOK, BegunWindow
  <2>2. PICK x : x = [at |-> "reserving", row |-> <<l, WindowStartFor(now)>>, cost |-> cost]
    OBVIOUS
  <2>3. x.row[2] = WindowStartFor(now)
    BY <2>2
  <2>4. caller' = [caller EXCEPT ![c] = x] /\ now' = now /\ opened' = opened
    BY <1>3, <2>2 DEF Reserve
  <2> QED
    BY <1>1, <2>1, <2>3, <2>4, Zenon
<1>4. ASSUME NEW c \in Callers, GiveUp(c) \/ Rollback(c) \/ Keep(c) \/ Refund(c)
      PROVE  Aligned'
  <2>1. caller' = [caller EXCEPT ![c] = Outside] /\ now' = now /\ opened' = opened
    BY <1>4, Zenon DEF GiveUp, Rollback, Keep, Refund
  <2> QED
    BY <1>1, <2>1, Zenon
<1>5. ASSUME NEW c \in Callers, caller[c].at # "idle"
      PROVE  BegunWindow(caller[c].row[2])
  BY <1>5 DEF Aligned, Outside
<1>6. ASSUME NEW c \in Callers, ReadUsage(c) \/ Refuse(c)
      PROVE  Aligned'
  <2>1. PICK x : /\ caller' = [caller EXCEPT ![c] = x] /\ x.row = caller[c].row
                 /\ now' = now /\ opened' = opened
    BY <1>0, <1>6 DEF ReadUsage, Refuse, Become
  <2>2. caller[c].at # "idle"
    BY <1>6 DEF ReadUsage, Refuse
  <2> QED
    BY <1>1, <1>5, <2>1, <2>2
<1>7. ASSUME NEW c \in Callers, Accept(c) \/ CommitLost(c)
      PROVE  Aligned'
  <2>1. now' = now /\ opened' = opened \cup {caller[c].row} /\ caller[c].at # "idle"
    BY <1>7 DEF Accept, CommitLost, Bump
  <2>2. PICK x : /\ caller' = [caller EXCEPT ![c] = x]
                 /\ x # Outside => x.row = caller[c].row
    BY <1>0, <1>7 DEF Accept, CommitLost, Become
  <2>3. \A t : BegunWindow(t)' <=> BegunWindow(t)
    BY <2>1, Zenon DEF BegunWindow
  <2>4. \A d \in Callers : caller'[d] = IF d = c THEN x ELSE caller[d]
    BY <1>0, <2>2
  <2>5. BegunWindow(caller[c].row[2])
    BY <1>5, <2>1
  <2> QED
    BY <2>1, <2>2, <2>3, <2>4, <2>5, Zenon DEF Aligned
<1>8. CASE UNCHANGED budgetVars
  BY <1>8, Zenon DEF budgetVars, Aligned, BegunWindow
<1> QED
  BY <1>2, <1>3, <1>4, <1>6, <1>7, <1>8, Zenon DEF BudgetNext

(* BudgetInv holds in every reachable state.                                *)
THEOREM BudgetInductive == BudgetSpec => []BudgetInv
<1>1. BudgetInit => BudgetInv
  BY BudgetStarts
<1>2. BudgetInv /\ [BudgetNext]_budgetVars => BudgetInv'
  BY BudgetSteps
<1> QED
  BY <1>1, <1>2, PTL DEF BudgetSpec

(* For any window length and any number of callers, however late they come  *)
(* to charge: the windows of a ledger with a row do not overlap, as each is *)
(* one of window_start_for.                                                 *)
THEOREM OneWindowAtATime == BudgetSpec => []WindowsAreDisjoint
<1>1. BudgetInit => Aligned
  BY Zenon DEF BudgetInit, Aligned
<1>2. BudgetInv /\ Aligned => WindowsAreDisjoint
  <2> SUFFICES ASSUME Aligned PROVE WindowsAreDisjoint
    OBVIOUS
  <2>1. ASSUME NEW r \in opened, NEW s \in opened, r[2] < s[2]
        PROVE  r[2] + Window <= s[2]
    <3>1. PICK j \in Nat : r[2] = j * Window
      BY DEF Aligned, BegunWindow
    <3>2. PICK k \in Nat : s[2] = k * Window
      BY DEF Aligned, BegunWindow
    <3> QED
      BY <2>1, <3>1, <3>2, WindowsApart
  <2>2. \A r \in opened : r[2] <= now
    BY DEF Aligned, BegunWindow
  <2> QED
    BY <2>1, <2>2 DEF WindowsAreDisjoint
<1>3. BudgetInv => BudgetTypeOK
  BY DEF BudgetInv
<1> QED
  BY <1>1, <1>2, <1>3, AlignedSteps, BudgetInductive, PTL DEF BudgetSpec

(* The calls of a window never cost more than its cap: charge and refund    *)
(* keep every granted call covered by persisted usage, for any number of    *)
(* concurrent callers.                                                      *)
THEOREM BudgetIsKept == BudgetSpec => []CallsStayUnderCap
<1>1. BudgetInv => CallsStayUnderCap
  BY DEF BudgetInv
<1> QED
  BY <1>1, BudgetInductive, PTL

(* The usage a refusal rests on is the usage of the row at that instant,    *)
(* because charge reads it under the row lock.                              *)
THEOREM RefusalsAreTruthful == BudgetSpec => RefusedOnlyWhenFull
<1> DEFINE Truthful ==
      \A c \in Callers : caller[c].at = "reading" /\ caller'[c].at = "full"
         => ~(used[caller[c].row] + caller[c].cost <= Cap)
<1>1. BudgetInv /\ [BudgetNext]_budgetVars => [Truthful]_budgetVars
  <2> SUFFICES ASSUME BudgetInv, BudgetNext, NEW c \in Callers,
                      caller[c].at = "reading", caller'[c].at = "full"
               PROVE  ~(used[caller[c].row] + caller[c].cost <= Cap)
    OBVIOUS
  <2>0. caller \in [Callers -> {Outside} \cup Asking \cup Charging]
    BY DEF BudgetInv, BudgetTypeOK
  <2>1. Refuse(c)
    <3>1. CASE Tick
      BY <3>1 DEF Tick
    <3>2. ASSUME NEW d \in Callers, NEW x, caller' = [caller EXCEPT ![d] = x], x.at # "full"
          PROVE  FALSE
      BY <2>0, <3>2
    <3>3. ASSUME NEW d \in Callers, NEW l \in Ledgers, NEW cost \in Costs, Reserve(d, l, cost)
          PROVE  FALSE
      BY <3>2, <3>3 DEF Reserve
    <3>4. ASSUME NEW d \in Callers, \/ GiveUp(d) \/ CommitLost(d) \/ Rollback(d)
                                    \/ Keep(d) \/ Refund(d)
          PROVE  FALSE
      <4>1. caller' = [caller EXCEPT ![d] = Outside]
        BY <3>4, Zenon DEF GiveUp, CommitLost, Rollback, Keep, Refund
      <4> QED
        BY <3>2, <4>1 DEF Outside
    <3>5. ASSUME NEW d \in Callers, ReadUsage(d) \/ Accept(d) PROVE FALSE
      BY <3>2, <3>5 DEF ReadUsage, Accept, Become
    <3>6. ASSUME NEW d \in Callers, Refuse(d) PROVE d = c
      BY <2>0, <3>6 DEF Refuse, Become
    <3> QED
      BY <3>1, <3>3, <3>4, <3>5, <3>6, Zenon DEF BudgetNext
  <2> QED
    BY <2>1 DEF Refuse, Fits, BudgetInv, LockedReads
<1> QED
  BY <1>1, BudgetInductive, PTL DEF BudgetSpec, RefusedOnlyWhenFull
=============================================================================
