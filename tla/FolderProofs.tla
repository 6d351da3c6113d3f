---------------------------- MODULE FolderProofs ----------------------------
(***************************************************************************)
(* Proofs about FolderSnapshot: its types, that the observations of a       *)
(* folder tell its membership, and that a run which completes tells the     *)
(* truth of the posts its owner left alone, for any posts, runs, tasks and  *)
(* page size.                                                               *)
(***************************************************************************)
EXTENDS FolderSnapshot, FiniteSetTheorems, WellFoundedInduction, TLAPS

(* The bounds are numbers.                                                  *)
LEMMA Bounds ==
  MaxAdds \in Nat /\ MaxCrashes \in Nat /\ Start \in Tokens /\ 0..MaxAdds \subseteq Tokens
  BY FolderAssumption DEF Start, Tokens

-----------------------------------------------------------------------------
(* The provider's pages.                                                    *)

(* A nonempty set of naturals has a least member.                           *)
LEMMA LeastExists ==
  ASSUME NEW S \in SUBSET Nat, S # {}
  PROVE  \E m \in S : \A n \in S : m <= n
<1>1. PICK m \in S : \A n \in S : ~(<<n, m>> \in OpToRel(<, Nat))
  BY NatLessThanWellFounded, WFMin, Zenon
<1>2. \A n \in S : ~(n < m)
  BY <1>1, Zenon DEF OpToRel
<1> QED
  BY <1>2

(* A nonempty set of bounded naturals has a greatest one.                   *)
LEMMA GreatestExists ==
  ASSUME NEW b \in Nat, NEW S \in SUBSET (0..b), S # {}
  PROVE  \E m \in S : \A n \in S : n <= m
<1> DEFINE T == {b - i : i \in S}
<1>1. T \subseteq Nat /\ T # {}
  <2>1. \A i \in S : b - i \in Nat
    OBVIOUS
  <2>2. PICK i \in S : TRUE
    OBVIOUS
  <2>3. b - i \in T
    BY <2>2
  <2> QED
    BY <2>1, <2>3
<1>2. PICK d \in T : \A e \in T : d <= e
  BY <1>1, LeastExists, Zenon
<1>3. PICK m \in S : d = b - m
  OBVIOUS
<1>4. ASSUME NEW n \in S PROVE n <= m
  <2>1. b - n \in T
    OBVIOUS
  <2>2. b - m <= b - n
    BY <2>1, <1>2, <1>3
  <2> HIDE DEF T
  <2> QED
    BY <2>2
<1> QED
  BY <1>4

(* The continuation of a page that does not end the listing is the time of  *)
(* one of its posts.                                                        *)
LEMMA ContinuationShown ==
  ASSUME TypeOK, NEW token \in Tokens, Page(token) # Listed(token)
  PROVE  \E q \in Page(token) : NextToken(token) = added[q]
<1>1. Page(token) \subseteq Listed(token) /\ Listed(token) \subseteq Posts
  BY DEF Page, Listed, InFolder
<1> DEFINE times == {added[p] : p \in Listed(token)}
<1>2. times \in SUBSET (0..MaxAdds) /\ times # {}
  BY <1>1 DEF TypeOK, Page
<1>3. PICK p \in Listed(token) : \A q \in Listed(token) : added[q] <= added[p]
  <2>1. PICK t \in times : \A u \in times : u <= t
    BY <1>2, GreatestExists, Bounds, Zenon
  <2> QED
    BY <2>1
<1>4. {q \in Listed(token) : added[q] > added[p]} = {}
  BY <1>1, <1>3 DEF TypeOK
<1>5. p \in Page(token)
  BY <1>3, <1>4, FS_EmptySet, FolderAssumption DEF Page
<1> DEFINE shown == {added[q] : q \in Page(token)}
<1>6. shown \in SUBSET Nat /\ shown # {}
  BY <1>1, <1>5 DEF TypeOK
<1>7. \E t \in shown : \A u \in shown : t <= u
  BY <1>6, LeastExists, Zenon
<1>8. \E t \in shown : \A q \in Page(token) : t <= added[q]
  BY <1>7
<1>9. NextToken(token) \in shown
  BY <1>8 DEF NextToken
<1> QED
  BY <1>9

(* A page is part of the folder, and its continuation is a token.           *)
LEMMA PageTyped ==
  ASSUME TypeOK, NEW token \in Tokens
  PROVE  Page(token) \subseteq Posts /\ NextToken(token) \in Tokens
<1>1. Page(token) \subseteq Posts
  BY DEF Page, Listed, InFolder
<1>2. CASE Page(token) = Listed(token)
  BY <1>1, <1>2, FolderAssumption DEF NextToken, End, Tokens
<1>3. CASE Page(token) # Listed(token)
  BY <1>1, <1>3, ContinuationShown, Bounds, Zenon DEF TypeOK
<1> QED
  BY <1>2, <1>3

-----------------------------------------------------------------------------
(* Types.                                                                   *)

(* A task's next local state is one.                                        *)
LEMMA WalkTyped ==
  ASSUME NEW at \in {"resume", "fetch", "stage", "finish"}, NEW r \in Runs,
         NEW token \in Tokens, NEW page \in SUBSET Posts
  PROVE  Walk(at, r, token, page) \in Walks
  BY DEF Walk, Walks

(* A task that is under way has a run, a token and a page.                  *)
LEMMA UnderWay ==
  ASSUME TypeOK, NEW w \in Runners, runner[w] # Idle
  PROVE  /\ runner[w] \in Walks /\ runner[w].run \in Runs
         /\ runner[w].token \in Tokens /\ runner[w].page \in SUBSET Posts
         /\ run[runner[w].run] \in RunRows
  BY DEF TypeOK, Walks

(* The local state of a task that is not idle names where it is.            *)
LEMMA IdleIsIdle ==
  ASSUME NEW w \in Runners, runner[w].at # "idle"
  PROVE  runner[w] # Idle
  BY DEF Idle

(* Becoming keeps the tasks typed.                                          *)
LEMMA BecomeTyped ==
  ASSUME TypeOK, NEW w \in Runners, NEW t \in {Idle} \cup Walks, Become(w, t)
  PROVE  runner' \in [Runners -> {Idle} \cup Walks]
  BY DEF TypeOK, Become

(* The steps of the provider's folder and of a task keep the types.         *)
LEMMA OwnerTyped ==
  ASSUME TypeOK, NEW p \in Posts, OwnerAdds(p) \/ OwnerRemoves(p)
  PROVE  TypeOK'
<1>1. touched' \in [Runs -> SUBSET Posts]
  <2>1. Touch(p)
    BY DEF OwnerAdds, OwnerRemoves
  <2>2. touched \in [Runs -> SUBSET Posts]
    BY DEF TypeOK
  <2> QED
    BY <2>1, <2>2 DEF Touch
<1>2. CASE OwnerAdds(p)
  <2>1. adds' \in 0..MaxAdds /\ adds + 1 \in 0..MaxAdds
    BY <1>2, Bounds DEF TypeOK, OwnerAdds
  <2>2. added' \in [Posts -> 0..MaxAdds]
    BY <1>2, <2>1 DEF TypeOK, OwnerAdds
  <2> QED
    BY <1>1, <1>2, <2>1, <2>2, Zenon DEF TypeOK, OwnerAdds, projection
<1>3. CASE OwnerRemoves(p)
  <2>1. added' \in [Posts -> 0..MaxAdds]
    BY <1>3, Bounds DEF TypeOK, OwnerRemoves
  <2> QED
    BY <1>1, <1>3, <2>1, Zenon DEF TypeOK, OwnerRemoves, projection
<1> QED
  BY <1>2, <1>3

(* A step that rewrites one run keeps the runs typed.                       *)
LEMMA RewriteTyped ==
  ASSUME TypeOK, NEW r \in Runs, NEW x \in RunRows, run' = [run EXCEPT ![r] = x]
  PROVE  run' \in [Runs -> RunRows]
  BY DEF TypeOK

(* What the steps other than the completion make of a run is a run, and     *)
(* complete when it was.                                                    *)
LEMMA RowKinds ==
  ASSUME NEW x \in RunRows, NEW k \in {"none", "limit", "membership"}
  PROVE  [x EXCEPT !.kind = k] \in RunRows /\ [x EXCEPT !.kind = k].complete = x.complete
  BY DEF RunRows

(* So does rewriting its state ...                                         *)
LEMMA RowStates ==
  ASSUME NEW x \in RunRows, NEW s \in {"running", "failed", "completed"}
  PROVE  [x EXCEPT !.state = s] \in RunRows /\ [x EXCEPT !.state = s].complete = x.complete
  BY DEF RunRows

(* ... both of them ...                                                     *)
LEMMA RowLimited ==
  ASSUME NEW x \in RunRows
  PROVE  /\ [x EXCEPT !.kind = "limit", !.state = "failed"] \in RunRows
         /\ [x EXCEPT !.kind = "limit", !.state = "failed"].complete = x.complete
  BY Zenon DEF RunRows

(* ... or its snapshot and its checkpoint.                                  *)
LEMMA RowStaged ==
  ASSUME NEW x \in RunRows, NEW page \in SUBSET Posts, NEW token \in Tokens
  PROVE  /\ [x EXCEPT !.items = @ \cup page, !.checkpoint = token] \in RunRows
         /\ [x EXCEPT !.items = @ \cup page, !.checkpoint = token].complete = x.complete
  BY Zenon DEF RunRows

(* The step rewrites no run but r, and leaves it complete if it was.        *)
Rewrites(r) ==
  \/ run' = run
  \/ \E x \in RunRows : run' = [run EXCEPT ![r] = x] /\ x.complete = run[r].complete

(* A step that starts a task or answers a limit rewrites the run it names.  *)
LEMMA RunRewrites ==
  ASSUME TypeOK, NEW w \in Runners, NEW r \in Runs, NEW c \in Capabilities,
         \/ CreateRun(w, r) \/ Resume(w, r) \/ ReportLimitDies(w, r) \/ ReportLimit(w, r, c)
  PROVE  Rewrites(r)
<1>0. run[r] \in RunRows
  BY DEF TypeOK
<1>1. CASE CreateRun(w, r)
  <2>1. run' = [run EXCEPT ![r] = [run[r] EXCEPT !.kind = "membership"]]
    BY <1>1 DEF CreateRun
  <2> QED
    BY <1>0, <2>1, RowKinds, Zenon DEF Rewrites
<1>2. CASE Resume(w, r)
  BY <1>2 DEF Resume, Rewrites
<1>3. CASE ReportLimitDies(w, r)
  <2>1. run' = [run EXCEPT ![r] = [run[r] EXCEPT !.kind = "limit"]]
    BY <1>3 DEF ReportLimitDies
  <2> QED
    BY <1>0, <2>1, RowKinds, Zenon DEF Rewrites
<1>4. CASE ReportLimit(w, r, c)
  <2>1. run' = [run EXCEPT ![r] = [run[r] EXCEPT !.kind = "limit", !.state = "failed"]]
    BY <1>4, Zenon DEF ReportLimit
  <2> QED
    BY <1>0, <2>1, RowLimited, Zenon DEF Rewrites
<1> QED
  BY <1>1, <1>2, <1>3, <1>4

(* A step of a task under way rewrites the run of the task.                 *)
LEMMA TaskRewrites ==
  ASSUME TypeOK, NEW w \in Runners, NEW c \in Capabilities, runner[w] # Idle,
         \/ SetRunning(w) \/ MarkFailed(w) \/ MarkCapabilityLimited(w, c)
         \/ FetchPage(w) \/ StagePage(w) \/ CompleteRefused(w) \/ Crash(w)
  PROVE  Rewrites(runner[w].run)
<1> DEFINE r == runner[w].run
<1>0. /\ r \in Runs /\ run[r] \in RunRows
      /\ runner[w].token \in Tokens /\ runner[w].page \in SUBSET Posts
  BY UnderWay
<1>1. CASE FetchPage(w) \/ CompleteRefused(w) \/ Crash(w)
  BY <1>1 DEF FetchPage, CompleteRefused, Crash, Rewrites
<1>2. CASE SetRunning(w)
  <2>1. run' = [run EXCEPT ![r] = [run[r] EXCEPT !.state = "running"]]
    BY <1>2 DEF SetRunning
  <2> QED
    BY <1>0, <2>1, RowStates, Zenon DEF Rewrites
<1>3. CASE MarkFailed(w) \/ MarkCapabilityLimited(w, c)
  <2>1. run' = [run EXCEPT ![r] = [run[r] EXCEPT !.state = "failed"]]
    BY <1>3 DEF MarkFailed, MarkCapabilityLimited
  <2> QED
    BY <1>0, <2>1, RowStates, Zenon DEF Rewrites
<1>4. CASE StagePage(w)
  <2> DEFINE next == Checkpoint(runner[w].token)
             x == [run[r] EXCEPT !.items = @ \cup runner[w].page, !.checkpoint = next]
  <2>1. next \in Tokens
    BY <1>0, Bounds DEF Checkpoint
  <2>2. run' = [run EXCEPT ![r] = x]
    BY <1>4, Zenon DEF StagePage
  <2> HIDE DEF next
  <2>3. x \in RunRows /\ x.complete = run[r].complete
    BY <1>0, <2>1, RowStaged, Zenon
  <2> HIDE DEF x
  <2> QED
    BY <2>2, <2>3, Zenon DEF Rewrites
<1> QED
  BY <1>1, <1>2, <1>3, <1>4

(* A rewritten run leaves the runs typed and as complete as before.         *)
LEMMA Rewritten ==
  ASSUME TypeOK, NEW r \in Runs, Rewrites(r)
  PROVE  run' \in [Runs -> RunRows] /\ \A s \in Runs : run'[s].complete = run[s].complete
<1>1. CASE run' = run
  BY <1>1 DEF TypeOK
<1>2. ASSUME NEW x \in RunRows, run' = [run EXCEPT ![r] = x], x.complete = run[r].complete
      PROVE  run' \in [Runs -> RunRows] /\ \A s \in Runs : run'[s].complete = run[s].complete
  <2>1. run' \in [Runs -> RunRows]
    BY <1>2, RewriteTyped, Zenon
  <2>2. \A s \in Runs : run'[s] = IF s = r THEN x ELSE run[s]
    BY <1>2 DEF TypeOK
  <2> QED
    BY <1>2, <2>1, <2>2
<1> QED
  BY <1>1, <1>2 DEF Rewrites

(* Starting a task and answering a limit keep the types.                    *)
LEMMA RunTyped ==
  ASSUME TypeOK, NEW w \in Runners, NEW r \in Runs, NEW c \in Capabilities,
         \/ CreateRun(w, r) \/ Resume(w, r) \/ ReportLimitDies(w, r) \/ ReportLimit(w, r, c)
  PROVE  TypeOK'
<1>0. Start \in Tokens /\ {} \in SUBSET Posts /\ run[r].checkpoint \in Tokens
  BY Bounds DEF TypeOK, RunRows
<1>1. run' \in [Runs -> RunRows]
  BY RunRewrites, Rewritten
<1>2. CASE CreateRun(w, r) \/ Resume(w, r)
  <2>1. runner' \in [Runners -> {Idle} \cup Walks]
    BY <1>0, <1>2, WalkTyped, BecomeTyped DEF CreateRun, Resume
  <2> QED
    BY <1>1, <1>2, <2>1, Zenon DEF CreateRun, Resume, TypeOK, provider, projection
<1>3. CASE ReportLimitDies(w, r)
  <2>1. crashes' \in 0..MaxCrashes
    BY <1>3, Bounds DEF ReportLimitDies, TypeOK
  <2> QED
    BY <1>1, <1>3, <2>1 DEF ReportLimitDies, TypeOK, provider, projection
<1>4. CASE ReportLimit(w, r, c)
  BY <1>1, <1>4 DEF ReportLimit, TypeOK, provider, projection
<1> QED
  BY <1>2, <1>3, <1>4

(* So does each step of a task under way but the completion.                *)
LEMMA TaskTyped ==
  ASSUME TypeOK, NEW w \in Runners, NEW c \in Capabilities, runner[w] # Idle,
         \/ SetRunning(w) \/ MarkFailed(w) \/ MarkCapabilityLimited(w, c)
         \/ FetchPage(w) \/ StagePage(w) \/ CompleteRefused(w) \/ Crash(w)
  PROVE  TypeOK'
<1> DEFINE r == runner[w].run
           token == runner[w].token
<1>0. /\ runner[w] \in Walks /\ r \in Runs
      /\ token \in Tokens /\ runner[w].page \in SUBSET Posts
  BY UnderWay
<1>1. run' \in [Runs -> RunRows]
  BY <1>0, TaskRewrites, Rewritten
<1>2. Idle \in {Idle} \cup Walks
  OBVIOUS
<1>3. CASE SetRunning(w)
  <2>1. [runner[w] EXCEPT !.at = "fetch"] \in Walks
    BY <1>0 DEF Walks
  <2>2. runner' = [runner EXCEPT ![w] = [runner[w] EXCEPT !.at = "fetch"]]
    BY <1>3 DEF SetRunning
  <2>3. runner' \in [Runners -> {Idle} \cup Walks]
    BY <2>1, <2>2 DEF TypeOK
  <2> QED
    BY <1>1, <1>3, <2>3 DEF SetRunning, TypeOK, provider, projection
<1>4. CASE MarkFailed(w) \/ CompleteRefused(w)
  <2>1. runner' \in [Runners -> {Idle} \cup Walks]
    BY <1>2, <1>4, BecomeTyped DEF MarkFailed, CompleteRefused
  <2> QED
    BY <1>1, <1>4, <2>1, Zenon DEF MarkFailed, CompleteRefused, TypeOK, provider, projection
<1>5. CASE MarkCapabilityLimited(w, c)
  <2>1. runner' \in [Runners -> {Idle} \cup Walks]
    BY <1>2, <1>5, BecomeTyped DEF MarkCapabilityLimited
  <2> QED
    BY <1>1, <1>5, <2>1 DEF MarkCapabilityLimited, TypeOK, provider, projection
<1>6. CASE FetchPage(w)
  <2>1. Page(token) \in SUBSET Posts /\ NextToken(token) \in Tokens
    BY <1>0, PageTyped
  <2>2. runner' \in [Runners -> {Idle} \cup Walks]
    BY <1>0, <1>6, <2>1, WalkTyped, BecomeTyped DEF FetchPage
  <2> QED
    BY <1>1, <1>6, <2>2, Zenon DEF FetchPage, TypeOK, provider, projection
<1>7. CASE StagePage(w)
  <2>1. Walk(IF token = End THEN "finish" ELSE "fetch", r, token, {}) \in Walks
    BY <1>0, WalkTyped
  <2>2. runner' \in [Runners -> {Idle} \cup Walks]
    BY <1>7, <2>1, BecomeTyped DEF StagePage
  <2> QED
    BY <1>1, <1>7, <2>2 DEF StagePage, TypeOK, provider, projection
<1>8. CASE Crash(w)
  <2>1. runner' \in [Runners -> {Idle} \cup Walks]
    BY <1>2, <1>8, BecomeTyped DEF Crash
  <2>2. crashes' \in 0..MaxCrashes
    BY <1>8, Bounds DEF Crash, TypeOK
  <2> QED
    BY <1>1, <1>8, <2>1, <2>2, Zenon DEF Crash, TypeOK, provider, projection
<1> QED
  BY <1>3, <1>4, <1>5, <1>6, <1>7, <1>8

(* A task that takes one of these steps is under way.                       *)
LEMMA TaskIsUnderWay ==
  ASSUME NEW w \in Runners, NEW c \in Capabilities,
         \/ SetRunning(w) \/ MarkFailed(w) \/ MarkCapabilityLimited(w, c) \/ FetchPage(w)
         \/ StagePage(w) \/ CompleteRun(w) \/ CompleteRefused(w) \/ Crash(w)
  PROVE  runner[w] # Idle
<1>1. CASE Crash(w)
  BY <1>1 DEF Crash
<1>2. CASE ~Crash(w)
  <2>1. runner[w].at # "idle"
    BY <1>2, Zenon DEF SetRunning, MarkFailed, MarkCapabilityLimited, FetchPage, StagePage,
                CompleteRun, CompleteRefused
  <2> QED
    BY <2>1, IdleIsIdle
<1> QED
  BY <1>1, <1>2

(* An observation appended to observations gives observations.              *)
LEMMA ObservationTyped ==
  ASSUME TypeOK, NEW r \in Runs, NEW p \in Posts, ReconcileMemberships(r)
  PROVE  history'[p] \in Seq([kind : {"added", "removed"}, run : Runs])
<1> DEFINE Observations == [kind : {"added", "removed"}, run : Runs]
<1>1. history[p] \in Seq(Observations)
  BY Zenon DEF TypeOK
<1>2. [kind |-> "added", run |-> r] \in Observations /\ [kind |-> "removed", run |-> r] \in Observations
  OBVIOUS
<1>3. history'[p] \in {history[p], Append(history[p], [kind |-> "added", run |-> r]),
                      Append(history[p], [kind |-> "removed", run |-> r])}
  BY DEF ReconcileMemberships
<1>4. ASSUME NEW o \in Observations PROVE Append(history[p], o) \in Seq(Observations)
  <2> HIDE DEF Observations
  <2> QED
    BY <1>1
<1>5. Append(history[p], [kind |-> "added", run |-> r]) \in Seq(Observations)
  BY <1>2, <1>4, Zenon
<1>6. Append(history[p], [kind |-> "removed", run |-> r]) \in Seq(Observations)
  BY <1>2, <1>4, Zenon
<1> QED
  BY <1>1, <1>3, <1>5, <1>6, Zenon

(* So does the completion, which reconciles the memberships.                *)
LEMMA CompleteTyped ==
  ASSUME TypeOK, NEW w \in Runners, CompleteRun(w)
  PROVE  TypeOK' /\ runner[w].run \in Runs
<1> DEFINE r == runner[w].run
           x == [run[r] EXCEPT !.state = "completed", !.complete = TRUE, !.checkpoint = Start]
<1>1. runner[w] # Idle
  BY DEF CompleteRun, Idle
<1>2. r \in Runs /\ run[r] \in RunRows
  BY <1>1, UnderWay
<1>3. x \in RunRows
  BY <1>2, Bounds, Zenon DEF RunRows
<1>4. run' = [run EXCEPT ![r] = x]
  BY <1>2, Zenon DEF CompleteRun, TypeOK
<1>5. run' \in [Runs -> RunRows]
  BY <1>2, <1>3, <1>4, RewriteTyped, Zenon
<1>6. runner' \in [Runners -> {Idle} \cup Walks]
  BY BecomeTyped DEF CompleteRun
<1>7. member' \in [Posts -> {"none", "active", "removed"}]
  BY DEF CompleteRun, ReconcileMemberships, TypeOK
<1>8. \A p \in Posts : history'[p] \in Seq([kind : {"added", "removed"}, run : Runs])
  BY <1>2, ObservationTyped, Zenon DEF CompleteRun
<1>9. touched' \in [Runs -> SUBSET Posts]
  BY <1>2 DEF CompleteRun, TypeOK
<1> QED
  BY <1>2, <1>5, <1>6, <1>7, <1>8, <1>9, Zenon DEF CompleteRun, TypeOK

(* The invariant of the types.                                              *)
LEMMA NextTyped ==
  ASSUME TypeOK, [Next]_vars
  PROVE  TypeOK'
<1>1. CASE UNCHANGED vars
  BY <1>1, Zenon DEF TypeOK, vars, provider, projection
<1>2. CASE Next
  <2>1. "listing" \in Capabilities
    BY DEF Capabilities
  <2> QED
    BY <1>2, <2>1, OwnerTyped, RunTyped, TaskTyped, TaskIsUnderWay, CompleteTyped DEF Next
<1> QED
  BY <1>1, <1>2

-----------------------------------------------------------------------------
(* The observations.                                                        *)

Told(p) ==
  LET h == history[p]
      n == Len(h)
  IN /\ \A i \in 1..n : /\ h[i].kind = IF i % 2 = 1 THEN "added" ELSE "removed"
                        /\ run[h[i].run].complete
                        /\ \A j \in 1..(i-1) : h[j].run # h[i].run
     /\ member[p] = IF n = 0 THEN "none" ELSE IF n % 2 = 1 THEN "active" ELSE "removed"

(* The parity of the next number.                                           *)
LEMMA Parity ==
  ASSUME NEW n \in Nat
  PROVE  (n + 1) % 2 = 1 <=> n % 2 # 1
  OBVIOUS

(* Each observation of a post names a run.                                  *)
LEMMA Observed ==
  ASSUME TypeOK, NEW p \in Posts
  PROVE  /\ Len(history[p]) \in Nat
         /\ \A i \in 1..Len(history[p]) : history[p][i].run \in Runs
<1> DEFINE Observations == [kind : {"added", "removed"}, run : Runs]
<1>1. history[p] \in Seq(Observations)
  BY Zenon DEF TypeOK
<1>2. Len(history[p]) \in Nat /\ \A i \in 1..Len(history[p]) : history[p][i] \in Observations
  <2> HIDE DEF Observations
  <2> QED
    BY <1>1
<1> QED
  BY <1>2

(* A completed run stays complete, and no other step touches the projection *)
(* of the folder.                                                           *)
LEMMA CompleteStays ==
  ASSUME TypeOK, [Next]_vars
  PROVE  /\ \A r \in Runs : run[r].complete => run'[r].complete
         /\ \/ member' = member /\ history' = history
            \/ \E w \in Runners : CompleteRun(w)
<1>1. CASE UNCHANGED vars
  BY <1>1 DEF vars, projection
<1>2. ASSUME NEW p \in Posts, OwnerAdds(p) \/ OwnerRemoves(p)
      PROVE  run' = run /\ member' = member /\ history' = history
  BY <1>2 DEF OwnerAdds, OwnerRemoves, projection
<1>3. ASSUME NEW w \in Runners, NEW r \in Runs, NEW c \in Capabilities,
             \/ CreateRun(w, r) \/ Resume(w, r) \/ ReportLimitDies(w, r) \/ ReportLimit(w, r, c)
      PROVE  /\ \A s \in Runs : run'[s].complete = run[s].complete
             /\ member' = member /\ history' = history
  <2>1. member' = member /\ history' = history
    BY <1>3 DEF CreateRun, Resume, ReportLimitDies, ReportLimit, projection
  <2> QED
    BY <1>3, <2>1, RunRewrites, Rewritten
<1>4. ASSUME NEW w \in Runners, NEW c \in Capabilities,
             \/ SetRunning(w) \/ MarkFailed(w) \/ MarkCapabilityLimited(w, c)
             \/ FetchPage(w) \/ StagePage(w) \/ CompleteRefused(w) \/ Crash(w)
      PROVE  /\ \A s \in Runs : run'[s].complete = run[s].complete
             /\ member' = member /\ history' = history
  <2>1. member' = member /\ history' = history
    BY <1>4 DEF SetRunning, MarkFailed, MarkCapabilityLimited, FetchPage, StagePage,
                CompleteRefused, Crash, projection
  <2>2. runner[w] # Idle
    BY <1>4, TaskIsUnderWay
  <2>3. runner[w].run \in Runs
    BY <2>2, UnderWay
  <2> QED
    BY <1>4, <2>1, <2>2, <2>3, TaskRewrites, Rewritten
<1>5. ASSUME NEW w \in Runners, CompleteRun(w)
      PROVE  \A r \in Runs : run[r].complete => run'[r].complete
  BY <1>5 DEF CompleteRun, TypeOK, RunRows
<1>6. CASE Next
  <2>1. "listing" \in Capabilities
    BY DEF Capabilities
  <2> QED
    BY <1>2, <1>3, <1>4, <1>5, <1>6, <2>1 DEF Next
<1> QED
  BY <1>1, <1>6

(* What is told of a post stays told while its projection does not move.    *)
LEMMA StaysTold ==
  ASSUME TypeOK, NEW p \in Posts, Told(p), \A r \in Runs : run[r].complete => run'[r].complete,
         member'[p] = member[p], history'[p] = history[p]
  PROVE  Told(p)'
<1>1. \A i \in 1..Len(history[p]) : history[p][i].run \in Runs
  BY Observed
<1> QED
  BY <1>1 DEF Told

(* An observation of a run that is not in them yet extends what is told,    *)
(* when its kind is the next in turn.                                       *)
LEMMA TellsMore ==
  ASSUME TypeOK, NEW p \in Posts, Told(p), \A r \in Runs : run[r].complete => run'[r].complete,
         NEW r \in Runs, ~run[r].complete, run'[r].complete,
         NEW k \in {"added", "removed"}, k = "added" <=> member[p] # "active",
         history'[p] = Append(history[p], [kind |-> k, run |-> r]),
         member'[p] = IF k = "added" THEN "active" ELSE "removed"
  PROVE  Told(p)'
<1> DEFINE h == history[p]
           n == Len(h)
           g == Append(h, [kind |-> k, run |-> r])
<1>1. n \in Nat /\ \A i \in 1..n : h[i].run \in Runs
  BY Observed
<1>2. Len(g) = n + 1 /\ g[n + 1] = [kind |-> k, run |-> r] /\ \A i \in 1..n : g[i] = h[i]
  BY <1>1 DEF TypeOK
<1>3. /\ \A i \in 1..n : /\ h[i].kind = IF i % 2 = 1 THEN "added" ELSE "removed"
                         /\ run[h[i].run].complete
                         /\ \A j \in 1..(i-1) : h[j].run # h[i].run
      /\ member[p] = IF n = 0 THEN "none" ELSE IF n % 2 = 1 THEN "active" ELSE "removed"
  BY DEF Told
<1>4. k = IF (n + 1) % 2 = 1 THEN "added" ELSE "removed"
  <2>1. (n + 1) % 2 = 1 <=> ~(n % 2 = 1)
    BY <1>1, Parity, Zenon
  <2>2. n = 0 => ~(n % 2 = 1)
    OBVIOUS
  <2> QED
    BY <1>3, <2>1, <2>2, Zenon
<1> HIDE DEF h, n
<1>5. \A i \in 1..n : h[i].run # r
  BY <1>3
<1>6. ASSUME NEW i \in 1..(n + 1)
      PROVE  /\ g[i].kind = IF i % 2 = 1 THEN "added" ELSE "removed"
             /\ run'[g[i].run].complete
             /\ \A j \in 1..(i-1) : g[j].run # g[i].run
  <2>1. CASE i \in 1..n
    <3>1. g[i] = h[i] /\ \A j \in 1..(i-1) : j \in 1..n /\ g[j] = h[j]
      BY <1>1, <1>2, <2>1
    <3>2. /\ h[i].kind = IF i % 2 = 1 THEN "added" ELSE "removed"
          /\ run[h[i].run].complete
          /\ \A j \in 1..(i-1) : h[j].run # h[i].run
      BY <1>3, <2>1
    <3>3. run'[h[i].run].complete
      BY <1>1, <2>1, <3>2
    <3> QED
      BY <3>1, <3>2, <3>3, Zenon
  <2>2. CASE i = n + 1
    <3>1. \A j \in 1..(i-1) : j \in 1..n /\ g[j] = h[j]
      BY <1>1, <1>2, <2>2
    <3>2. g[i].kind = k /\ g[i].run = r
      BY <1>2, <2>2
    <3> QED
      BY <1>4, <1>5, <2>2, <3>1, <3>2
  <2>3. i \in 1..n \/ i = n + 1
    BY <1>1
  <2> QED
    BY <2>1, <2>2, <2>3, Zenon
<1>7. member'[p] = IF Len(g) = 0 THEN "none" ELSE IF Len(g) % 2 = 1 THEN "active" ELSE "removed"
  BY <1>1, <1>2, <1>4
<1>8. history'[p] = g
  BY DEF h
<1>9. \A i \in 1..Len(g) : /\ g[i].kind = IF i % 2 = 1 THEN "added" ELSE "removed"
                          /\ run'[g[i].run].complete
                          /\ \A j \in 1..(i-1) : g[j].run # g[i].run
  BY <1>2, <1>6
<1> HIDE DEF g
<1> QED
  BY <1>7, <1>8, <1>9, Zenon DEF Told

(* Every step keeps the observations telling.                               *)
LEMMA NextTells ==
  ASSUME TypeOK, \A p \in Posts : Told(p), [Next]_vars
  PROVE  \A p \in Posts : Told(p)'
<1>0. SUFFICES ASSUME NEW p \in Posts PROVE Told(p)'
  OBVIOUS
<1>1. \A r \in Runs : run[r].complete => run'[r].complete
  BY CompleteStays
<1>2. CASE member' = member /\ history' = history
  BY <1>1, <1>2, StaysTold
<1>3. ASSUME NEW w \in Runners, CompleteRun(w) PROVE Told(p)'
  <2> DEFINE r == runner[w].run
  <2>1. r \in Runs /\ ~run[r].complete /\ ReconcileMemberships(r)
    BY <1>3, CompleteTyped, Zenon DEF CompleteRun, Finalizable
  <2>2. run'[r].complete
    BY <1>3, <2>1 DEF CompleteRun, TypeOK, RunRows
  <2>3. CASE p \in Gained(r)
    <3>1. member[p] # "active" /\ p \in run[r].items
      BY <2>3 DEF Gained, Active
    <3>2. /\ history'[p] = Append(history[p], [kind |-> "added", run |-> r])
          /\ member'[p] = "active"
      BY <2>1, <2>3, <3>1 DEF ReconcileMemberships
    <3> QED
      BY <1>1, <2>1, <2>2, <3>1, <3>2, TellsMore, Zenon
  <2>4. CASE p \in Absent(r)
    <3>1. member[p] = "active" /\ p \notin run[r].items /\ p \notin Gained(r)
      BY <2>4 DEF Absent, Gained, Active
    <3>2. /\ history'[p] = Append(history[p], [kind |-> "removed", run |-> r])
          /\ member'[p] = "removed"
      BY <2>1, <2>4, <3>1 DEF ReconcileMemberships
    <3> QED
      BY <1>1, <2>1, <2>2, <3>1, <3>2, TellsMore, Zenon
  <2>5. CASE p \notin Gained(r) /\ p \notin Absent(r)
    <3>1. history'[p] = history[p] /\ member'[p] = member[p]
      BY <2>1, <2>5 DEF ReconcileMemberships, Gained, Absent, Active
    <3> QED
      BY <1>1, <3>1, StaysTold
  <2> QED
    BY <2>3, <2>4, <2>5
<1> QED
  BY <1>2, <1>3, CompleteStays

-----------------------------------------------------------------------------
(* What an open run has seen.  A run of the posts touched T, over the folder *)
(* whose posts were added at the times a, has staged no untouched post that  *)
(* is not in the folder, and misses none but those its continuation still    *)
(* has to list.                                                              *)

Honest(S, T, a) == \A p \in S \ T : a[p] # 0
Covers(S, T, a, token) == \A p \in Posts \ T : a[p] # 0 => p \in S \/ a[p] < token

RunSaw(x, T, a) ==
  /\ x.kind = "none" => x = Unused
  /\ x.complete \/ (Honest(x.items, T, a) /\ Covers(x.items, T, a, x.checkpoint))

(* The same of a task on the run x, with its page and its own continuation. *)
WalkSaw(v, x, T, a) ==
  /\ x.kind # "none"
  /\ v.at # "stage" => v.page = {}
  /\ v.at = "finish" => v.token = End
  /\ x.complete \/ (Honest(v.page, T, a) /\ Covers(x.items \cup v.page, T, a, v.token))

SnapshotsSaw ==
  /\ \A r \in Runs : RunSaw(run[r], touched[r], added)
  /\ \A w \in Runners : runner[w] # Idle =>
       LET r == runner[w].run IN WalkSaw(runner[w], run[r], touched[r], added)

(* A post of the folder that the listing had before it is on the page or    *)
(* older than its continuation.                                             *)
LEMMA PageCovers ==
  ASSUME TypeOK, NEW token \in Tokens, NEW p \in Listed(token)
  PROVE  p \in Page(token) \/ added[p] < NextToken(token)
<1>1. CASE Page(token) = Listed(token)
  BY <1>1
<1>2. CASE Page(token) # Listed(token) /\ p \notin Page(token)
  <2> DEFINE Newer(q) == {x \in Listed(token) : added[x] > added[q]}
  <2>1. PICK q \in Page(token) : NextToken(token) = added[q]
    BY <1>2, ContinuationShown
  <2>2. /\ p \in Posts /\ q \in Posts /\ q \in Listed(token)
        /\ Listed(token) \subseteq Posts
        /\ added[p] \in Nat /\ added[q] \in Nat
        /\ \A x \in Listed(token) : added[x] \in Nat
    BY <2>1 DEF Page, Listed, InFolder, TypeOK
  <2>3. SUFFICES ASSUME added[q] <= added[p] PROVE FALSE
    BY <2>1, <2>2
  <2>4. Newer(p) \subseteq Newer(q)
    BY <2>2, <2>3
  <2>5. IsFiniteSet(Newer(q))
    <3>1. Newer(q) \subseteq Posts
      BY <2>2
    <3> HIDE DEF Newer
    <3> QED
      BY <3>1, FS_Subset, FolderAssumption
  <2>6. Cardinality(Newer(q)) < PageSize /\ ~(Cardinality(Newer(p)) < PageSize)
    BY <1>2, <2>1 DEF Page
  <2> HIDE DEF Newer
  <2>7. IsFiniteSet(Newer(p)) /\ Cardinality(Newer(p)) <= Cardinality(Newer(q))
    BY <2>4, <2>5, FS_Subset
  <2>8. Cardinality(Newer(p)) \in Nat /\ Cardinality(Newer(q)) \in Nat /\ PageSize \in Nat
    BY <2>5, <2>7, FS_CardinalityType, FolderAssumption
  <2> QED
    BY <2>6, <2>7, <2>8
<1> QED
  BY <1>1, <1>2

(* A run that loses nothing and names no other kind than its own still saw  *)
(* what its tasks saw.                                                      *)
LEMMA WalkStillSaw ==
  ASSUME NEW v \in Walks, NEW x \in RunRows, NEW y \in RunRows, NEW T, NEW a, WalkSaw(v, x, T, a),
         y.kind # "none", x.items \subseteq y.items, x.complete => y.complete
  PROVE  WalkSaw(v, y, T, a)
  BY DEF WalkSaw, Covers

(* A step that only touches posts leaves what was seen of the others.       *)
LEMMA UntouchedStillSeen ==
  ASSUME NEW T, NEW U, NEW a, NEW b, T \subseteq U,
         \A p \in Posts \ U : b[p] = a[p]
  PROVE  /\ \A x \in RunRows : x.kind # "none" /\ RunSaw(x, T, a) => RunSaw(x, U, b)
         /\ \A x \in RunRows : \A v \in Walks : WalkSaw(v, x, T, a) => WalkSaw(v, x, U, b)
<1>1. ASSUME NEW S \in SUBSET Posts, Honest(S, T, a) PROVE Honest(S, U, b)
  BY <1>1 DEF Honest
<1>2. ASSUME NEW S \in SUBSET Posts, NEW t \in Tokens, Covers(S, T, a, t) PROVE Covers(S, U, b, t)
  BY <1>2 DEF Covers
<1>3. \A x \in RunRows : x.items \in SUBSET Posts /\ x.checkpoint \in Tokens
  BY DEF RunRows
<1>4. \A v \in Walks : v.page \in SUBSET Posts /\ v.token \in Tokens
  BY DEF Walks
<1>5. ASSUME NEW x \in RunRows, x.kind # "none", RunSaw(x, T, a) PROVE RunSaw(x, U, b)
  BY <1>1, <1>2, <1>3, <1>5 DEF RunSaw
<1>6. ASSUME NEW x \in RunRows, NEW v \in Walks, WalkSaw(v, x, T, a) PROVE WalkSaw(v, x, U, b)
  <2>1. x.items \cup v.page \in SUBSET Posts
    BY <1>3, <1>4
  <2> QED
    BY <1>1, <1>2, <1>4, <1>6, <2>1 DEF WalkSaw
<1> QED
  BY <1>5, <1>6

(* A run that is not begun has seen nothing and owes everything.            *)
LEMMA UnusedSaw ==
  ASSUME NEW T, NEW a \in [Posts -> 0..MaxAdds]
  PROVE  /\ RunSaw(Unused, T, a)
         /\ \A S : Covers(S, T, a, Start)
<1>1. \A S : Covers(S, T, a, Start)
  BY Bounds DEF Covers, Start
<1> QED
  BY <1>1 DEF RunSaw, Unused, Honest

(* The owner's steps keep what the open runs saw.                           *)
LEMMA OwnerSaw ==
  ASSUME TypeOK, SnapshotsSaw, NEW p \in Posts, OwnerAdds(p) \/ OwnerRemoves(p), TypeOK'
  PROVE  SnapshotsSaw'
<1>1. /\ run' = run /\ runner' = runner /\ Touch(p)
      /\ \A q \in Posts : q # p => added'[q] = added[q]
  BY DEF OwnerAdds, OwnerRemoves, TypeOK
<1>2. \A r \in Runs : run[r] \in RunRows
  BY DEF TypeOK
<1>3. ASSUME NEW r \in Runs, run[r].kind # "none", ~run[r].complete
      PROVE  touched[r] \subseteq touched'[r] /\ \A q \in Posts \ touched'[r] : added'[q] = added[q]
  BY <1>1, <1>3 DEF Touch
<1>4. ASSUME NEW r \in Runs PROVE RunSaw(run[r], touched'[r], added')
  <2>1. RunSaw(run[r], touched[r], added)
    BY DEF SnapshotsSaw
  <2>2. CASE run[r].kind = "none"
    <3>1. run[r] = Unused
      BY <2>1, <2>2 DEF RunSaw
    <3>2. added' \in [Posts -> 0..MaxAdds]
      BY DEF TypeOK
    <3> QED
      BY <3>1, <3>2, UnusedSaw
  <2>3. CASE run[r].kind # "none" /\ run[r].complete
    BY <2>3 DEF RunSaw
  <2>4. CASE run[r].kind # "none" /\ ~run[r].complete
    BY <1>2, <1>3, <2>1, <2>4, UntouchedStillSeen, Zenon
  <2> QED
    BY <2>2, <2>3, <2>4
<1>5. ASSUME NEW w \in Runners, runner[w] # Idle
      PROVE  LET r == runner[w].run IN WalkSaw(runner[w], run[r], touched'[r], added')
  <2>1. PICK r \in Runs : r = runner[w].run
    BY <1>5, UnderWay
  <2>2. runner[w] \in Walks /\ WalkSaw(runner[w], run[r], touched[r], added)
    BY <1>5, <2>1, UnderWay DEF SnapshotsSaw
  <2>3. WalkSaw(runner[w], run[r], touched'[r], added')
    <3>1. run[r].kind # "none"
      BY <2>2 DEF WalkSaw
    <3>2. CASE run[r].complete
      BY <2>2, <3>2 DEF WalkSaw
    <3>3. CASE ~run[r].complete
      BY <1>2, <1>3, <2>2, <3>1, <3>3, UntouchedStillSeen, Zenon
    <3> QED
      BY <3>2, <3>3
  <2> QED
    BY <2>1, <2>3
<1> QED
  BY <1>1, <1>4, <1>5 DEF SnapshotsSaw

(* A step of the task w on the run r keeps it, when the run it leaves saw   *)
(* what it holds and so did the task, and the run has lost nothing.         *)
LEMMA StepSaw ==
  ASSUME TypeOK, SnapshotsSaw, NEW w \in Runners, NEW r \in Runs,
         NEW y \in RunRows, run' = [run EXCEPT ![r] = y],
         NEW v \in {Idle} \cup Walks, runner' = [runner EXCEPT ![w] = v],
         NEW T \in SUBSET Posts, touched' = [touched EXCEPT ![r] = T], added' = added,
         T = touched[r] \/ y.complete,
         y.kind # "none", run[r].items \subseteq y.items, run[r].complete => y.complete,
         RunSaw(y, T, added), v # Idle => v.run = r /\ WalkSaw(v, y, T, added)
  PROVE  SnapshotsSaw'
<1>1. \A s \in Runs : run'[s] = (IF s = r THEN y ELSE run[s])
                      /\ touched'[s] = (IF s = r THEN T ELSE touched[s])
  BY DEF TypeOK
<1>2. \A u \in Runners : runner'[u] = IF u = w THEN v ELSE runner[u]
  BY DEF TypeOK
<1>3. ASSUME NEW s \in Runs PROVE RunSaw(run'[s], touched'[s], added)
  BY <1>1 DEF SnapshotsSaw
<1>4. ASSUME NEW u \in Runners, runner'[u] # Idle
      PROVE  LET s == runner'[u].run IN WalkSaw(runner'[u], run'[s], touched'[s], added)
  <2>1. CASE u = w
    BY <1>1, <1>2, <1>4, <2>1
  <2>2. CASE u # w
    <3> DEFINE s == runner[u].run
    <3>1. runner'[u] = runner[u] /\ runner[u] # Idle
      BY <1>2, <1>4, <2>2
    <3>2. runner[u] \in Walks /\ s \in Runs /\ run[s] \in RunRows
      BY <3>1, UnderWay
    <3>3. WalkSaw(runner[u], run[s], touched[s], added)
      BY <3>1 DEF SnapshotsSaw
    <3>4. CASE s # r
      BY <1>1, <3>1, <3>2, <3>3, <3>4
    <3>5. CASE s = r
      <4>1. WalkSaw(runner[u], y, touched[r], added)
        BY <3>2, <3>3, <3>5, WalkStillSaw
      <4>2. WalkSaw(runner[u], y, T, added)
        BY <4>1 DEF WalkSaw
      <4> QED
        BY <1>1, <3>1, <3>5, <4>2
    <3> QED
      BY <3>4, <3>5
  <2> QED
    BY <2>1, <2>2
<1> QED
  BY <1>3, <1>4 DEF SnapshotsSaw

(* So does one that touches nothing.                                        *)
LEMMA QuietStepSaw ==
  ASSUME TypeOK, SnapshotsSaw, NEW w \in Runners, NEW r \in Runs,
         NEW y \in RunRows, run' = [run EXCEPT ![r] = y],
         NEW v \in {Idle} \cup Walks, runner' = [runner EXCEPT ![w] = v],
         touched' = touched, added' = added,
         y.kind # "none", run[r].items \subseteq y.items, run[r].complete => y.complete,
         RunSaw(y, touched[r], added), v # Idle => v.run = r /\ WalkSaw(v, y, touched[r], added)
  PROVE  SnapshotsSaw'
<1>1. touched[r] \in SUBSET Posts /\ touched' = [touched EXCEPT ![r] = touched[r]]
  BY DEF TypeOK
<1> QED
  BY <1>1, StepSaw, ZenonT(30)

(* Starting a task and answering a limit keep it.                           *)
LEMMA RunStepSaw ==
  ASSUME TypeOK, SnapshotsSaw, NEW w \in Runners, NEW r \in Runs, NEW c \in Capabilities,
         \/ CreateRun(w, r) \/ Resume(w, r) \/ ReportLimitDies(w, r) \/ ReportLimit(w, r, c)
  PROVE  SnapshotsSaw'
<1>0. /\ run[r] \in RunRows /\ touched[r] \in SUBSET Posts /\ added \in [Posts -> 0..MaxAdds]
      /\ run = [run EXCEPT ![r] = run[r]]
  BY DEF TypeOK
<1>1. RunSaw(run[r], touched[r], added)
  BY DEF SnapshotsSaw
<1>2. runner[w] = Idle
  BY DEF CreateRun, Resume, ReportLimitDies, ReportLimit
<1>3. added' = added /\ touched' = touched
  BY DEF CreateRun, Resume, ReportLimitDies, ReportLimit, provider
<1>4. ASSUME NEW y \in RunRows, y.kind # "none", y.items = run[r].items,
             y.checkpoint = run[r].checkpoint, y.complete = run[r].complete
      PROVE  RunSaw(y, touched[r], added)
  BY <1>1, <1>4 DEF RunSaw
<1>5. CASE CreateRun(w, r)
  <2> DEFINE y == [run[r] EXCEPT !.kind = "membership"]
             v == Walk("fetch", r, Start, {})
  <2>1. /\ y \in RunRows /\ y.kind = "membership" /\ y.items = run[r].items
        /\ y.checkpoint = run[r].checkpoint /\ y.complete = run[r].complete
    BY <1>0 DEF RunRows
  <2>2. v \in Walks /\ v.run = r /\ v.at = "fetch" /\ v.page = {} /\ v.token = Start
    BY Bounds, WalkTyped DEF Walk
  <2>3. run' = [run EXCEPT ![r] = y] /\ runner' = [runner EXCEPT ![w] = v]
    BY <1>5 DEF CreateRun, Become
  <2>4. Covers(y.items \cup v.page, touched[r], added, Start)
    BY <1>0, UnusedSaw
  <2> HIDE DEF y, v
  <2>5. WalkSaw(v, y, touched[r], added)
    BY <2>1, <2>2, <2>4 DEF WalkSaw, Honest
  <2>6. RunSaw(y, touched[r], added)
    BY <1>4, <2>1
  <2> QED
    BY <1>3, <2>1, <2>2, <2>3, <2>5, <2>6, QuietStepSaw, Zenon
<1>6. CASE Resume(w, r)
  <2> DEFINE v == Walk("resume", r, run[r].checkpoint, {})
  <2>1. v \in Walks /\ v.run = r /\ v.at = "resume" /\ v.page = {} /\ v.token = run[r].checkpoint
    BY <1>0, WalkTyped DEF Walk, RunRows
  <2>2. run[r].kind # "none" /\ run' = run /\ runner' = [runner EXCEPT ![w] = v]
    BY <1>6 DEF Resume, Become
  <2> HIDE DEF v
  <2>3. WalkSaw(v, run[r], touched[r], added)
    BY <1>1, <2>1, <2>2 DEF WalkSaw, RunSaw, Honest
  <2> QED
    BY <1>0, <1>1, <1>3, <2>1, <2>2, <2>3, QuietStepSaw, Zenon
<1>7. CASE ReportLimitDies(w, r) \/ ReportLimit(w, r, c)
  <2>1. PICK y \in RunRows : /\ run' = [run EXCEPT ![r] = y] /\ y.kind = "limit"
                             /\ y.items = run[r].items /\ y.checkpoint = run[r].checkpoint
                             /\ y.complete = run[r].complete
    <3>1. CASE ReportLimitDies(w, r)
      <4>1. run' = [run EXCEPT ![r] = [run[r] EXCEPT !.kind = "limit"]]
        BY <3>1 DEF ReportLimitDies
      <4> DEFINE y == [run[r] EXCEPT !.kind = "limit"]
      <4>2. /\ y \in RunRows /\ y.kind = "limit" /\ y.items = run[r].items
            /\ y.checkpoint = run[r].checkpoint /\ y.complete = run[r].complete
        BY <1>0 DEF RunRows
      <4>3. run' = [run EXCEPT ![r] = y]
        BY <4>1
      <4> HIDE DEF y
      <4> QED
        BY <4>2, <4>3, Zenon
    <3>2. CASE ReportLimit(w, r, c)
      <4>1. run' = [run EXCEPT ![r] = [run[r] EXCEPT !.kind = "limit", !.state = "failed"]]
        BY <3>2, Zenon DEF ReportLimit
      <4> DEFINE y == [run[r] EXCEPT !.kind = "limit", !.state = "failed"]
      <4>2. /\ y \in RunRows /\ y.kind = "limit" /\ y.items = run[r].items
            /\ y.checkpoint = run[r].checkpoint /\ y.complete = run[r].complete
        BY <1>0, Zenon DEF RunRows
      <4>3. run' = [run EXCEPT ![r] = y]
        BY <4>1
      <4> HIDE DEF y
      <4> QED
        BY <4>2, <4>3, Zenon
    <3> QED
      BY <1>7, <3>1, <3>2
  <2>2. runner' = [runner EXCEPT ![w] = Idle]
    BY <1>2, <1>7 DEF ReportLimitDies, ReportLimit, TypeOK
  <2>3. RunSaw(y, touched[r], added)
    BY <1>4, <2>1
  <2> QED
    BY <1>3, <2>1, <2>2, <2>3, QuietStepSaw, Zenon
<1> QED
  BY <1>5, <1>6, <1>7

(* So do the steps of a task under way.                                     *)
LEMMA TaskStepSaw ==
  ASSUME TypeOK, SnapshotsSaw, NEW w \in Runners, NEW c \in Capabilities, runner[w] # Idle,
         \/ SetRunning(w) \/ MarkFailed(w) \/ MarkCapabilityLimited(w, c)
         \/ FetchPage(w) \/ StagePage(w) \/ CompleteRefused(w) \/ Crash(w) \/ CompleteRun(w)
  PROVE  SnapshotsSaw'
<1>p. PICK r \in Runs : r = runner[w].run
  BY UnderWay
<1>q. PICK u \in Walks : u = runner[w]
  BY UnderWay
<1>0. /\ run[r] \in RunRows /\ touched[r] \in SUBSET Posts /\ added \in [Posts -> 0..MaxAdds]
      /\ run = [run EXCEPT ![r] = run[r]]
      /\ u.token \in Tokens /\ u.page \in SUBSET Posts /\ u.run = r
  BY <1>p, <1>q, UnderWay, ZenonT(30) DEF TypeOK
<1>1. RunSaw(run[r], touched[r], added) /\ WalkSaw(u, run[r], touched[r], added)
  BY <1>p, <1>q DEF SnapshotsSaw
<1>2. run[r].kind # "none"
  BY <1>1, ZenonT(30) DEF WalkSaw
<1>3. ASSUME NEW y \in RunRows, y.kind = run[r].kind, y.items = run[r].items,
             y.checkpoint = run[r].checkpoint, y.complete = run[r].complete
      PROVE  /\ RunSaw(y, touched[r], added)
             /\ \A v \in Walks : WalkSaw(v, run[r], touched[r], added)
                                   => WalkSaw(v, y, touched[r], added)
  BY <1>1, <1>2, <1>3, Zenon DEF RunSaw, WalkSaw
<1>4. CASE FetchPage(w)
  <2> DEFINE v == Walk("stage", r, NextToken(u.token), Page(u.token))
  <2>1. v \in Walks
    BY <1>0, PageTyped, WalkTyped
  <2>2. /\ v.at = "stage" /\ v.run = r /\ v.token = NextToken(u.token)
        /\ v.page = Page(u.token)
    BY DEF Walk
  <2>3. /\ run' = run /\ touched' = touched /\ added' = added
        /\ runner' = [runner EXCEPT ![w] = v]
    BY <1>4, <1>p, <1>q DEF FetchPage, Become, provider
  <2> HIDE DEF v
  <2>4. u.page = {} => WalkSaw(v, run[r], touched[r], added)
    <3>1. Honest(v.page, touched[r], added)
      BY <2>2 DEF Honest, Page, Listed, InFolder
    <3>2. ASSUME u.page = {}, Covers(run[r].items \cup u.page, touched[r], added, u.token)
          PROVE  Covers(run[r].items \cup v.page, touched[r], added, v.token)
      <4>1. SUFFICES ASSUME NEW p \in Posts \ touched[r], added[p] # 0, p \notin run[r].items
                     PROVE  p \in v.page \/ added[p] < v.token
        BY DEF Covers
      <4>2. added[p] < u.token
        BY <3>2, <4>1 DEF Covers
      <4>3. p \in Listed(u.token)
        BY <4>1, <4>2 DEF Listed, InFolder
      <4> QED
        BY <1>0, <2>2, <4>3, PageCovers
    <3> QED
      BY <1>1, <1>2, <2>2, <3>1, <3>2 DEF WalkSaw
  <2>5. u.page = {}
    BY <1>4, <1>q, <1>1 DEF FetchPage, WalkSaw
  <2> QED
    BY <1>0, <1>1, <1>2, <2>1, <2>2, <2>3, <2>4, <2>5, QuietStepSaw, Zenon
<1>5. CASE StagePage(w)
  <2> DEFINE y == [run[r] EXCEPT !.items = @ \cup u.page, !.checkpoint = Checkpoint(u.token)]
             v == Walk(IF u.token = End THEN "finish" ELSE "fetch", r, u.token, {})
  <2>1. /\ run' = [run EXCEPT ![r] = y] /\ runner' = [runner EXCEPT ![w] = v]
        /\ touched' = touched /\ added' = added
    BY <1>5, <1>p, <1>q, Zenon DEF StagePage, Become, provider
  <2>2. Checkpoint(u.token) \in Tokens
    BY <1>0, Bounds DEF Checkpoint
  <2>3. y \in RunRows
    BY <1>0, <2>2, RowStaged, Zenon
  <2>4. /\ y.items = run[r].items \cup u.page /\ y.checkpoint = Checkpoint(u.token)
        /\ y.kind = run[r].kind /\ y.complete = run[r].complete
    BY <1>0 DEF RunRows
  <2>5. v \in Walks
    BY <1>0, WalkTyped
  <2>6. /\ v.run = r /\ v.token = u.token /\ v.page = {}
        /\ v.at = "finish" => v.token = End
    BY DEF Walk
  <2> HIDE DEF y, v
  <2>7. ASSUME ~run[r].complete
        PROVE  /\ Honest(y.items, touched[r], added)
               /\ Covers(y.items, touched[r], added, u.token)
               /\ Covers(y.items, touched[r], added, y.checkpoint)
    <3>1. Honest(run[r].items, touched[r], added) /\ Honest(u.page, touched[r], added)
      BY <1>1, <2>7 DEF RunSaw, WalkSaw
    <3>2. Covers(y.items, touched[r], added, u.token)
      BY <1>1, <2>4, <2>7 DEF WalkSaw
    <3>3. Covers(y.items, touched[r], added, Start)
      BY <1>0, UnusedSaw
    <3> QED
      BY <2>4, <3>1, <3>2, <3>3 DEF Honest, Checkpoint
  <2>8. RunSaw(y, touched[r], added)
    BY <1>2, <2>4, <2>7 DEF RunSaw
  <2>9. WalkSaw(v, y, touched[r], added)
    <3>1. y.items \cup v.page = y.items
      BY <2>6
    <3> QED
      BY <1>2, <2>4, <2>6, <2>7, <3>1 DEF WalkSaw, Honest
  <2> QED
    BY <1>0, <1>2, <2>1, <2>3, <2>4, <2>5, <2>6, <2>8, <2>9, QuietStepSaw, Zenon
<1>6. CASE SetRunning(w)
  <2> DEFINE y == [run[r] EXCEPT !.state = "running"]
             v == [u EXCEPT !.at = "fetch"]
  <2>1. /\ run' = [run EXCEPT ![r] = y] /\ runner' = [runner EXCEPT ![w] = v]
        /\ touched' = touched /\ added' = added
    BY <1>6, <1>p, <1>q DEF SetRunning, provider
  <2>2. /\ y \in RunRows /\ y.items = run[r].items /\ y.checkpoint = run[r].checkpoint
        /\ y.kind = run[r].kind /\ y.complete = run[r].complete
    BY <1>0 DEF RunRows
  <2>3. /\ v \in Walks /\ v.run = u.run /\ v.token = u.token /\ v.page = u.page /\ v.at = "fetch"
    BY <1>q DEF Walks
  <2>4. u.at = "resume"
    BY <1>6, <1>q DEF SetRunning
  <2> HIDE DEF y, v
  <2>5. WalkSaw(v, run[r], touched[r], added)
    BY <1>1, <2>3, <2>4, Zenon DEF WalkSaw
  <2> QED
    BY <1>0, <1>2, <1>3, <2>1, <2>2, <2>3, <2>5, QuietStepSaw, ZenonT(30)
<1>7. CASE MarkFailed(w) \/ MarkCapabilityLimited(w, c)
  <2> DEFINE y == [run[r] EXCEPT !.state = "failed"]
  <2>1. /\ run' = [run EXCEPT ![r] = y] /\ runner' = [runner EXCEPT ![w] = Idle]
        /\ touched' = touched /\ added' = added
    BY <1>7, <1>p DEF MarkFailed, MarkCapabilityLimited, Become, provider
  <2>2. /\ y \in RunRows /\ y.items = run[r].items /\ y.checkpoint = run[r].checkpoint
        /\ y.kind = run[r].kind /\ y.complete = run[r].complete
    BY <1>0 DEF RunRows
  <2> HIDE DEF y
  <2> QED
    BY <1>0, <1>2, <1>3, <2>1, <2>2, QuietStepSaw, Zenon
<1>8. CASE CompleteRefused(w) \/ Crash(w)
  <2>1. /\ run' = run /\ runner' = [runner EXCEPT ![w] = Idle]
        /\ touched' = touched /\ added' = added
    BY <1>8 DEF CompleteRefused, Crash, Become, provider
  <2> QED
    BY <1>0, <1>1, <1>2, <2>1, QuietStepSaw, Zenon
<1>9. CASE CompleteRun(w)
  <2> DEFINE y == [run[r] EXCEPT !.state = "completed", !.complete = TRUE, !.checkpoint = Start]
  <2>1. /\ run' = [run EXCEPT ![r] = y] /\ runner' = [runner EXCEPT ![w] = Idle]
        /\ touched' = [touched EXCEPT ![r] = {}] /\ added' = added
    BY <1>9, <1>p, Zenon DEF CompleteRun, Become
  <2>2. /\ y \in RunRows /\ y.items = run[r].items /\ y.kind = run[r].kind /\ y.complete
    BY <1>0, Bounds, Zenon DEF RunRows
  <2> HIDE DEF y
  <2>3. RunSaw(y, {}, added)
    BY <1>2, <2>2 DEF RunSaw
  <2> QED
    BY <1>2, <2>1, <2>2, <2>3, StepSaw, Zenon
<1> QED
  BY <1>4, <1>5, <1>6, <1>7, <1>8, <1>9

(* Every step keeps what the runs and their tasks saw.                      *)
LEMMA NextSaw ==
  ASSUME TypeOK, SnapshotsSaw, [Next]_vars
  PROVE  SnapshotsSaw'
<1>1. CASE UNCHANGED vars
  BY <1>1 DEF vars, provider, SnapshotsSaw
<1>2. CASE Next
  <2>1. "listing" \in Capabilities
    BY DEF Capabilities
  <2>2. TypeOK'
    BY NextTyped
  <2>3. ASSUME NEW w \in Runners, CompleteRun(w) PROVE runner[w] # Idle
    BY <2>3, IdleIsIdle DEF CompleteRun
  <2> QED
    BY <1>2, <2>1, <2>2, <2>3, OwnerSaw, RunStepSaw, TaskStepSaw, TaskIsUnderWay DEF Next
<1> QED
  BY <1>1, <1>2

(* Only its completion completes a run.                                     *)
LEMMA CompletionAlone ==
  ASSUME TypeOK, [Next]_vars, NEW r \in Runs, Completes(r)
  PROVE  \E w \in Runners : CompleteRun(w) /\ runner[w].run = r
<1>1. CASE UNCHANGED vars
  BY <1>1 DEF vars, Completes
<1>2. ASSUME NEW p \in Posts, OwnerAdds(p) \/ OwnerRemoves(p) PROVE FALSE
  BY <1>2 DEF OwnerAdds, OwnerRemoves, Completes
<1>3. ASSUME NEW w \in Runners, NEW s \in Runs, NEW c \in Capabilities,
             \/ CreateRun(w, s) \/ Resume(w, s) \/ ReportLimitDies(w, s) \/ ReportLimit(w, s, c)
      PROVE  FALSE
  BY <1>3, RunRewrites, Rewritten DEF Completes
<1>4. ASSUME NEW w \in Runners, NEW c \in Capabilities,
             \/ SetRunning(w) \/ MarkFailed(w) \/ MarkCapabilityLimited(w, c)
             \/ FetchPage(w) \/ StagePage(w) \/ CompleteRefused(w) \/ Crash(w)
      PROVE  FALSE
  <2>1. runner[w] # Idle
    BY <1>4, TaskIsUnderWay
  <2>2. runner[w].run \in Runs
    BY <2>1, UnderWay
  <2> QED
    BY <1>4, <2>1, <2>2, TaskRewrites, Rewritten DEF Completes
<1>5. ASSUME NEW w \in Runners, CompleteRun(w) PROVE runner[w].run = r
  <2>1. run' = [run EXCEPT ![runner[w].run] = [run[runner[w].run] EXCEPT
                  !.state = "completed", !.complete = TRUE, !.checkpoint = Start]]
    BY <1>5, Zenon DEF CompleteRun
  <2> QED
    BY <2>1 DEF Completes, TypeOK
<1>6. CASE Next
  <2>1. "listing" \in Capabilities
    BY DEF Capabilities
  <2> QED
    BY <1>2, <1>3, <1>4, <1>5, <1>6, <2>1 DEF Next
<1> QED
  BY <1>1, <1>6

(* A run completes with what it saw.                                        *)
LEMMA CompletesTruthfully ==
  ASSUME TypeOK, SnapshotsSaw, [Next]_vars, NEW r \in Runs, Completes(r),
         NEW p \in Posts \ touched[r]
  PROVE  member'[p] = "active" <=> p \in InFolder
<1>1. PICK w \in Runners : CompleteRun(w) /\ runner[w].run = r
  BY CompletionAlone
<1>2. /\ ~run[r].complete /\ runner[w] # Idle /\ runner[w].at = "finish"
      /\ ReconcileMemberships(r)
  BY <1>1, IdleIsIdle DEF CompleteRun, Finalizable
<1>3. RunSaw(run[r], touched[r], added) /\ WalkSaw(runner[w], run[r], touched[r], added)
  BY <1>1, <1>2 DEF SnapshotsSaw
<1>4. /\ Honest(run[r].items, touched[r], added)
      /\ Covers(run[r].items, touched[r], added, 0)
  <2>1. run[r].items \cup {} = run[r].items
    OBVIOUS
  <2> QED
    BY <1>2, <1>3, <2>1, Zenon DEF RunSaw, WalkSaw, End
<1>5. p \in run[r].items <=> p \in InFolder
  BY <1>4 DEF Honest, Covers, InFolder, TypeOK
<1>6. member'[p] = "active" <=> p \in run[r].items
  BY <1>2 DEF ReconcileMemberships, Absent, Active
<1> QED
  BY <1>5, <1>6

-----------------------------------------------------------------------------
(* The tables of a folder keep their types, whatever pages the provider     *)
(* serves and whichever tasks die (run, stage_page, complete_run).          *)
THEOREM TypesAreKept == Spec => []TypeOK
<1>1. Init => TypeOK
  BY FolderAssumption, Bounds
     DEF Init, TypeOK, Unused, RunRows, Start, Tokens
<1>2. TypeOK /\ [Next]_vars => TypeOK'
  BY NextTyped
<1> QED
  BY <1>1, <1>2, PTL DEF Spec

(* For any posts, runs, tasks, page size and number of crashes, the         *)
(* observations of a post alternate, name different completed snapshots and *)
(* end with what the post is now (reconcile_memberships).                   *)
THEOREM ObservationsTell == Spec => []HistoryTellsMembership
<1>1. Init => \A p \in Posts : Told(p)
  BY DEF Init, Told
<1>2. TypeOK /\ (\A p \in Posts : Told(p)) /\ [Next]_vars => (\A p \in Posts : Told(p))'
  BY NextTells
<1>3. (\A p \in Posts : Told(p)) => HistoryTellsMembership
  BY Zenon DEF Told, HistoryTellsMembership
<1> QED
  BY <1>1, <1>2, <1>3, TypesAreKept, PTL DEF Spec

(* For any posts, runs, tasks, page size and number of crashes, a run that  *)
(* completes makes a post its owner left alone an active member exactly     *)
(* when it is in the folder, whoever staged its pages and from whichever    *)
(* checkpoint (resume_run, stage_page, complete_run).                       *)
THEOREM UntouchedPostsAreTrue == Spec => UntouchedIsTruthful
<1>1. Init => SnapshotsSaw
  <2>1. SUFFICES ASSUME Init PROVE SnapshotsSaw
    OBVIOUS
  <2>2. added \in [Posts -> 0..MaxAdds]
    BY <2>1, Bounds DEF Init
  <2> QED
    BY <2>1, <2>2, UnusedSaw DEF Init, SnapshotsSaw
<1>2. TypeOK /\ SnapshotsSaw /\ [Next]_vars => SnapshotsSaw'
  BY NextSaw
<1>3. TypeOK /\ SnapshotsSaw /\ [Next]_vars =>
        [\A r \in Runs : Completes(r) =>
           \A p \in Posts \ touched[r] : member'[p] = "active" <=> p \in InFolder]_vars
  BY CompletesTruthfully
<1> QED
  BY <1>1, <1>2, <1>3, TypesAreKept, PTL DEF Spec, UntouchedIsTruthful
=============================================================================
