------------------------- MODULE BookmarkSyncProofs -------------------------
(***************************************************************************)
(* Proofs about BookmarkSync: its types, that a bookmark is removed on      *)
(* evidence, that a run which completes over an unchanged list tells it and *)
(* resolves the uncertain writes by it, and that a scan covers its window,  *)
(* for any posts, runs, tasks, writes and page size.                        *)
(***************************************************************************)
EXTENDS BookmarkSync, FiniteSetTheorems, WellFoundedInduction, TLAPS

(* The bounds are numbers, and the tokens hold the ends of the list.        *)
LEMMA Bounds ==
  /\ MaxSaves \in Nat /\ MaxCrashes \in Nat /\ PageCap \in Nat
  /\ Start \in Tokens /\ End \in Tokens /\ 0..MaxSaves \subseteq Tokens
  BY SyncAssumption DEF Start, End, Tokens

-----------------------------------------------------------------------------
(* The provider's pages.                                                    *)

(* A nonempty set of naturals has a least member.                           *)
LEMMA LeastExists ==
  ASSUME NEW S \in SUBSET Nat, S # {}
  PROVE  \E m \in S : \A n \in S : m <= n
<1>1. PICK m \in S : \A n \in S : ~(<<n, m>> \in OpToRel(<, Nat))
  BY NatLessThanWellFounded, WFMin, Zenon
<1>2. \A n \in S : ~(n < m)
  BY <1>1, Zenon DEF OpToRel
<1> QED
  BY <1>2

(* A nonempty set of bounded naturals has a greatest one.                   *)
LEMMA GreatestExists ==
  ASSUME NEW b \in Nat, NEW S \in SUBSET (0..b), S # {}
  PROVE  \E m \in S : \A n \in S : n <= m
<1> DEFINE T == {b - i : i \in S}
<1>1. T \subseteq Nat /\ T # {}
  <2>1. \A i \in S : b - i \in Nat
    OBVIOUS
  <2>2. PICK i \in S : TRUE
    OBVIOUS
  <2>3. b - i \in T
    BY <2>2
  <2> QED
    BY <2>1, <2>3
<1>2. PICK d \in T : \A e \in T : d <= e
  BY <1>1, LeastExists, Zenon
<1>3. PICK m \in S : d = b - m
  OBVIOUS
<1>4. ASSUME NEW n \in S PROVE n <= m
  <2>1. b - n \in T
    OBVIOUS
  <2>2. b - m <= b - n
    BY <2>1, <1>2, <1>3
  <2> HIDE DEF T
  <2> QED
    BY <2>2
<1> QED
  BY <1>4

(* The continuation of a page that does not end the list is the least time  *)
(* of its posts.                                                            *)
LEMMA ContinuationShown ==
  ASSUME TypeOK, NEW token \in Tokens, Page(token) # Listed(token)
  PROVE  /\ \E q \in Page(token) : NextToken(token) = saved[q]
         /\ \A q \in Page(token) : NextToken(token) <= saved[q]
<1>1. Page(token) \subseteq Listed(token) /\ Listed(token) \subseteq Posts
  BY DEF Page, Listed, Saved
<1> DEFINE times == {saved[p] : p \in Listed(token)}
<1>2. times \in SUBSET (0..MaxSaves) /\ times # {}
  BY <1>1 DEF TypeOK, Page
<1>3. PICK p \in Listed(token) : \A q \in Listed(token) : saved[q] <= saved[p]
  <2>1. PICK t \in times : \A u \in times : u <= t
    BY <1>2, GreatestExists, Bounds, Zenon
  <2> QED
    BY <2>1
<1>4. {q \in Listed(token) : saved[q] > saved[p]} = {}
  BY <1>1, <1>3 DEF TypeOK
<1>5. p \in Page(token)
  BY <1>3, <1>4, FS_EmptySet, SyncAssumption DEF Page
<1> DEFINE shown == {saved[q] : q \in Page(token)}
<1>6. shown \in SUBSET Nat /\ shown # {}
  BY <1>1, <1>5 DEF TypeOK
<1>7. \E t \in shown : \A u \in shown : t <= u
  BY <1>6, LeastExists, Zenon
<1>8. \E t \in shown : \A q \in Page(token) : t <= saved[q]
  BY <1>7
<1>9. NextToken(token) \in shown /\ \A q \in Page(token) : NextToken(token) <= saved[q]
  BY <1>8 DEF NextToken
<1> QED
  BY <1>9

(* A page shows saved posts, none of them older than its continuation,      *)
(* which is a token and not later than the one the page was asked with.     *)
LEMMA PageShows ==
  ASSUME TypeOK, NEW token \in Tokens
  PROVE  /\ Page(token) \subseteq Saved /\ Page(token) \in SUBSET Posts
         /\ NextToken(token) \in Tokens /\ NextToken(token) <= token
         /\ \A p \in Page(token) : saved[p] >= NextToken(token)
<1>1. /\ Page(token) \subseteq Saved /\ Page(token) \in SUBSET Posts
      /\ \A p \in Page(token) : saved[p] \in 0..MaxSaves /\ saved[p] < token
  BY DEF Page, Listed, Saved, TypeOK
<1>2. CASE Page(token) = Listed(token)
  BY <1>1, <1>2, Bounds DEF NextToken, End, Tokens
<1>3. CASE Page(token) # Listed(token)
  <2>1. PICK q \in Page(token) : NextToken(token) = saved[q]
    BY <1>3, ContinuationShown, Zenon
  <2>2. \A p \in Page(token) : NextToken(token) <= saved[p]
    BY <1>3, ContinuationShown, Zenon
  <2> QED
    BY <1>1, <2>1, <2>2, Bounds DEF Tokens
<1> QED
  BY <1>2, <1>3

(* A post before the token is on its page or older than the continuation.   *)
LEMMA PageCovers ==
  ASSUME TypeOK, NEW token \in Tokens, NEW p \in Listed(token)
  PROVE  p \in Page(token) \/ saved[p] < NextToken(token)
<1>1. CASE Page(token) = Listed(token)
  BY <1>1
<1>2. CASE Page(token) # Listed(token) /\ p \notin Page(token)
  <2> DEFINE Newer(q) == {x \in Listed(token) : saved[x] > saved[q]}
  <2>1. PICK q \in Page(token) : NextToken(token) = saved[q]
    BY <1>2, ContinuationShown
  <2>2. /\ p \in Posts /\ q \in Posts /\ q \in Listed(token)
        /\ Listed(token) \subseteq Posts
        /\ saved[p] \in Nat /\ saved[q] \in Nat
        /\ \A x \in Listed(token) : saved[x] \in Nat
    BY <2>1 DEF Page, Listed, Saved, TypeOK
  <2>3. SUFFICES ASSUME saved[q] <= saved[p] PROVE FALSE
    BY <2>1, <2>2
  <2>4. Newer(p) \subseteq Newer(q)
    BY <2>2, <2>3
  <2>5. IsFiniteSet(Newer(q))
    <3>1. Newer(q) \subseteq Posts
      BY <2>2
    <3> HIDE DEF Newer
    <3> QED
      BY <3>1, FS_Subset, SyncAssumption
  <2>6. Cardinality(Newer(q)) < PageSize /\ ~(Cardinality(Newer(p)) < PageSize)
    BY <1>2, <2>1 DEF Page
  <2> HIDE DEF Newer
  <2>7. IsFiniteSet(Newer(p)) /\ Cardinality(Newer(p)) <= Cardinality(Newer(q))
    BY <2>4, <2>5, FS_Subset
  <2>8. Cardinality(Newer(p)) \in Nat /\ Cardinality(Newer(q)) \in Nat /\ PageSize \in Nat
    BY <2>5, <2>7, FS_CardinalityType, SyncAssumption
  <2> QED
    BY <2>6, <2>7, <2>8
<1> QED
  BY <1>1, <1>2

-----------------------------------------------------------------------------
(* Types.                                                                   *)

(* A task under way has a run, a token and a page.                          *)
LEMMA UnderWay ==
  ASSUME TypeOK, NEW w \in Runners, runner[w].at # "idle"
  PROVE  /\ runner[w] \in Walks /\ runner[w].run \in Runs
         /\ runner[w].token \in Tokens /\ runner[w].page \in SUBSET Posts
         /\ run[runner[w].run] \in RunRows
  BY DEF TypeOK, Walks, Idle

(* A scan under way has a token, a page and the first post it saw.          *)
LEMMA ScanUnderWay ==
  ASSUME TypeOK, NEW s \in Scanners, scan[s].at # "idle"
  PROVE  /\ scan[s] \in Scans /\ scan[s].token \in Tokens /\ scan[s].page \in SUBSET Posts
         /\ scan[s].newest \in Posts \cup {None} /\ scan[s].pages \in 0..PageCap
  BY DEF TypeOK, Scans, Idle

(* A task's next local state is one.                                        *)
LEMMA WalkTyped ==
  ASSUME NEW at \in {"resume", "fetch", "stage", "finish"}, NEW r \in Runs,
         NEW token \in Tokens, NEW page \in SUBSET Posts
  PROVE  Walk(at, r, token, page) \in Walks
  BY DEF Walk, Walks

(* The steps of the list keep its types.                                    *)
LEMMA ListTyped ==
  ASSUME TypeOK, NEW p \in Posts, Save(p) \/ Unsave(p)
  PROVE  /\ saved' \in [Posts -> 0..MaxSaves] /\ saves' \in 0..MaxSaves
         /\ changed' \subseteq Runs \cup Scanners
<1>1. changed' \subseteq Runs \cup Scanners
  BY DEF TypeOK, Save, Unsave, Open, OpenScans
<1>2. CASE Save(p)
  <2>1. saves' \in 0..MaxSaves /\ saves + 1 \in 0..MaxSaves
    BY <1>2, Bounds DEF TypeOK, Save
  <2>2. saved' \in [Posts -> 0..MaxSaves]
    BY <1>2, <2>1 DEF TypeOK, Save
  <2> QED
    BY <1>1, <2>1, <2>2
<1>3. CASE Unsave(p)
  <2>1. 0 \in 0..MaxSaves
    BY Bounds
  <2>2. saved' \in [Posts -> 0..MaxSaves]
    BY <1>3, <2>1 DEF TypeOK, Unsave
  <2> QED
    BY <1>1, <1>3, <2>2 DEF TypeOK, Unsave
<1> QED
  BY <1>2, <1>3

(* The user's changes keep the types.                                       *)
LEMMA UserTyped ==
  ASSUME TypeOK, NEW p \in Posts, UserChanges(p)
  PROVE  TypeOK'
<1>1. Save(p) \/ Unsave(p)
  BY DEF UserChanges
<1>2. /\ saved' \in [Posts -> 0..MaxSaves] /\ saves' \in 0..MaxSaves
      /\ changed' \subseteq Runs \cup Scanners
  BY <1>1, ListTyped
<1> QED
  BY <1>2, Zenon DEF UserChanges, TypeOK, archive, snapshots

(* A task that takes a run keeps the types ...                              *)
LEMMA TakeTyped ==
  ASSUME TypeOK, NEW w \in Runners, NEW r \in Runs, CreateRun(w, r) \/ Resume(w, r)
  PROVE  TypeOK'
<1>0. run[r] \in RunRows /\ run[r].checkpoint \in Tokens /\ {} \in SUBSET Posts
  BY DEF TypeOK, RunRows
<1>1. CASE CreateRun(w, r)
  <2>1. Walk("fetch", r, Start, {}) \in Walks
    BY <1>0, Bounds, WalkTyped
  <2>2. runner' \in [Runners -> {Idle} \cup Walks]
    BY <1>1, <2>1 DEF CreateRun, TypeOK
  <2>3. [run[r] EXCEPT !.is = "running"] \in RunRows
    BY <1>0 DEF RunRows
  <2>4. run' \in [Runs -> RunRows]
    BY <1>1, <2>3 DEF CreateRun, TypeOK
  <2> QED
    BY <1>1, <2>2, <2>4, Zenon DEF CreateRun, TypeOK, provider, archive
<1>2. CASE Resume(w, r)
  <2>1. Walk("resume", r, run[r].checkpoint, {}) \in Walks
    BY <1>0, WalkTyped
  <2>2. runner' \in [Runners -> {Idle} \cup Walks]
    BY <1>2, <2>1 DEF Resume, TypeOK
  <2> QED
    BY <1>2, <2>2, Zenon DEF Resume, TypeOK, provider, archive, snapshots
<1> QED
  BY <1>1, <1>2

(* ... and so do its next steps: it sets the run running or failed ...      *)
LEMMA StatusTyped ==
  ASSUME TypeOK, NEW w \in Runners, SetRunning(w) \/ MarkFailed(w) \/ CompleteRefused(w)
  PROVE  TypeOK'
<1>0. /\ runner[w] \in Walks /\ runner[w].run \in Runs
      /\ run[runner[w].run] \in RunRows
  BY UnderWay DEF SetRunning, MarkFailed, CompleteRefused
<1>1. CASE SetRunning(w)
  <2>1. [runner[w] EXCEPT !.at = "fetch"] \in Walks
    BY <1>0 DEF Walks
  <2>2. runner' \in [Runners -> {Idle} \cup Walks]
    BY <1>1, <2>1 DEF SetRunning, TypeOK
  <2>3. [run[runner[w].run] EXCEPT !.is = "running"] \in RunRows
    BY <1>0 DEF RunRows
  <2>4. run' \in [Runs -> RunRows]
    BY <1>0, <1>1, <2>3 DEF SetRunning, TypeOK
  <2> QED
    BY <1>1, <2>2, <2>4, Zenon DEF SetRunning, TypeOK, provider, archive
<1>2. CASE MarkFailed(w)
  <2>1. runner' \in [Runners -> {Idle} \cup Walks]
    BY <1>2 DEF MarkFailed, TypeOK
  <2>2. [run[runner[w].run] EXCEPT !.is = "failed"] \in RunRows
    BY <1>0 DEF RunRows
  <2>3. run' \in [Runs -> RunRows]
    BY <1>0, <1>2, <2>2 DEF MarkFailed, TypeOK
  <2> QED
    BY <1>2, <2>1, <2>3, Zenon DEF MarkFailed, TypeOK, provider, archive
<1>3. CASE CompleteRefused(w)
  <2>1. runner' \in [Runners -> {Idle} \cup Walks]
    BY <1>3 DEF CompleteRefused, TypeOK
  <2> QED
    BY <1>3, <2>1, Zenon DEF CompleteRefused, TypeOK, provider, archive, snapshots
<1> QED
  BY <1>1, <1>2, <1>3

(* ... fetches a page ...                                                   *)
LEMMA FetchTyped ==
  ASSUME TypeOK, NEW w \in Runners, FetchPage(w)
  PROVE  TypeOK'
<1>0. runner[w] \in Walks /\ runner[w].token \in Tokens
  BY UnderWay DEF FetchPage
<1> DEFINE token == runner[w].token
           v == [runner[w] EXCEPT !.at = "stage", !.page = Page(token),
                                  !.token = NextToken(token)]
<1>1. Page(token) \in SUBSET Posts /\ NextToken(token) \in Tokens
  BY <1>0, PageShows
<1>2. v \in Walks
  BY <1>0, <1>1 DEF Walks
<1>3. runner' = [runner EXCEPT ![w] = v]
  BY DEF FetchPage
<1> HIDE DEF v
<1>4. runner' \in [Runners -> {Idle} \cup Walks]
  BY <1>2, <1>3 DEF TypeOK
<1> QED
  BY <1>4, Zenon DEF FetchPage, TypeOK, provider, archive, snapshots

(* ... stages it ...                                                        *)
LEMMA StageTyped ==
  ASSUME TypeOK, NEW w \in Runners, StagePage(w)
  PROVE  TypeOK'
<1> DEFINE r == runner[w].run
           token == runner[w].token
           at == IF token = End THEN "finish" ELSE "fetch"
           c == IF run[r].is = "running" THEN Checkpoint(token) ELSE run[r].checkpoint
           x == [run[r] EXCEPT !.items = @ \cup runner[w].page, !.checkpoint = c]
<1>0. /\ r \in Runs /\ token \in Tokens /\ runner[w].page \in SUBSET Posts
      /\ run[r] \in RunRows
  BY UnderWay DEF StagePage
<1>1. Walk(at, r, token, {}) \in Walks
  BY <1>0, WalkTyped
<1>2. runner' = [runner EXCEPT ![w] = Walk(at, r, token, {})]
  BY DEF StagePage
<1>3. runner' \in [Runners -> {Idle} \cup Walks]
  BY <1>1, <1>2, Zenon DEF TypeOK
<1>4. c \in Tokens
  BY <1>0, Bounds DEF Checkpoint, RunRows
<1>5. run' = [run EXCEPT ![r] = x]
  BY DEF StagePage
<1> HIDE DEF c, r
<1>6. x \in RunRows
  BY <1>0, <1>4 DEF RunRows
<1> HIDE DEF x
<1>7. run' \in [Runs -> RunRows]
  BY <1>0, <1>5, <1>6 DEF TypeOK
<1>8. known' \subseteq Posts
  BY <1>0 DEF StagePage, PersistPosts, TypeOK
<1> QED
  BY <1>3, <1>7, <1>8, Zenon DEF StagePage, TypeOK, provider

OpRows == [is : Statuses, answer : {"none", "confirmed", "uncertain", "failed"},
           stamp : 0..MaxSaves]

(* A write whose status or answer moves on is one.                          *)
LEMMA WriteTyped ==
  ASSUME NEW x \in OpRows, NEW status \in Statuses
  PROVE  [x EXCEPT !.is = status] \in OpRows
  BY DEF OpRows

(* ... and completes the run.                                               *)
LEMMA CompleteTyped ==
  ASSUME TypeOK, NEW w \in Runners, CompleteRun(w)
  PROVE  TypeOK'
<1> DEFINE r == runner[w].run
           x == [run[r] EXCEPT !.is = "completed", !.complete = TRUE, !.checkpoint = Start]
<1>0. r \in Runs /\ run[r] \in RunRows
  BY UnderWay DEF CompleteRun
<1>1. run' = [run EXCEPT ![r] = x]
  BY DEF CompleteRun
<1>2. x \in RunRows
  BY <1>0, Bounds DEF RunRows
<1>3. run' \in [Runs -> RunRows]
  BY <1>0, <1>1, <1>2, Zenon DEF TypeOK
<1>4. bookmark' \in [Posts -> Bookmarks]
  <2>1. ReconcileBookmarks(r)
    BY DEF CompleteRun
  <2>2. ASSUME NEW p \in Posts PROVE bookmark'[p] \in Bookmarks
    <3>1. bookmark[p] \in Bookmarks
      BY DEF TypeOK
    <3>2. /\ [bookmark[p] EXCEPT !.is = "active", !.snapshot = None, !.scanned = FALSE]
               \in Bookmarks
          /\ [bookmark[p] EXCEPT !.is = "removed", !.snapshot = r] \in Bookmarks
      BY <1>0, <3>1 DEF Bookmarks
    <3> QED
      BY <2>1, <3>1, <3>2, Zenon DEF ReconcileBookmarks
  <2> QED
    BY <2>1, <2>2, Zenon DEF ReconcileBookmarks
<1>5. repairs' \subseteq Runs \X Posts
  <2>1. PICK S \in SUBSET Posts : repairs' = repairs \cup {<<r, p>> : p \in S}
    <3>1. {q \in Absent(r) : bookmark[q].scanned} \in SUBSET Posts
      BY DEF Absent, Active
    <3> QED
      BY <3>1 DEF CompleteRun, ReconcileBookmarks
  <2>2. {<<r, p>> : p \in S} \subseteq Runs \X Posts
    BY <1>0
  <2> QED
    BY <2>1, <2>2, Zenon DEF TypeOK
<1>6. op' \in [Ops -> OpRows]
  <2>1. ReconcileUncertainWrites(r)
    BY DEF CompleteRun
  <2>2. ASSUME NEW o \in Ops PROVE op'[o] \in OpRows
    <3>1. op[o] \in OpRows
      BY DEF TypeOK, OpRows
    <3>2. /\ [op[o] EXCEPT !.is = "reconciled_succeeded"] \in OpRows
          /\ [op[o] EXCEPT !.is = "reconciled_not_current"] \in OpRows
      BY <3>1 DEF OpRows, Statuses, Reconciled
    <3> QED
      BY <2>1, <3>1, <3>2 DEF ReconcileUncertainWrites
  <2> QED
    BY <2>1, <2>2, Zenon DEF ReconcileUncertainWrites
<1>7. runner' \in [Runners -> {Idle} \cup Walks]
  BY DEF CompleteRun, TypeOK
<1>8. /\ authority' \in Runs \cup {None} /\ changed' \subseteq Runs \cup Scanners
      /\ state' \in [watermark : Posts \cup {None}, full : BOOLEAN]
  BY <1>0 DEF CompleteRun, TypeOK, OpenScans
<1> QED
  BY <1>3, <1>4, <1>5, <1>6, <1>7, <1>8, Zenon DEF CompleteRun, TypeOK, OpRows
(* The steps of a scan keep the types: it starts or ends ...                *)
LEMMA ScanEndsTyped ==
  ASSUME TypeOK, NEW s \in Scanners,
         StartScan(s) \/ ScanComplete(s) \/ MarkGap(s) \/ StopScan(s) \/ ScanLost(s)
  PROVE  TypeOK'
<1>1. CASE StartScan(s)
  <2>0. PICK f \in BOOLEAN : f = (state.watermark = None)
    BY Zenon
  <2> DEFINE sc == [at |-> "fetch", first |-> f, token |-> Start,
                    page |-> {}, newest |-> None, pages |-> 0]
  <2>1. sc \in Scans
    <3>1. /\ "fetch" \in {"fetch", "observe", "finish", "lost"} /\ {} \in SUBSET Posts
          /\ None \in Posts \cup {None} /\ 0 \in 0..PageCap /\ Start \in Tokens
      BY Bounds
    <3> QED
      BY <2>0, <3>1, Zenon DEF Scans
  <2>2. scan' = [scan EXCEPT ![s] = sc]
    BY <1>1, <2>0, Zenon DEF StartScan
  <2> HIDE DEF sc
  <2>3. scan' \in [Scanners -> {Idle} \cup Scans]
    BY <2>1, <2>2 DEF TypeOK
  <2>4. changed' \subseteq Runs \cup Scanners
    BY <1>1, Zenon DEF StartScan, TypeOK
  <2> QED
    BY <1>1, <2>3, <2>4, Zenon DEF StartScan, TypeOK, archive, snapshots
<1>2. CASE ScanComplete(s)
  <2>1. scan[s].newest \in Posts \cup {None}
    BY <1>2, ScanUnderWay DEF ScanComplete
  <2>2. /\ scan' \in [Scanners -> {Idle} \cup Scans]
        /\ state' \in [watermark : Posts \cup {None}, full : BOOLEAN]
        /\ changed' \subseteq Runs \cup Scanners
    BY <1>2, <2>1 DEF ScanComplete, TypeOK, OpenScans
  <2> QED
    BY <1>2, <2>2, Zenon DEF ScanComplete, TypeOK, archive, snapshots
<1>3. CASE MarkGap(s)
  <2>1. /\ scan' \in [Scanners -> {Idle} \cup Scans]
        /\ state' \in [watermark : Posts \cup {None}, full : BOOLEAN]
    BY <1>3 DEF MarkGap, TypeOK
  <2> QED
    BY <1>3, <2>1, Zenon DEF MarkGap, TypeOK, provider, archive, snapshots
<1>4. CASE StopScan(s) \/ ScanLost(s)
  <2>1. scan' \in [Scanners -> {Idle} \cup Scans]
    BY <1>4 DEF StopScan, ScanLost, TypeOK
  <2> QED
    BY <1>4, <2>1, Zenon DEF StopScan, ScanLost, TypeOK, provider, archive, snapshots
<1> QED
  BY <1>1, <1>2, <1>3, <1>4

(* ... fetches a page ...                                                   *)
LEMMA ScanFetchTyped ==
  ASSUME TypeOK, NEW s \in Scanners, ScanFetch(s)
  PROVE  TypeOK'
<1> DEFINE token == scan[s].token
           sc == [scan[s] EXCEPT !.at = "observe", !.page = Page(token),
                                 !.token = NextToken(token), !.pages = @ + 1]
<1>0. scan[s] \in Scans /\ token \in Tokens /\ scan[s].pages \in 0..PageCap
  BY ScanUnderWay DEF ScanFetch
<1>1. /\ Page(token) \in SUBSET Posts /\ NextToken(token) \in Tokens
      /\ scan[s].pages + 1 \in 0..PageCap
  BY <1>0, PageShows, Bounds DEF ScanFetch
<1>2. scan' = [scan EXCEPT ![s] = sc]
  BY DEF ScanFetch
<1>3. sc \in Scans
  BY <1>0, <1>1 DEF Scans
<1> HIDE DEF sc
<1>4. scan' \in [Scanners -> {Idle} \cup Scans]
  BY <1>2, <1>3 DEF TypeOK
<1> QED
  BY <1>4, Zenon DEF ScanFetch, TypeOK, provider, archive, snapshots

(* The first post of a page is one of its posts.                            *)
LEMMA FirstOfPage ==
  ASSUME NEW page \in SUBSET Posts
  PROVE  IF page = {} THEN FirstOf(page) = None ELSE FirstOf(page) \in page
<1>1. CASE page = {}
  BY <1>1 DEF FirstOf
<1>2. CASE page # {}
  <2>1. page \in SUBSET Nat
    BY SyncAssumption
  <2>2. \E p \in page : \A q \in page : p <= q
    BY <1>2, <2>1, LeastExists, Zenon
  <2> QED
    BY <1>2, <2>2 DEF FirstOf
<1> QED
  BY <1>1, <1>2

(* ... and observes it.                                                     *)
LEMMA ScanObserveTyped ==
  ASSUME TypeOK, NEW s \in Scanners, ScanObserve(s)
  PROVE  TypeOK'
<1> DEFINE n == IF scan[s].newest = None THEN FirstOf(scan[s].page) ELSE scan[s].newest
           at == IF Reached(s) THEN "finish"
                 ELSE IF scan[s].token = End THEN "lost" ELSE "fetch"
           sc == [scan[s] EXCEPT !.newest = n, !.page = {}, !.at = at]
<1>0. /\ scan[s] \in Scans /\ scan[s].page \in SUBSET Posts
      /\ scan[s].newest \in Posts \cup {None}
  BY ScanUnderWay DEF ScanObserve
<1>1. scan' = [scan EXCEPT ![s] = sc]
  BY DEF ScanObserve
<1>2. n \in Posts \cup {None} /\ at \in {"finish", "lost", "fetch"}
  BY <1>0, FirstOfPage
<1> HIDE DEF n, at
<1>3. sc \in Scans
  BY <1>0, <1>2 DEF Scans
<1> HIDE DEF sc
<1>4. scan' \in [Scanners -> {Idle} \cup Scans]
  BY <1>1, <1>3 DEF TypeOK
<1>5. bookmark' \in [Posts -> Bookmarks]
  <2>1. bookmark' = UpsertObserved(s)
    BY DEF ScanObserve
  <2>2. ASSUME NEW p \in Posts PROVE bookmark'[p] \in Bookmarks
    <3>1. bookmark[p] \in Bookmarks
      BY DEF TypeOK
    <3>2. [bookmark[p] EXCEPT !.is = "active", !.snapshot = None, !.scanned = TRUE]
            \in Bookmarks
      BY <3>1 DEF Bookmarks
    <3> QED
      BY <2>1, <3>1, <3>2 DEF UpsertObserved
  <2> QED
    BY <2>1, <2>2, Zenon DEF UpsertObserved
<1>6. known' \subseteq Posts
  BY <1>0 DEF ScanObserve, PersistPosts, TypeOK
<1> QED
  BY <1>4, <1>5, <1>6, Zenon DEF ScanObserve, TypeOK, provider, snapshots
(* A step that moves one write on keeps the writes typed.                   *)
LEMMA MoveTyped ==
  ASSUME TypeOK, NEW o \in Ops, NEW status \in Statuses, op' = [op EXCEPT ![o].is = status]
  PROVE  op' \in [Ops -> OpRows]
<1>1. op \in [Ops -> OpRows]
  BY DEF TypeOK, OpRows
<1>2. [op[o] EXCEPT !.is = status] \in OpRows
  BY <1>1, WriteTyped
<1> QED
  BY <1>1, <1>2

(* The steps of a write keep the types: it is attempted or ends ...         *)
LEMMA WriteEndsTyped ==
  ASSUME TypeOK, NEW o \in Ops, Attempt(o) \/ CompleteConfirmed(o) \/ CompleteUnconfirmed(o)
  PROVE  TypeOK'
<1>1. CASE Attempt(o)
  <2>1. (IF Satisfied(o) THEN "succeeded" ELSE "provider_in_flight") \in Statuses
    BY DEF Statuses
  <2>2. op' \in [Ops -> OpRows]
    BY <1>1, <2>1, MoveTyped DEF Attempt
  <2> QED
    BY <1>1, <2>2, Zenon DEF Attempt, TypeOK, OpRows, provider, archive, snapshots
<1>2. CASE CompleteUnconfirmed(o)
  <2>1. op[o].answer \in Statuses
    BY <1>2 DEF CompleteUnconfirmed, Statuses
  <2>2. op' \in [Ops -> OpRows]
    BY <1>2, <2>1, MoveTyped DEF CompleteUnconfirmed
  <2> QED
    BY <1>2, <2>2, Zenon DEF CompleteUnconfirmed, TypeOK, OpRows, provider, archive, snapshots
<1>3. CASE CompleteConfirmed(o)
  <2>1. (IF Projected(o) THEN "succeeded" ELSE "projection_pending") \in Statuses
    BY DEF Statuses
  <2>2. op' \in [Ops -> OpRows]
    BY <1>3, <2>1, MoveTyped DEF CompleteConfirmed
  <2>3. bookmark' \in [Posts -> Bookmarks]
    <3> DEFINE b == bookmark[TargetOf[o]]
    <3>1. TargetOf[o] \in Posts /\ b \in Bookmarks
      BY SyncAssumption DEF TypeOK
    <3>2. /\ [b EXCEPT !.is = "active", !.snapshot = None, !.write = None] \in Bookmarks
          /\ [b EXCEPT !.is = "removed", !.snapshot = None, !.write = o] \in Bookmarks
      BY <3>1 DEF Bookmarks
    <3>3. PICK c \in Bookmarks : ProjectConfirmed(o) = [bookmark EXCEPT ![TargetOf[o]] = c]
      BY <3>2, Zenon DEF ProjectConfirmed
    <3>4. ProjectConfirmed(o) \in [Posts -> Bookmarks]
      BY <3>3 DEF TypeOK
    <3> QED
      BY <1>3, <3>4, Zenon DEF CompleteConfirmed, TypeOK
  <2>4. changed' \subseteq Runs \cup Scanners
    BY <1>3 DEF CompleteConfirmed, TypeOK, OpenScans
  <2> QED
    BY <1>3, <2>2, <2>3, <2>4, Zenon DEF CompleteConfirmed, TypeOK, OpRows, snapshots
<1> QED
  BY <1>1, <1>2, <1>3

(* ... or the provider answers it.                                          *)
LEMMA AnswerTyped ==
  ASSUME TypeOK, NEW o \in Ops, ProviderApplies(o) \/ ProviderRefuses(o)
  PROVE  TypeOK'
<1>0. op \in [Ops -> OpRows] /\ op[o] \in OpRows /\ TargetOf[o] \in Posts
  BY SyncAssumption DEF TypeOK, OpRows
<1>1. CASE ProviderApplies(o)
  <2>1. Save(TargetOf[o]) \/ Unsave(TargetOf[o]) \/ UNCHANGED provider
    BY <1>1 DEF ProviderApplies
  <2>2. /\ saved' \in [Posts -> 0..MaxSaves] /\ saves' \in 0..MaxSaves
        /\ changed' \subseteq Runs \cup Scanners
    BY <1>0, <2>1, ListTyped, Zenon DEF TypeOK, provider
  <2>3. saved'[TargetOf[o]] \in 0..MaxSaves
    BY <1>0, <2>2
  <2>4. PICK a \in {"confirmed", "uncertain"} :
          op' = [op EXCEPT ![o].answer = a, ![o].stamp = saved'[TargetOf[o]]]
    BY <1>1 DEF ProviderApplies
  <2>5. [op[o] EXCEPT !.answer = a, !.stamp = saved'[TargetOf[o]]] \in OpRows
    BY <1>0, <2>3 DEF OpRows
  <2>6. op' \in [Ops -> OpRows]
    BY <1>0, <2>4, <2>5
  <2> QED
    BY <1>1, <2>2, <2>6, Zenon DEF ProviderApplies, TypeOK, OpRows, archive, snapshots
<1>2. CASE ProviderRefuses(o)
  <2>1. PICK a \in {"uncertain", "failed"} : op' = [op EXCEPT ![o].answer = a]
    BY <1>2 DEF ProviderRefuses
  <2>2. [op[o] EXCEPT !.answer = a] \in OpRows
    BY <1>0 DEF OpRows
  <2>3. op' \in [Ops -> OpRows]
    BY <1>0, <2>1, <2>2
  <2> QED
    BY <1>2, <2>3, Zenon DEF ProviderRefuses, TypeOK, OpRows, provider, archive, snapshots
<1> QED
  BY <1>1, <1>2

(* A task that dies leaves the types.                                       *)
LEMMA CrashTyped ==
  ASSUME TypeOK, Crash
  PROVE  TypeOK'
<1>1. crashes' \in 0..MaxCrashes
  BY Bounds DEF Crash, TypeOK
<1>2. runner' \in [Runners -> {Idle} \cup Walks] /\ scan' \in [Scanners -> {Idle} \cup Scans]
  BY DEF Crash, TypeOK
<1> QED
  BY <1>1, <1>2, Zenon DEF Crash, TypeOK, provider, archive, snapshots

(* Every step keeps the types.                                              *)
LEMMA NextTyped ==
  ASSUME TypeOK, [Next]_vars
  PROVE  TypeOK'
<1>1. CASE UNCHANGED vars
  BY <1>1, Zenon DEF vars, TypeOK, provider, archive, snapshots
<1>2. ASSUME NEW w \in Runners,
             \/ SetRunning(w) \/ MarkFailed(w) \/ FetchPage(w) \/ StagePage(w)
             \/ CompleteRun(w) \/ CompleteRefused(w)
      PROVE  TypeOK'
  BY <1>2, StatusTyped, FetchTyped, StageTyped, CompleteTyped, Zenon
<1>3. ASSUME NEW s \in Scanners,
             \/ StartScan(s) \/ ScanFetch(s) \/ ScanObserve(s) \/ ScanComplete(s)
             \/ MarkGap(s) \/ StopScan(s) \/ ScanLost(s)
      PROVE  TypeOK'
  BY <1>3, ScanEndsTyped, ScanFetchTyped, ScanObserveTyped, Zenon
<1>4. ASSUME NEW o \in Ops,
             \/ Attempt(o) \/ ProviderApplies(o) \/ ProviderRefuses(o)
             \/ CompleteConfirmed(o) \/ CompleteUnconfirmed(o)
      PROVE  TypeOK'
  BY <1>4, WriteEndsTyped, AnswerTyped, Zenon
<1> QED
  BY <1>1, <1>2, <1>3, <1>4, UserTyped, TakeTyped, CrashTyped, Zenon DEF Next
-----------------------------------------------------------------------------
(* Removals.                                                                *)

(* What the removal of a bookmark in this step rests on.                    *)
HasEvidence(p) ==
  bookmark'[p] # bookmark[p] /\ bookmark'[p].is = "removed" =>
    LET b == bookmark'[p]
    IN IF b.snapshot # None
       THEN run'[b.snapshot].complete /\ p \notin run'[b.snapshot].items
       ELSE /\ b.write # None /\ ActionOf[b.write] = "remove"
            /\ op[b.write].answer = "confirmed" /\ op'[b.write].is = "succeeded"

(* Only a completion, an observed page and a confirmed write touch the      *)
(* bookmarks.                                                               *)
LEMMA BookmarkSteps ==
  ASSUME [Next]_vars
  PROVE  \/ \E w \in Runners : CompleteRun(w)
         \/ \E s \in Scanners : ScanObserve(s)
         \/ \E o \in Ops : CompleteConfirmed(o)
         \/ bookmark' = bookmark
<1>1. CASE UNCHANGED vars \/ Crash \/ \E p \in Posts : UserChanges(p)
  BY <1>1, Zenon DEF vars, archive, Crash, UserChanges
<1>2. ASSUME NEW w \in Runners, NEW r \in Runs, CreateRun(w, r) \/ Resume(w, r)
      PROVE  bookmark' = bookmark
  BY <1>2, Zenon DEF archive, CreateRun, Resume
<1>3. ASSUME NEW w \in Runners,
             \/ SetRunning(w) \/ MarkFailed(w) \/ FetchPage(w) \/ StagePage(w)
             \/ CompleteRefused(w)
      PROVE  bookmark' = bookmark
  BY <1>3, Zenon DEF archive, SetRunning, MarkFailed, FetchPage, StagePage, CompleteRefused
<1>4. ASSUME NEW s \in Scanners,
             \/ StartScan(s) \/ ScanFetch(s) \/ ScanComplete(s)
             \/ MarkGap(s) \/ StopScan(s) \/ ScanLost(s)
      PROVE  bookmark' = bookmark
  BY <1>4, Zenon DEF archive, StartScan, ScanFetch, ScanComplete, MarkGap, StopScan, ScanLost
<1>5. ASSUME NEW o \in Ops,
             \/ Attempt(o) \/ ProviderApplies(o) \/ ProviderRefuses(o) \/ CompleteUnconfirmed(o)
      PROVE  bookmark' = bookmark
  BY <1>5, Zenon DEF archive, Attempt, ProviderApplies, ProviderRefuses, CompleteUnconfirmed
<1> QED
  BY <1>1, <1>2, <1>3, <1>4, <1>5, Zenon DEF Next

(* The row of a run that completes.                                         *)
LEMMA CompletedRow ==
  ASSUME TypeOK, NEW w \in Runners, CompleteRun(w)
  PROVE  /\ runner[w].run \in Runs
         /\ run'[runner[w].run].complete
         /\ run'[runner[w].run].items = run[runner[w].run].items
         /\ \A r \in Runs \ {runner[w].run} : run'[r] = run[r]
<1>0. runner[w].run \in Runs /\ run[runner[w].run] \in RunRows
  BY UnderWay DEF CompleteRun
<1> QED
  BY <1>0 DEF CompleteRun, TypeOK, RunRows

(* Every removal has its evidence.                                          *)
LEMMA RemovalStep ==
  ASSUME TypeOK, [Next]_vars, NEW p \in Posts
  PROVE  HasEvidence(p)
<1>0. bookmark[p] \in Bookmarks
  BY DEF TypeOK
<1>1. ASSUME NEW w \in Runners, CompleteRun(w)
      PROVE  HasEvidence(p)
  <2>0. PICK r \in Runs : r = runner[w].run
    BY <1>1, CompletedRow
  <2>1. ReconcileBookmarks(r) /\ run'[r].complete /\ run'[r].items = run[r].items
    BY <1>1, <2>0, CompletedRow, Zenon DEF CompleteRun
  <2>2. CASE p \in run[r].items
    <3>1. bookmark'[p] =
            [bookmark[p] EXCEPT !.is = "active", !.snapshot = None, !.scanned = FALSE]
      BY <2>1, <2>2, Zenon DEF ReconcileBookmarks
    <3>2. bookmark'[p].is = "active"
      BY <1>0, <3>1 DEF Bookmarks
    <3> QED
      BY <3>2 DEF HasEvidence
  <2>3. CASE p \notin run[r].items /\ p \in Absent(r)
    <3>1. bookmark'[p] = [bookmark[p] EXCEPT !.is = "removed", !.snapshot = r]
      BY <2>1, <2>3, Zenon DEF ReconcileBookmarks
    <3>2. bookmark'[p].snapshot = r
      BY <1>0, <3>1 DEF Bookmarks
    <3>3. r # None
      BY <2>0, SyncAssumption
    <3> QED
      BY <2>1, <2>3, <3>2, <3>3, Zenon DEF HasEvidence
  <2>4. CASE p \notin run[r].items /\ p \notin Absent(r)
    <3>1. bookmark'[p] = bookmark[p]
      BY <2>1, <2>4, Zenon DEF ReconcileBookmarks
    <3> QED
      BY <3>1, Zenon DEF HasEvidence
  <2> QED
    BY <2>2, <2>3, <2>4
<1>2. ASSUME NEW s \in Scanners, ScanObserve(s)
      PROVE  HasEvidence(p)
  <2>1. bookmark' = UpsertObserved(s)
    BY <1>2 DEF ScanObserve
  <2>2. bookmark'[p] = bookmark[p] \/ bookmark'[p].is = "active"
    BY <1>0, <2>1 DEF UpsertObserved, Bookmarks
  <2> QED
    BY <2>2 DEF HasEvidence
<1>3. ASSUME NEW o \in Ops, CompleteConfirmed(o)
      PROVE  HasEvidence(p)
  <2>1. op[o].answer = "confirmed"
    BY <1>3 DEF CompleteConfirmed
  <2>2. CASE Projected(o) /\ p = TargetOf[o] /\ ActionOf[o] = "remove"
    <3>1. bookmark'[p] = [bookmark[p] EXCEPT !.is = "removed", !.snapshot = None, !.write = o]
      BY <1>3, <2>2 DEF CompleteConfirmed, ProjectConfirmed, TypeOK
    <3>2. bookmark'[p].snapshot = None /\ bookmark'[p].write = o
      BY <1>0, <3>1 DEF Bookmarks
    <3>3. op'[o].is = "succeeded"
      BY <1>3, <2>2 DEF CompleteConfirmed, TypeOK
    <3>4. o # None
      BY SyncAssumption
    <3> QED
      BY <2>1, <2>2, <3>2, <3>3, <3>4, Zenon DEF HasEvidence
  <2>3. CASE Projected(o) /\ p = TargetOf[o] /\ ActionOf[o] # "remove"
    <3>1. ActionOf[o] = "add"
      BY <2>3, SyncAssumption
    <3>2. bookmark'[p] = [bookmark[p] EXCEPT !.is = "active", !.snapshot = None, !.write = None]
      BY <1>3, <2>3, <3>1 DEF CompleteConfirmed, ProjectConfirmed, TypeOK
    <3>3. bookmark'[p].is = "active"
      BY <1>0, <3>2 DEF Bookmarks
    <3> QED
      BY <3>3 DEF HasEvidence
  <2>4. CASE ~Projected(o) \/ p # TargetOf[o]
    <3>1. bookmark'[p] = bookmark[p]
      BY <1>3, <2>4 DEF CompleteConfirmed, ProjectConfirmed, TypeOK
    <3> QED
      BY <3>1, Zenon DEF HasEvidence
  <2> QED
    BY <2>2, <2>3, <2>4
<1>4. CASE bookmark' = bookmark
  BY <1>4, Zenon DEF HasEvidence
<1> QED
  BY <1>1, <1>2, <1>3, <1>4, BookmarkSteps, Zenon
-----------------------------------------------------------------------------
(* Runs over an unchanged list.                                             *)

(* Nothing saved at t or later is missing from S.                           *)
Covers(S, t) == \A p \in Saved : saved[p] >= t => p \in S

(* The snapshot of a run that is open and undisturbed holds saved posts,    *)
(* and all of them down to the checkpoint a task may resume from.           *)
RunHolds(r) ==
  /\ run[r].is = "unused" => run[r].items = {} /\ run[r].checkpoint = Start
  /\ r \notin changed /\ ~run[r].complete =>
       run[r].items \subseteq Saved /\ Covers(run[r].items, run[r].checkpoint)

(* A task works on a run that was created; with the page in its hands, the  *)
(* snapshot of an undisturbed run holds all down to the task's token.       *)
WalkHolds(w) ==
  runner[w] # Idle =>
    /\ run[runner[w].run].is # "unused"
    /\ runner[w].at # "stage" => runner[w].page = {}
    /\ runner[w].at = "finish" => runner[w].token = End
    /\ runner[w].run \notin changed /\ ~run[runner[w].run].complete =>
         /\ runner[w].page \subseteq Saved
         /\ Covers(run[runner[w].run].items \cup runner[w].page, runner[w].token)

WalksHold == (\A r \in Runs : RunHolds(r)) /\ (\A w \in Runners : WalkHolds(w))

(* Nothing is saved after the start of the list.                            *)
LEMMA NothingBeforeStart ==
  ASSUME TypeOK, NEW S
  PROVE  Covers(S, Start)
  BY Bounds DEF TypeOK, Covers, Saved, Start

(* The history of a run is not forgotten.                                   *)
LEMMA ChangedStays ==
  ASSUME TypeOK, [Next]_vars, NEW r \in Runs, r \in changed
  PROVE  r \in changed'
<1>1. CASE UNCHANGED vars \/ Crash
  BY <1>1 DEF vars, provider, Crash
<1>2. ASSUME NEW p \in Posts, Save(p) \/ Unsave(p) \/ UNCHANGED provider
      PROVE  r \in changed'
  BY <1>2 DEF Save, Unsave, provider
<1>3. ASSUME NEW p \in Posts, UserChanges(p)
      PROVE  r \in changed'
  BY <1>2, <1>3, Zenon DEF UserChanges
<1>4. ASSUME NEW w \in Runners, NEW q \in Runs, CreateRun(w, q) \/ Resume(w, q)
      PROVE  r \in changed'
  BY <1>4 DEF provider, CreateRun, Resume
<1>5. ASSUME NEW w \in Runners,
             \/ SetRunning(w) \/ MarkFailed(w) \/ FetchPage(w) \/ StagePage(w)
             \/ CompleteRefused(w) \/ CompleteRun(w)
      PROVE  r \in changed'
  BY <1>5 DEF provider, SetRunning, MarkFailed, FetchPage, StagePage, CompleteRefused, CompleteRun
<1>6. ASSUME NEW s \in Scanners,
             \/ ScanFetch(s) \/ ScanObserve(s) \/ ScanComplete(s)
             \/ MarkGap(s) \/ StopScan(s) \/ ScanLost(s)
      PROVE  r \in changed'
  BY <1>6 DEF provider, ScanFetch, ScanObserve, ScanComplete, MarkGap, StopScan, ScanLost
<1>7. ASSUME NEW s \in Scanners, StartScan(s)
      PROVE  r \in changed'
  BY <1>7, SyncAssumption DEF StartScan
<1>8. ASSUME NEW o \in Ops, Attempt(o) \/ ProviderRefuses(o) \/ CompleteUnconfirmed(o)
                            \/ CompleteConfirmed(o)
      PROVE  r \in changed'
  BY <1>8 DEF provider, Attempt, ProviderRefuses, CompleteUnconfirmed, CompleteConfirmed
<1>9. ASSUME NEW o \in Ops, ProviderApplies(o)
      PROVE  r \in changed'
  <2>1. TargetOf[o] \in Posts
    BY SyncAssumption
  <2> QED
    BY <1>2, <1>9, <2>1, Zenon DEF ProviderApplies
<1> QED
  BY <1>1, <1>3, <1>4, <1>5, <1>6, <1>7, <1>8, <1>9, Zenon DEF Next

(* A row of a run only grows.                                               *)
Grows(r) ==
  /\ run[r].items \subseteq run'[r].items
  /\ run[r].complete => run'[r].complete
  /\ run[r].is # "unused" => run'[r].is # "unused"

(* A task that is not the one that steps, or that stops, keeps what it      *)
(* holds.                                                                   *)
LEMMA WalkKept ==
  ASSUME TypeOK, NEW w \in Runners, WalkHolds(w), saved' = saved,
         runner'[w] = runner[w] \/ runner'[w] = Idle,
         \A r \in Runs : Grows(r), \A r \in Runs : r \in changed => r \in changed'
  PROVE  WalkHolds(w)'
<1>1. CASE runner'[w] = Idle
  BY <1>1, Zenon DEF WalkHolds
<1>2. CASE runner'[w] = runner[w] /\ runner[w] # Idle
  <2>1. PICK r \in Runs : r = runner[w].run
    BY <1>2 DEF TypeOK, Walks
  <2>2. Saved' = Saved /\ Grows(r) /\ (r \in changed => r \in changed')
    BY <2>1, Zenon DEF Saved
  <2>3. /\ run'[r].is # "unused" /\ (run[r].complete => run'[r].complete)
        /\ run[r].items \subseteq run'[r].items
    BY <1>2, <2>1, <2>2, Zenon DEF WalkHolds, Grows
  <2>4. r \notin changed' /\ ~run'[r].complete =>
          Covers(run[r].items \cup runner[w].page, runner[w].token)
    BY <1>2, <2>1, <2>2, <2>3, Zenon DEF WalkHolds
  <2>5. r \notin changed' /\ ~run'[r].complete =>
          Covers(run[r].items \cup runner[w].page, runner[w].token)'
    BY <1>2, <2>2, <2>3, <2>4 DEF Covers
  <2> QED
    BY <1>2, <2>1, <2>2, <2>3, <2>5, Zenon DEF WalkHolds
<1> QED
  BY <1>1, <1>2, Zenon DEF WalkHolds
(* A run whose snapshot and checkpoint stay keeps what it holds.            *)
LEMMA RunKept ==
  ASSUME NEW r \in Runs, RunHolds(r), saved' = saved, r \in changed => r \in changed',
         run'[r].items = run[r].items, run'[r].checkpoint = run[r].checkpoint,
         run[r].complete => run'[r].complete, run'[r].is = "unused" => run[r].is = "unused"
  PROVE  RunHolds(r)'
<1>1. Saved' = Saved
  BY Zenon DEF Saved
<1>2. Covers(run[r].items, run[r].checkpoint) => Covers(run[r].items, run[r].checkpoint)'
  BY <1>1, Zenon DEF Covers
<1> QED
  BY <1>1, <1>2, Zenon DEF RunHolds

(* What a step of one task leaves to show.                                  *)
LEMMA TaskStep ==
  ASSUME TypeOK, WalksHold, [Next]_vars, NEW w \in Runners, saved' = saved,
         \A v \in Runners \ {w} : runner'[v] = runner[v],
         \A r \in Runs : Grows(r) /\ RunHolds(r)', WalkHolds(w)'
  PROVE  WalksHold'
<1>1. \A r \in Runs : r \in changed => r \in changed'
  BY ChangedStays, Zenon
<1>2. ASSUME NEW v \in Runners \ {w} PROVE WalkHolds(v)'
  <2>1. WalkHolds(v) /\ runner'[v] = runner[v] /\ v \in Runners
    BY <1>2, Zenon DEF WalksHold
  <2>2. \A r \in Runs : Grows(r)
    BY Zenon
  <2> QED
    BY <1>1, <2>1, <2>2, WalkKept
<1> QED
  BY <1>2, Zenon DEF WalksHold

(* A step that leaves the list, the runs and the tasks, but for a task that *)
(* ends, keeps what they hold.                                              *)
LEMMA StandStill ==
  ASSUME TypeOK, WalksHold, [Next]_vars, saved' = saved, run' = run,
         \A w \in Runners : runner'[w] = runner[w] \/ runner'[w] = Idle
  PROVE  WalksHold'
<1>1. \A r \in Runs : r \in changed => r \in changed'
  BY ChangedStays, Zenon
<1>2. \A r \in Runs : Grows(r)
  BY DEF Grows
<1>3. ASSUME NEW w \in Runners PROVE WalkHolds(w)'
  <2>1. WalkHolds(w) /\ (runner'[w] = runner[w] \/ runner'[w] = Idle)
    BY Zenon DEF WalksHold
  <2> QED
    BY <1>1, <1>2, <2>1, WalkKept
<1>4. ASSUME NEW r \in Runs PROVE RunHolds(r)'
  <2>1. RunHolds(r)
    BY Zenon DEF WalksHold
  <2> QED
    BY <1>1, <2>1, RunKept
<1> QED
  BY <1>3, <1>4, Zenon DEF WalksHold

(* A change of the list disturbs every open run.                            *)
LEMMA ListChanges ==
  ASSUME TypeOK, TypeOK', WalksHold, NEW p \in Posts, Save(p) \/ Unsave(p),
         run' = run, runner' = runner
  PROVE  WalksHold'
<1>1. \A r \in Runs : r \notin changed' => run[r].is = "unused" \/ run[r].complete
  BY Zenon DEF Save, Unsave, Open
<1>2. ASSUME NEW r \in Runs PROVE RunHolds(r)'
  <2>1. RunHolds(r)
    BY Zenon DEF WalksHold
  <2>2. CASE run[r].is = "unused"
    <3>1. run'[r].items = {} /\ run'[r].checkpoint = Start
      BY <2>1, <2>2, Zenon DEF RunHolds
    <3>2. Covers({}, Start)'
      BY Bounds DEF TypeOK, Covers, Saved, Start
    <3>3. {} \subseteq Saved'
      OBVIOUS
    <3> QED
      BY <3>1, <3>2, <3>3, Zenon DEF RunHolds
  <2>3. CASE run[r].is # "unused"
    BY <1>1, <2>3, Zenon DEF RunHolds
  <2> QED
    BY <2>2, <2>3
<1>3. ASSUME NEW w \in Runners PROVE WalkHolds(w)'
  <2>1. WalkHolds(w)
    BY Zenon DEF WalksHold
  <2>2. CASE runner[w] = Idle
    BY <2>2, Zenon DEF WalkHolds
  <2>3. CASE runner[w] # Idle
    <3>1. PICK r \in Runs : r = runner[w].run
      BY <2>3 DEF TypeOK, Walks
    <3>2. run[r].is # "unused"
      BY <2>1, <2>3, <3>1, Zenon DEF WalkHolds
    <3>3. r \notin changed' => run'[r].complete
      BY <1>1, <3>1, <3>2, Zenon
    <3> QED
      BY <2>1, <2>3, <3>1, <3>3, Zenon DEF WalkHolds
  <2> QED
    BY <2>2, <2>3
<1> QED
  BY <1>2, <1>3, Zenon DEF WalksHold
(* A step that only sets the status of a run, to one of a run in use, keeps *)
(* what the runs hold.                                                      *)
LEMMA StatusSet ==
  ASSUME TypeOK, WalksHold, [Next]_vars, saved' = saved, NEW r \in Runs,
         NEW status \in {"running", "failed"}, run' = [run EXCEPT ![r].is = status]
  PROVE  \A q \in Runs : Grows(q) /\ RunHolds(q)'
<1>1. ASSUME NEW q \in Runs PROVE Grows(q) /\ RunHolds(q)'
  <2>1. run[q] \in RunRows /\ run[r] \in RunRows
    BY DEF TypeOK
  <2>2. /\ run'[q].items = run[q].items /\ run'[q].checkpoint = run[q].checkpoint
        /\ run'[q].complete = run[q].complete
        /\ run'[q].is = run[q].is \/ run'[q].is = status
    BY <2>1 DEF TypeOK, RunRows
  <2>3. Grows(q)
    BY <2>2 DEF Grows
  <2>4. RunHolds(q) /\ (q \in changed => q \in changed')
    BY ChangedStays, Zenon DEF WalksHold
  <2>5. run'[q].is = "unused" => run[q].is = "unused"
    BY <2>2
  <2>6. RunHolds(q)'
    BY <2>2, <2>4, <2>5, RunKept
  <2> QED
    BY <2>3, <2>6
<1> QED
  BY <1>1

(* A new run holds nothing, which is all there is before the list starts.   *)
LEMMA CreateHolds ==
  ASSUME TypeOK, TypeOK', WalksHold, NEW w \in Runners, NEW r \in Runs, CreateRun(w, r),
         [Next]_vars
  PROVE  WalksHold'
<1>1. /\ saved' = saved /\ run' = [run EXCEPT ![r].is = "running"]
      /\ runner' = [runner EXCEPT ![w] = Walk("fetch", r, Start, {})]
  BY DEF CreateRun, provider
<1>2. \A q \in Runs : Grows(q) /\ RunHolds(q)'
  BY <1>1, StatusSet, Zenon
<1>3. /\ runner'[w] = Walk("fetch", r, Start, {})
      /\ \A v \in Runners \ {w} : runner'[v] = runner[v]
  BY <1>1 DEF TypeOK
<1>4. run'[r].is # "unused"
  BY <1>1 DEF TypeOK, RunRows
<1>5. \A S : Covers(S, Start)'
  BY <1>1, NothingBeforeStart DEF Covers, Saved, Start
<1>6. /\ runner'[w].run = r /\ runner'[w].at = "fetch" /\ runner'[w].token = Start
      /\ runner'[w].page = {}
  BY <1>3 DEF Walk
<1>7. WalkHolds(w)'
  BY <1>4, <1>5, <1>6 DEF WalkHolds
<1> QED
  BY <1>1, <1>2, <1>3, <1>7, TaskStep

(* A resumed run holds all down to its checkpoint.                          *)
LEMMA ResumeHolds ==
  ASSUME TypeOK, TypeOK', WalksHold, NEW w \in Runners, NEW r \in Runs, Resume(w, r),
         [Next]_vars
  PROVE  WalksHold'
<1>1. /\ saved' = saved /\ run' = run /\ changed' = changed
      /\ runner' = [runner EXCEPT ![w] = Walk("resume", r, run[r].checkpoint, {})]
  BY DEF Resume, provider, snapshots
<1>2. ASSUME NEW q \in Runs PROVE Grows(q) /\ RunHolds(q)'
  <2>1. RunHolds(q)
    BY Zenon DEF WalksHold
  <2>2. Grows(q)
    BY <1>1 DEF Grows
  <2> QED
    BY <1>1, <2>1, <2>2, RunKept
<1>3. /\ runner'[w] = Walk("resume", r, run[r].checkpoint, {})
      /\ \A v \in Runners \ {w} : runner'[v] = runner[v]
  BY <1>1 DEF TypeOK
<1>4. run'[r].is # "unused"
  BY <1>1 DEF Resume
<1>5. /\ runner'[w].run = r /\ runner'[w].at = "resume" /\ runner'[w].page = {}
      /\ runner'[w].token = run'[r].checkpoint
  BY <1>1, <1>3 DEF Walk
<1>6. r \notin changed' /\ ~run'[r].complete => Covers(run[r].items, run[r].checkpoint)'
  BY <1>2, Zenon DEF RunHolds
<1>7. run'[r].items \cup runner'[w].page = run'[r].items /\ runner'[w].page \subseteq Saved'
  BY <1>5
<1>8. WalkHolds(w)'
  BY <1>4, <1>5, <1>6, <1>7 DEF WalkHolds
<1> QED
  BY <1>1, <1>2, <1>3, <1>8, TaskStep

(* A task that sets its run running holds what it held, and one that fails  *)
(* it is over.                                                              *)
LEMMA StatusHolds ==
  ASSUME TypeOK, TypeOK', WalksHold, NEW w \in Runners, SetRunning(w) \/ MarkFailed(w),
         [Next]_vars
  PROVE  WalksHold'
<1>0. PICK r \in Runs : r = runner[w].run
  BY UnderWay DEF SetRunning, MarkFailed
<1>1. CASE SetRunning(w)
  <2>1. /\ saved' = saved /\ changed' = changed /\ run' = [run EXCEPT ![r].is = "running"]
        /\ runner' = [runner EXCEPT ![w].at = "fetch"]
    BY <1>0, <1>1 DEF SetRunning, provider
  <2>2. \A q \in Runs : Grows(q) /\ RunHolds(q)'
    BY <2>1, StatusSet, Zenon
  <2>3. runner[w] \in Walks /\ runner[w] # Idle
    BY <1>1, UnderWay DEF SetRunning, Idle
  <2>4. /\ runner'[w].at = "fetch" /\ runner'[w].run = r
        /\ runner'[w].page = runner[w].page /\ runner'[w].token = runner[w].token
        /\ \A v \in Runners \ {w} : runner'[v] = runner[v]
    BY <1>0, <2>1, <2>3 DEF TypeOK, Walks
  <2>5. /\ run'[r].is # "unused" /\ run'[r].items = run[r].items
        /\ run'[r].complete = run[r].complete
    BY <2>1 DEF TypeOK, RunRows
  <2>6. WalkHolds(w)
    BY Zenon DEF WalksHold
  <2>7. runner[w].page = {}
    BY <1>1, <2>3, <2>6 DEF WalkHolds, SetRunning
  <2>8. r \notin changed' /\ ~run'[r].complete =>
          Covers(run[r].items \cup runner[w].page, runner[w].token)
    BY <1>0, <2>1, <2>3, <2>5, <2>6, Zenon DEF WalkHolds
  <2>9. r \notin changed' /\ ~run'[r].complete =>
          Covers(run[r].items \cup runner[w].page, runner[w].token)'
    BY <2>1, <2>4, <2>5, <2>8 DEF Covers, Saved
  <2>10. WalkHolds(w)'
    BY <2>4, <2>5, <2>7, <2>9 DEF WalkHolds
  <2> QED
    BY <2>1, <2>2, <2>4, <2>10, TaskStep
<1>2. CASE MarkFailed(w)
  <2>1. /\ saved' = saved /\ run' = [run EXCEPT ![r].is = "failed"]
        /\ runner' = [runner EXCEPT ![w] = Idle]
    BY <1>0, <1>2 DEF MarkFailed, provider
  <2>2. \A q \in Runs : Grows(q) /\ RunHolds(q)'
    BY <2>1, StatusSet, Zenon
  <2>3. runner'[w] = Idle /\ \A v \in Runners \ {w} : runner'[v] = runner[v]
    BY <2>1 DEF TypeOK
  <2>4. WalkHolds(w)'
    BY <2>3, Zenon DEF WalkHolds
  <2> QED
    BY <2>1, <2>2, <2>3, <2>4, TaskStep
<1> QED
  BY <1>1, <1>2
(* A page extends what is covered to its continuation.                      *)
LEMMA PageExtends ==
  ASSUME TypeOK, NEW token \in Tokens, NEW S, Covers(S, token)
  PROVE  Covers(S \cup Page(token), NextToken(token))
<1>1. SUFFICES ASSUME NEW p \in Saved, saved[p] >= NextToken(token)
               PROVE  p \in S \cup Page(token)
  BY DEF Covers
<1>2. saved[p] \in Nat /\ token \in Nat /\ NextToken(token) \in Nat
  BY PageShows, Bounds DEF TypeOK, Saved, Tokens
<1>3. CASE saved[p] >= token
  BY <1>3 DEF Covers
<1>4. CASE saved[p] < token
  <2>1. p \in Listed(token)
    BY <1>4 DEF Listed
  <2> QED
    BY <1>1, <1>2, <2>1, PageCovers
<1> QED
  BY <1>2, <1>3, <1>4

(* A fetched page brings a task down to the page's continuation.            *)
LEMMA FetchHolds ==
  ASSUME TypeOK, TypeOK', WalksHold, NEW w \in Runners, FetchPage(w), [Next]_vars
  PROVE  WalksHold'
<1>0. PICK r \in Runs, token \in Tokens : r = runner[w].run /\ token = runner[w].token
  BY UnderWay DEF FetchPage
<1>1. runner[w] \in Walks /\ runner[w] # Idle
  BY UnderWay DEF FetchPage, Idle
<1>2. /\ saved' = saved /\ run' = run /\ changed' = changed
      /\ runner' = [runner EXCEPT ![w].at = "stage", ![w].page = Page(token),
                                  ![w].token = NextToken(token)]
  BY <1>0 DEF FetchPage, provider, snapshots
<1>3. /\ runner'[w].at = "stage" /\ runner'[w].run = r
      /\ runner'[w].page = Page(token) /\ runner'[w].token = NextToken(token)
      /\ \A v \in Runners \ {w} : runner'[v] = runner[v]
  BY <1>0, <1>1, <1>2 DEF TypeOK, Walks
<1>4. ASSUME NEW q \in Runs PROVE Grows(q) /\ RunHolds(q)'
  <2>1. RunHolds(q)
    BY Zenon DEF WalksHold
  <2>2. Grows(q)
    BY <1>2 DEF Grows
  <2> QED
    BY <1>2, <2>1, <2>2, RunKept
<1>5. WalkHolds(w)
  BY Zenon DEF WalksHold
<1>6. run'[r].is # "unused" /\ runner[w].page = {}
  BY <1>0, <1>1, <1>2, <1>5 DEF WalkHolds, FetchPage
<1>7. Page(token) \subseteq Saved' /\ Saved' = Saved
  BY <1>2, PageShows DEF Saved
<1>8. r \notin changed' /\ ~run'[r].complete => Covers(run[r].items, token)
  <2>1. run[r].items \cup runner[w].page = run[r].items
    BY <1>6
  <2> QED
    BY <1>0, <1>1, <1>2, <1>5, <2>1, Zenon DEF WalkHolds
<1>9. r \notin changed' /\ ~run'[r].complete =>
        Covers(run[r].items \cup Page(token), NextToken(token))
  BY <1>8, PageExtends
<1>10. r \notin changed' /\ ~run'[r].complete =>
         Covers(run[r].items \cup runner[w].page, runner[w].token)'
  BY <1>2, <1>3, <1>7, <1>9, Zenon DEF Covers
<1>11. WalkHolds(w)'
  BY <1>3, <1>6, <1>7, <1>10 DEF WalkHolds
<1> QED
  BY <1>2, <1>3, <1>4, <1>11, TaskStep

(* A staged page brings the snapshot down to it, and the checkpoint of a    *)
(* run in progress, so that a task may resume there.                        *)
LEMMA StageHolds ==
  ASSUME TypeOK, TypeOK', WalksHold, NEW w \in Runners, StagePage(w), [Next]_vars
  PROVE  WalksHold'
<1>0. PICK r \in Runs, token \in Tokens : r = runner[w].run /\ token = runner[w].token
  BY UnderWay DEF StagePage
<1>1. runner[w] # Idle /\ runner[w].at = "stage" /\ run[r] \in RunRows
  BY <1>0, UnderWay DEF StagePage, Idle
<1>2. PICK c : c = IF run[r].is = "running" THEN Checkpoint(token) ELSE run[r].checkpoint
  BY Zenon
<1>3. /\ saved' = saved /\ changed' = changed
      /\ run' = [run EXCEPT ![r].items = @ \cup runner[w].page, ![r].checkpoint = c]
      /\ runner' = [runner EXCEPT ![w] =
                      Walk(IF token = End THEN "finish" ELSE "fetch", r, token, {})]
  BY <1>0, <1>2 DEF StagePage, provider
<1>4. /\ run'[r].items = run[r].items \cup runner[w].page /\ run'[r].checkpoint = c
      /\ run'[r].is = run[r].is /\ run'[r].complete = run[r].complete
      /\ \A q \in Runs \ {r} : run'[q] = run[q]
  BY <1>1, <1>3 DEF TypeOK, RunRows
<1>5. /\ runner'[w] = Walk(IF token = End THEN "finish" ELSE "fetch", r, token, {})
      /\ \A v \in Runners \ {w} : runner'[v] = runner[v]
  BY <1>3 DEF TypeOK
<1>6. WalkHolds(w) /\ RunHolds(r)
  BY Zenon DEF WalksHold
<1>7. /\ run[r].is # "unused"
      /\ r \notin changed /\ ~run[r].complete =>
           /\ runner[w].page \subseteq Saved /\ run[r].items \subseteq Saved
           /\ Covers(run'[r].items, token) /\ Covers(run[r].items, run[r].checkpoint)
  BY <1>0, <1>1, <1>4, <1>6, Zenon DEF WalkHolds, RunHolds
<1>8. r \notin changed /\ ~run[r].complete => Covers(run'[r].items, c)
  <2>1. CASE c = Start
    BY <2>1, NothingBeforeStart
  <2>2. CASE c = token
    BY <1>7, <2>2
  <2>3. CASE c = run[r].checkpoint
    BY <1>4, <1>7, <2>3 DEF Covers
  <2> QED
    BY <1>2, <2>1, <2>2, <2>3, Zenon DEF Checkpoint
<1>9. RunHolds(r)'
  <2>1. Saved' = Saved
    BY <1>3 DEF Saved
  <2>2. Covers(run'[r].items, c) => Covers(run[r].items, run[r].checkpoint)'
    BY <1>3, <1>4, <2>1, Zenon DEF Covers
  <2>3. r \notin changed' /\ ~run'[r].complete => run'[r].items \subseteq Saved'
    BY <1>3, <1>4, <1>7, <2>1
  <2> QED
    BY <1>3, <1>4, <1>7, <1>8, <2>2, <2>3, Zenon DEF RunHolds
<1>10. ASSUME NEW q \in Runs PROVE Grows(q) /\ RunHolds(q)'
  <2>1. CASE q = r
    BY <1>4, <1>9, <2>1 DEF Grows
  <2>2. CASE q # r
    <3>1. RunHolds(q) /\ run'[q] = run[q]
      BY <1>4, <2>2, Zenon DEF WalksHold
    <3>2. Grows(q)
      BY <3>1 DEF Grows
    <3> QED
      BY <1>3, <3>1, <3>2, RunKept
  <2> QED
    BY <2>1, <2>2
<1>11. WalkHolds(w)'
  <2>1. /\ runner'[w].run = r /\ runner'[w].token = token /\ runner'[w].page = {}
        /\ runner'[w].at # "stage" /\ (runner'[w].at = "finish" => token = End)
    BY <1>5 DEF Walk
  <2>2. run'[r].items \cup runner'[w].page = run'[r].items /\ runner'[w].page \subseteq Saved'
    BY <2>1
  <2>3. Covers(run'[r].items, token) => Covers(run[r].items \cup runner[w].page, runner[w].token)'
    <3>1. saved' = saved /\ Saved' = Saved
      BY <1>3, Zenon DEF Saved
    <3> QED
      BY <2>1, <2>2, <3>1, Zenon DEF Covers
  <2>4. r \notin changed' /\ ~run'[r].complete =>
          Covers(run[r].items \cup runner[w].page, runner[w].token)'
    BY <1>3, <1>4, <1>7, <2>3, Zenon
  <2>5. run'[r].is # "unused"
    BY <1>4, <1>7, Zenon
  <2> QED
    BY <2>1, <2>2, <2>4, <2>5 DEF WalkHolds
<1> QED
  BY <1>3, <1>5, <1>10, <1>11, TaskStep
(* A completed run need hold nothing of the list to come.                   *)
LEMMA CompleteHolds ==
  ASSUME TypeOK, TypeOK', WalksHold, NEW w \in Runners, CompleteRun(w), [Next]_vars
  PROVE  WalksHold'
<1>0. PICK r \in Runs : r = runner[w].run
  BY CompletedRow
<1>1. /\ saved' = saved /\ runner' = [runner EXCEPT ![w] = Idle]
      /\ run' = [run EXCEPT ![r].is = "completed", ![r].complete = TRUE,
                            ![r].checkpoint = Start]
  BY <1>0 DEF CompleteRun
<1>2. /\ run'[r].is = "completed" /\ run'[r].complete /\ run'[r].items = run[r].items
      /\ \A q \in Runs \ {r} : run'[q] = run[q]
  BY <1>1 DEF TypeOK, RunRows
<1>3. runner'[w] = Idle /\ \A v \in Runners \ {w} : runner'[v] = runner[v]
  BY <1>1 DEF TypeOK
<1>4. ASSUME NEW q \in Runs PROVE Grows(q) /\ RunHolds(q)'
  <2>1. CASE q = r
    BY <1>2, <2>1 DEF Grows, RunHolds
  <2>2. CASE q # r
    <3>1. RunHolds(q) /\ run'[q] = run[q] /\ (q \in changed => q \in changed')
      BY <1>2, <2>2, ChangedStays, Zenon DEF WalksHold
    <3>2. Grows(q)
      BY <3>1 DEF Grows
    <3> QED
      BY <1>1, <3>1, <3>2, RunKept
  <2> QED
    BY <2>1, <2>2
<1>5. WalkHolds(w)'
  BY <1>3, Zenon DEF WalkHolds
<1> QED
  BY <1>1, <1>3, <1>4, <1>5, TaskStep

(* The steps of scans and writes and the end of a task leave the list, the  *)
(* runs and the tasks under way; what else the provider does changes the    *)
(* list.                                                                    *)
LEMMA OtherSteps ==
  ASSUME [Next]_vars
  PROVE  \/ \E w \in Runners, r \in Runs : CreateRun(w, r) \/ Resume(w, r)
         \/ \E w \in Runners : \/ SetRunning(w) \/ MarkFailed(w) \/ FetchPage(w)
                               \/ StagePage(w) \/ CompleteRun(w)
         \/ /\ \E p \in Posts : Save(p) \/ Unsave(p)
            /\ run' = run /\ runner' = runner
         \/ /\ saved' = saved /\ run' = run
            /\ \/ runner' = runner
               \/ \E w \in Runners : runner' = [runner EXCEPT ![w] = Idle]
<1>1. CASE UNCHANGED vars
  BY <1>1, Zenon DEF vars, provider, snapshots
<1>2. CASE Crash
  BY <1>2, Zenon DEF Crash, provider, snapshots
<1>3. ASSUME NEW p \in Posts, UserChanges(p)
      PROVE  (Save(p) \/ Unsave(p)) /\ run' = run /\ runner' = runner
  BY <1>3, Zenon DEF UserChanges, snapshots
<1>4. ASSUME NEW w \in Runners, CompleteRefused(w)
      PROVE  saved' = saved /\ run' = run /\ runner' = [runner EXCEPT ![w] = Idle]
  BY <1>4, Zenon DEF CompleteRefused, provider, snapshots
<1>5. ASSUME NEW s \in Scanners,
             \/ StartScan(s) \/ ScanFetch(s) \/ ScanObserve(s) \/ ScanComplete(s)
             \/ MarkGap(s) \/ StopScan(s) \/ ScanLost(s)
      PROVE  saved' = saved /\ run' = run /\ runner' = runner
  BY <1>5, Zenon DEF StartScan, ScanFetch, ScanObserve, ScanComplete, MarkGap, StopScan,
                     ScanLost, provider, snapshots
<1>6. ASSUME NEW o \in Ops, Attempt(o) \/ ProviderRefuses(o) \/ CompleteConfirmed(o)
                            \/ CompleteUnconfirmed(o)
      PROVE  saved' = saved /\ run' = run /\ runner' = runner
  BY <1>6, Zenon DEF Attempt, ProviderRefuses, CompleteConfirmed, CompleteUnconfirmed,
                     provider, snapshots
<1>7. ASSUME NEW o \in Ops, ProviderApplies(o)
      PROVE  /\ run' = run /\ runner' = runner
             /\ saved' = saved \/ \E p \in Posts : Save(p) \/ Unsave(p)
  <2>1. TargetOf[o] \in Posts
    BY SyncAssumption
  <2> QED
    BY <1>7, <2>1, Zenon DEF ProviderApplies, provider, snapshots
<1> QED
  BY <1>1, <1>2, <1>3, <1>4, <1>5, <1>6, <1>7, Zenon DEF Next

(* Every step keeps what the runs and the tasks hold.                       *)
LEMMA NextWalks ==
  ASSUME TypeOK, TypeOK', WalksHold, [Next]_vars
  PROVE  WalksHold'
<1>1. ASSUME NEW w \in Runners, NEW r \in Runs, CreateRun(w, r) \/ Resume(w, r)
      PROVE  WalksHold'
  BY <1>1, CreateHolds, ResumeHolds
<1>2. ASSUME NEW w \in Runners, SetRunning(w) \/ MarkFailed(w) \/ FetchPage(w)
                                \/ StagePage(w) \/ CompleteRun(w)
      PROVE  WalksHold'
  BY <1>2, StatusHolds, FetchHolds, StageHolds, CompleteHolds
<1>3. ASSUME NEW p \in Posts, Save(p) \/ Unsave(p), run' = run, runner' = runner
      PROVE  WalksHold'
  BY <1>3, ListChanges
<1>4. ASSUME saved' = saved, run' = run, runner' = runner
      PROVE  WalksHold'
  BY <1>4, StandStill
<1>5. ASSUME saved' = saved, run' = run, NEW w \in Runners, runner' = [runner EXCEPT ![w] = Idle]
      PROVE  WalksHold'
  <2>1. \A v \in Runners : runner'[v] = runner[v] \/ runner'[v] = Idle
    BY <1>5 DEF TypeOK
  <2> QED
    BY <1>5, <2>1, StandStill
<1> QED
  BY <1>1, <1>2, <1>3, <1>4, <1>5, OtherSteps, Zenon

(* A run completes in a completion.                                         *)
LEMMA CompletionCompletes ==
  ASSUME TypeOK, [Next]_vars, NEW r \in Runs, Completes(r)
  PROVE  \E w \in Runners : CompleteRun(w) /\ runner[w].run = r
<1>1. CASE run' = run
  BY <1>1 DEF Completes
<1>2. ASSUME NEW w \in Runners, NEW q \in Runs, CreateRun(w, q) \/ Resume(w, q)
      PROVE  FALSE
  <2>1. run' = [run EXCEPT ![q].is = "running"] \/ run' = run
    BY <1>2, Zenon DEF CreateRun, Resume, snapshots
  <2> QED
    BY <2>1 DEF Completes, TypeOK, RunRows
<1>3. ASSUME NEW w \in Runners, SetRunning(w) \/ MarkFailed(w)
      PROVE  FALSE
  <2>1. PICK q \in Runs : q = runner[w].run
    BY <1>3, UnderWay DEF SetRunning, MarkFailed
  <2>2. run' = [run EXCEPT ![q].is = "running"] \/ run' = [run EXCEPT ![q].is = "failed"]
    BY <1>3, <2>1, Zenon DEF SetRunning, MarkFailed
  <2> QED
    BY <2>2 DEF Completes, TypeOK, RunRows
<1>4. ASSUME NEW w \in Runners, FetchPage(w)
      PROVE  FALSE
  BY <1>1, <1>4 DEF Completes, FetchPage, snapshots
<1>5. ASSUME NEW w \in Runners, StagePage(w)
      PROVE  FALSE
  <2>1. PICK q \in Runs : q = runner[w].run
    BY <1>5, UnderWay DEF StagePage
  <2>2. PICK c : run' = [run EXCEPT ![q].items = @ \cup runner[w].page, ![q].checkpoint = c]
    BY <1>5, <2>1 DEF StagePage
  <2> QED
    BY <2>2 DEF Completes, TypeOK, RunRows
<1>6. ASSUME NEW w \in Runners, CompleteRun(w)
      PROVE  runner[w].run = r
  BY <1>6, CompletedRow DEF Completes
<1> QED
  BY <1>1, <1>2, <1>3, <1>4, <1>5, <1>6, OtherSteps, Zenon
(* What an undisturbed run completes with is the list.                      *)
LEMMA CompletesWithList ==
  ASSUME TypeOK, WalksHold, NEW w \in Runners, CompleteRun(w), runner[w].run \notin changed
  PROVE  run[runner[w].run].items = Saved
<1>0. PICK r \in Runs : r = runner[w].run
  BY CompletedRow
<1>1. WalkHolds(w) /\ RunHolds(r)
  BY Zenon DEF WalksHold
<1>2. runner[w] # Idle /\ runner[w].at = "finish" /\ ~run[r].complete
  BY <1>0 DEF CompleteRun, Finalizable, Idle
<1>3. /\ runner[w].page = {} /\ runner[w].token = 0
      /\ Covers(run[r].items \cup runner[w].page, runner[w].token)
      /\ run[r].items \subseteq Saved
  BY <1>0, <1>1, <1>2 DEF WalkHolds, RunHolds, End
<1>4. \A p \in Saved : saved[p] >= 0
  BY DEF Saved, TypeOK
<1>5. Saved \subseteq run[r].items
  BY <1>3, <1>4 DEF Covers
<1> QED
  BY <1>0, <1>3, <1>5

(* So the bookmarks it leaves active are the list ...                       *)
LEMMA TruthfulStep ==
  ASSUME TypeOK, WalksHold, [Next]_vars, NEW r \in Runs, Completes(r), r \notin changed
  PROVE  Active' = Saved
<1>1. PICK w \in Runners : CompleteRun(w) /\ runner[w].run = r
  BY CompletionCompletes
<1>2. run[r].items = Saved /\ ReconcileBookmarks(r)
  BY <1>1, CompletesWithList DEF CompleteRun
<1>3. ASSUME NEW p \in Posts PROVE bookmark'[p].is = "active" <=> p \in run[r].items
  <2>0. bookmark[p] \in Bookmarks
    BY DEF TypeOK
  <2>1. CASE p \in run[r].items
    <3>1. bookmark'[p] =
            [bookmark[p] EXCEPT !.is = "active", !.snapshot = None, !.scanned = FALSE]
      BY <1>2, <2>1, Zenon DEF ReconcileBookmarks
    <3> QED
      BY <2>0, <2>1, <3>1 DEF Bookmarks
  <2>2. CASE p \notin run[r].items /\ p \in Absent(r)
    <3>1. bookmark'[p] = [bookmark[p] EXCEPT !.is = "removed", !.snapshot = r]
      BY <1>2, <2>2, Zenon DEF ReconcileBookmarks
    <3> QED
      BY <2>0, <2>2, <3>1 DEF Bookmarks
  <2>3. CASE p \notin run[r].items /\ p \notin Absent(r)
    <3>1. bookmark'[p] = bookmark[p]
      BY <1>2, <2>3, Zenon DEF ReconcileBookmarks
    <3> QED
      BY <2>3, <3>1 DEF Absent, Active
  <2> QED
    BY <2>1, <2>2, <2>3
<1> QED
  BY <1>2, <1>3 DEF Active, Saved

(* ... and the uncertain writes are resolved by the list.                   *)
LEMMA ResolvedStep ==
  ASSUME TypeOK, WalksHold, [Next]_vars, NEW r \in Runs, NEW o \in Ops,
         Completes(r), r \notin changed, op[o].is = "uncertain"
  PROVE  op'[o].is = IF Wanted(o, TargetOf[o] \in Saved)
                     THEN "reconciled_succeeded" ELSE "reconciled_not_current"
<1>1. PICK w \in Runners : CompleteRun(w) /\ runner[w].run = r
  BY CompletionCompletes
<1>2. run[r].items = Saved /\ ReconcileUncertainWrites(r)
  BY <1>1, CompletesWithList DEF CompleteRun
<1>3. PICK status : status = IF Wanted(o, TargetOf[o] \in Saved)
                             THEN "reconciled_succeeded" ELSE "reconciled_not_current"
  BY Zenon
<1>4. op'[o] = [op[o] EXCEPT !.is = status]
  BY <1>2, <1>3, Zenon DEF ReconcileUncertainWrites
<1>5. op'[o].is = status
  BY <1>4 DEF TypeOK
<1> QED
  BY <1>3, <1>5

-----------------------------------------------------------------------------
(* Scans.                                                                   *)

(* With the page in its hands, an undisturbed scan has every saved post     *)
(* down to its token active; the first post it saw, and the watermark it    *)
(* reached, are not older than that token.                                  *)
ScanHolds(s) ==
  scan[s] # Idle =>
    /\ scan[s].at # "observe" => scan[s].page = {}
    /\ s \notin changed =>
         /\ Covers(Active \cup scan[s].page, scan[s].token)
         /\ \A p \in scan[s].page : saved[p] >= scan[s].token
         /\ scan[s].newest \in Saved => saved[scan[s].newest] >= scan[s].token
         /\ scan[s].at = "finish" /\ ~scan[s].first /\ state.watermark \in Saved =>
              saved[state.watermark] >= scan[s].token

ScansHold == \A s \in Scanners : ScanHolds(s)

(* A scan that does not step keeps what it holds when the list stays and    *)
(* no bookmark is removed, or when it is noted as disturbed.                *)
LEMMA ScanKept ==
  ASSUME TypeOK, NEW s \in Scanners, ScanHolds(s), scan'[s] = scan[s] \/ scan'[s] = Idle,
         \/ /\ saved' = saved /\ Active \subseteq Active' /\ (s \in changed => s \in changed')
            /\ state'.watermark = state.watermark
         \/ scan[s] # Idle => s \in changed'
  PROVE  ScanHolds(s)'
<1>1. CASE scan'[s] = Idle
  BY <1>1, Zenon DEF ScanHolds
<1>2. CASE scan'[s] = scan[s] /\ scan[s] # Idle /\ s \in changed'
  BY <1>2, Zenon DEF ScanHolds
<1>3. CASE /\ scan'[s] = scan[s] /\ scan[s] # Idle /\ s \notin changed'
           /\ saved' = saved /\ Active \subseteq Active' /\ s \notin changed
           /\ state'.watermark = state.watermark
  <2>1. Saved' = Saved
    BY <1>3, Zenon DEF Saved
  <2>2. Covers(Active \cup scan[s].page, scan[s].token)
    BY <1>3, Zenon DEF ScanHolds
  <2>3. Covers(Active \cup scan[s].page, scan[s].token)'
    BY <1>3, <2>1, <2>2 DEF Covers
  <2> QED
    BY <1>3, <2>1, <2>3, Zenon DEF ScanHolds
<1> QED
  BY <1>1, <1>2, <1>3
(* A scan that starts holds nothing yet.                                    *)
LEMMA ScanStarts ==
  ASSUME TypeOK, TypeOK', ScansHold, NEW s \in Scanners, StartScan(s)
  PROVE  ScansHold'
<1>1. /\ saved' = saved /\ bookmark' = bookmark /\ state' = state /\ changed' = changed \ {s}
  BY Zenon DEF StartScan, archive
<1>2. PICK f : scan' = [scan EXCEPT ![s] =
                 [at |-> "fetch", first |-> f, token |-> Start,
                  page |-> {}, newest |-> None, pages |-> 0]]
  BY Zenon DEF StartScan
<1>3. /\ scan'[s].at = "fetch" /\ scan'[s].token = Start /\ scan'[s].page = {}
      /\ scan'[s].newest = None
      /\ \A q \in Scanners \ {s} : scan'[q] = scan[q]
  BY <1>2 DEF TypeOK
<1>4. ScanHolds(s)'
  <2>1. None \notin Saved'
    BY SyncAssumption DEF Saved
  <2>2. Covers(Active \cup scan[s].page, scan[s].token)'
    BY <1>1, <1>3, NothingBeforeStart DEF Covers, Saved, Start
  <2> QED
    BY <1>3, <2>1, <2>2 DEF ScanHolds
<1>5. ASSUME NEW q \in Scanners \ {s} PROVE ScanHolds(q)'
  <2>1. ScanHolds(q) /\ scan'[q] = scan[q]
    BY <1>3, Zenon DEF ScansHold
  <2>2. Active \subseteq Active' /\ (q \in changed => q \in changed')
    BY <1>1, <1>5 DEF Active
  <2> QED
    BY <1>1, <2>1, <2>2, ScanKept
<1> QED
  BY <1>4, <1>5, Zenon DEF ScansHold

(* A fetched page brings a scan down to the page's continuation.            *)
LEMMA ScanFetches ==
  ASSUME TypeOK, TypeOK', ScansHold, NEW s \in Scanners, ScanFetch(s)
  PROVE  ScansHold'
<1>0. PICK token \in Tokens : token = scan[s].token
  BY ScanUnderWay DEF ScanFetch
<1>1. scan[s] \in Scans /\ scan[s] # Idle /\ scan[s].at = "fetch"
  BY ScanUnderWay DEF ScanFetch, Idle
<1>2. saved' = saved /\ bookmark' = bookmark /\ state' = state /\ changed' = changed
  BY Zenon DEF ScanFetch, provider, archive
<1>3. scan' = [scan EXCEPT ![s].at = "observe", ![s].page = Page(token),
                           ![s].token = NextToken(token), ![s].pages = @ + 1]
  BY <1>0, Zenon DEF ScanFetch
<1>4. /\ scan'[s].at = "observe" /\ scan'[s].page = Page(token)
      /\ scan'[s].token = NextToken(token) /\ scan'[s].newest = scan[s].newest
      /\ \A q \in Scanners \ {s} : scan'[q] = scan[q]
  BY <1>1, <1>3 DEF TypeOK, Scans
<1>5. Saved' = Saved /\ Active' = Active
  BY <1>2, Zenon DEF Saved, Active
<1>6. ScanHolds(s)'
  <2>1. ScanHolds(s)
    BY Zenon DEF ScansHold
  <2>2. scan[s].page = {}
    BY <1>1, <2>1 DEF ScanHolds
  <2>3. SUFFICES ASSUME s \notin changed
                 PROVE  /\ Covers(Active \cup scan[s].page, scan[s].token)'
                        /\ \A p \in scan'[s].page : saved'[p] >= scan'[s].token
                        /\ scan'[s].newest \in Saved' => saved'[scan'[s].newest] >= scan'[s].token
    BY <1>2, <1>4 DEF ScanHolds
  <2>4. Active \cup scan[s].page = Active
    BY <2>2
  <2>5. Covers(Active, token) /\ (scan[s].newest \in Saved => saved[scan[s].newest] >= token)
    BY <1>0, <1>1, <2>1, <2>3, <2>4, Zenon DEF ScanHolds
  <2>6. Covers(Active \cup Page(token), NextToken(token))
    BY <2>5, PageExtends
  <2>7. Covers(Active \cup scan[s].page, scan[s].token)'
    BY <1>2, <1>4, <1>5, <2>6, Zenon DEF Covers
  <2>8. \A p \in scan'[s].page : saved'[p] >= scan'[s].token
    BY <1>2, <1>4, PageShows
  <2>9. ASSUME scan[s].newest \in Saved PROVE saved[scan[s].newest] >= NextToken(token)
    <3>1. saved[scan[s].newest] \in Nat /\ token \in Nat /\ NextToken(token) \in Nat
      <4>1. NextToken(token) \in Tokens /\ Tokens \subseteq Nat
        BY PageShows, Bounds DEF Tokens
      <4>2. scan[s].newest \in Posts /\ saved \in [Posts -> 0..MaxSaves]
        BY <2>9, Zenon DEF Saved, TypeOK
      <4> QED
        BY <4>1, <4>2, Bounds
    <3>2. NextToken(token) <= token
      BY PageShows
    <3> QED
      BY <2>5, <2>9, <3>1, <3>2
  <2> QED
    BY <1>2, <1>4, <1>5, <2>7, <2>8, <2>9
<1>7. ASSUME NEW q \in Scanners \ {s} PROVE ScanHolds(q)'
  <2>1. ScanHolds(q) /\ scan'[q] = scan[q]
    BY <1>4, Zenon DEF ScansHold
  <2> QED
    BY <1>2, <1>5, <2>1, ScanKept
<1> QED
  BY <1>6, <1>7, Zenon DEF ScansHold

(* A page that is observed is active, and no post is the less so.           *)
LEMMA ObservedActive ==
  ASSUME TypeOK, NEW s \in Scanners, ScanObserve(s)
  PROVE  Active \cup scan[s].page \subseteq Active'
<1>1. scan[s].page \in SUBSET Posts /\ bookmark' = UpsertObserved(s)
  BY ScanUnderWay DEF ScanObserve
<1>2. ASSUME NEW p \in Posts, bookmark[p].is = "active" \/ p \in scan[s].page
      PROVE  bookmark'[p].is = "active"
  <2>1. bookmark[p] \in Bookmarks
    BY DEF TypeOK
  <2>2. CASE p \in scan[s].page
    <3>1. bookmark'[p] =
            [bookmark[p] EXCEPT !.is = "active", !.snapshot = None, !.scanned = TRUE]
      BY <1>1, <2>2, Zenon DEF UpsertObserved
    <3> QED
      BY <2>1, <3>1 DEF Bookmarks
  <2>3. CASE p \notin scan[s].page
    BY <1>1, <1>2, <2>3 DEF UpsertObserved
  <2> QED
    BY <2>2, <2>3
<1> QED
  BY <1>1, <1>2 DEF Active
(* An observed page leaves the scan with all down to its token active.      *)
LEMMA ScanObserves ==
  ASSUME TypeOK, TypeOK', ScansHold, NEW s \in Scanners, ScanObserve(s)
  PROVE  ScansHold'
<1>1. /\ scan[s] \in Scans /\ scan[s] # Idle /\ scan[s].page \in SUBSET Posts
      /\ scan[s].newest \in Posts \cup {None} /\ scan[s].token \in Tokens
  BY ScanUnderWay DEF ScanObserve, Idle
<1>2. saved' = saved /\ state' = state /\ changed' = changed
  BY Zenon DEF ScanObserve, provider
<1>3. PICK n, at :
        /\ n = IF scan[s].newest = None THEN FirstOf(scan[s].page) ELSE scan[s].newest
        /\ at = IF Reached(s) THEN "finish" ELSE IF scan[s].token = End THEN "lost" ELSE "fetch"
  BY Zenon
<1>4. scan' = [scan EXCEPT ![s].newest = n, ![s].page = {}, ![s].at = at]
  BY <1>3 DEF ScanObserve
<1>5. /\ scan'[s].newest = n /\ scan'[s].page = {} /\ scan'[s].at = at
      /\ scan'[s].token = scan[s].token /\ scan'[s].first = scan[s].first
      /\ \A q \in Scanners \ {s} : scan'[q] = scan[q]
  BY <1>1, <1>4 DEF TypeOK, Scans
<1>6. Saved' = Saved /\ Active \cup scan[s].page \subseteq Active'
  BY <1>2, ObservedActive DEF Saved
<1>7. ScanHolds(s)'
  <2>1. ScanHolds(s)
    BY Zenon DEF ScansHold
  <2>2. SUFFICES ASSUME s \notin changed
                 PROVE  /\ Covers(Active \cup scan[s].page, scan[s].token)'
                        /\ n \in Saved => saved[n] >= scan[s].token
                        /\ at = "finish" /\ ~scan[s].first /\ state.watermark \in Saved =>
                             saved[state.watermark] >= scan[s].token
    BY <1>2, <1>5, <1>6 DEF ScanHolds
  <2>3. /\ Covers(Active \cup scan[s].page, scan[s].token)
        /\ \A p \in scan[s].page : saved[p] >= scan[s].token
        /\ scan[s].newest \in Saved => saved[scan[s].newest] >= scan[s].token
    BY <1>1, <2>1, <2>2, Zenon DEF ScanHolds
  <2>4. Covers(Active \cup scan[s].page, scan[s].token)'
    BY <1>2, <1>5, <1>6, <2>3 DEF Covers
  <2>5. n \in Saved => n \in scan[s].page \/ n = scan[s].newest
    <3>1. None \notin Saved
      BY SyncAssumption DEF Saved
    <3> QED
      BY <1>1, <1>3, <3>1, FirstOfPage
  <2>6. at = "finish" /\ ~scan[s].first => state.watermark \in scan[s].page
    BY <1>3 DEF Reached
  <2> QED
    BY <2>3, <2>4, <2>5, <2>6, Zenon
<1>8. ASSUME NEW q \in Scanners \ {s} PROVE ScanHolds(q)'
  <2>1. ScanHolds(q) /\ scan'[q] = scan[q]
    BY <1>5, Zenon DEF ScansHold
  <2>2. Active \subseteq Active'
    BY <1>6
  <2> QED
    BY <1>2, <2>1, <2>2, ScanKept
<1> QED
  BY <1>7, <1>8, Zenon DEF ScansHold

(* A scan that ends holds nothing more, and its watermark disturbs the      *)
(* other open scans.                                                        *)
LEMMA ScanEnds ==
  ASSUME TypeOK, TypeOK', ScansHold, NEW s \in Scanners,
         ScanComplete(s) \/ MarkGap(s) \/ StopScan(s) \/ ScanLost(s)
  PROVE  ScansHold'
<1>1. /\ scan' = [scan EXCEPT ![s] = Idle] /\ saved' = saved /\ bookmark' = bookmark
      /\ changed \subseteq changed'
  BY DEF ScanComplete, MarkGap, StopScan, ScanLost, provider, archive
<1>2. ASSUME NEW q \in Scanners PROVE ScanHolds(q)'
  <2>1. ScanHolds(q) /\ (scan'[q] = scan[q] \/ scan'[q] = Idle)
    BY <1>1 DEF ScansHold, TypeOK
  <2>2. Active \subseteq Active' /\ (q \in changed => q \in changed')
    BY <1>1 DEF Active
  <2>3. CASE q = s
    BY <1>1, <2>3 DEF ScanHolds, TypeOK
  <2>4. CASE q # s /\ ScanComplete(s)
    <3>1. scan[q] # Idle => q \in changed'
      BY <2>4 DEF ScanComplete, OpenScans
    <3> QED
      BY <2>1, <3>1, ScanKept
  <2>5. CASE MarkGap(s) \/ StopScan(s) \/ ScanLost(s)
    <3>1. state'.watermark = state.watermark
      BY <2>5 DEF MarkGap, StopScan, ScanLost, TypeOK
    <3> QED
      BY <1>1, <2>1, <2>2, <3>1, ScanKept
  <2> QED
    BY <2>3, <2>4, <2>5
<1> QED
  BY <1>2 DEF ScansHold

(* A step that leaves the scans to themselves, or notes the open ones as    *)
(* disturbed, keeps what they hold.                                         *)
LEMMA ScansKept ==
  ASSUME TypeOK, ScansHold, \A s \in Scanners : scan'[s] = scan[s] \/ scan'[s] = Idle,
         \/ /\ saved' = saved /\ Active \subseteq Active' /\ changed \subseteq changed'
            /\ state'.watermark = state.watermark
         \/ OpenScans \subseteq changed'
  PROVE  ScansHold'
<1>1. ASSUME NEW s \in Scanners PROVE ScanHolds(s)'
  <2>1. ScanHolds(s) /\ (scan'[s] = scan[s] \/ scan'[s] = Idle)
    BY Zenon DEF ScansHold
  <2>2. \/ /\ saved' = saved /\ Active \subseteq Active' /\ (s \in changed => s \in changed')
           /\ state'.watermark = state.watermark
        \/ scan[s] # Idle => s \in changed'
    BY DEF OpenScans
  <2> QED
    BY <2>1, <2>2, ScanKept, Zenon
<1> QED
  BY <1>1 DEF ScansHold

(* A confirmed write either only adds to the active bookmarks or disturbs   *)
(* the open scans.                                                          *)
LEMMA ConfirmedKeeps ==
  ASSUME TypeOK, NEW o \in Ops, CompleteConfirmed(o)
  PROVE  Active \subseteq Active' \/ OpenScans \subseteq changed'
<1>1. CASE ActionOf[o] = "remove"
  BY <1>1 DEF CompleteConfirmed
<1>2. CASE ActionOf[o] = "add"
  <2>1. ASSUME NEW p \in Posts, bookmark[p].is = "active" PROVE bookmark'[p].is = "active"
    <3>1. bookmark[p] \in Bookmarks
      BY DEF TypeOK
    <3>2. \/ bookmark'[p] = bookmark[p]
          \/ bookmark'[p] = [bookmark[p] EXCEPT !.is = "active", !.snapshot = None, !.write = None]
      BY <1>2 DEF CompleteConfirmed, ProjectConfirmed, TypeOK
    <3> QED
      BY <2>1, <3>1, <3>2 DEF Bookmarks
  <2> QED
    BY <2>1 DEF Active
<1> QED
  BY <1>1, <1>2, SyncAssumption
(* What the steps of the other tasks leave to a scan.                       *)
LEMMA ElsewhereKeeps ==
  ASSUME TypeOK, [Next]_vars
  PROVE  \/ \E s \in Scanners : \/ StartScan(s) \/ ScanFetch(s) \/ ScanObserve(s)
                                \/ ScanComplete(s) \/ MarkGap(s) \/ StopScan(s) \/ ScanLost(s)
         \/ /\ \A s \in Scanners : scan'[s] = scan[s] \/ scan'[s] = Idle
            /\ \/ /\ saved' = saved /\ Active \subseteq Active' /\ changed \subseteq changed'
                  /\ state'.watermark = state.watermark
               \/ OpenScans \subseteq changed'
<1> DEFINE Apart == /\ scan' = scan /\ saved' = saved /\ bookmark' = bookmark
                    /\ changed' = changed /\ state' = state
           Kept == /\ saved' = saved /\ Active \subseteq Active' /\ changed \subseteq changed'
                   /\ state'.watermark = state.watermark
           Ending == \A s \in Scanners : scan'[s] = scan[s] \/ scan'[s] = Idle
<1>1. Apart => Ending /\ Kept
  BY DEF Active
<1>2. CASE UNCHANGED vars
  BY <1>1, <1>2, Zenon DEF vars, provider, archive
<1>3. CASE Crash
  <2>1. saved' = saved /\ bookmark' = bookmark /\ changed' = changed /\ state' = state
    BY <1>3, Zenon DEF Crash, provider, archive
  <2>2. Kept
    BY <2>1 DEF Active
  <2>3. Ending
    BY <1>3 DEF Crash, TypeOK
  <2> QED
    BY <2>2, <2>3
<1>4. ASSUME NEW p \in Posts, Save(p) \/ Unsave(p), scan' = scan
      PROVE  Ending /\ OpenScans \subseteq changed'
  BY <1>4 DEF Save, Unsave, Open
<1>5. ASSUME NEW p \in Posts, UserChanges(p)
      PROVE  Ending /\ OpenScans \subseteq changed'
  BY <1>4, <1>5, Zenon DEF UserChanges
<1>6. ASSUME NEW w \in Runners, NEW r \in Runs, CreateRun(w, r) \/ Resume(w, r)
      PROVE  Apart
  BY <1>6, Zenon DEF CreateRun, Resume, provider, archive
<1>7. ASSUME NEW w \in Runners,
             \/ SetRunning(w) \/ MarkFailed(w) \/ FetchPage(w) \/ StagePage(w)
             \/ CompleteRefused(w)
      PROVE  Apart
  BY <1>7, Zenon DEF SetRunning, MarkFailed, FetchPage, StagePage, CompleteRefused,
                     provider, archive
<1>8. ASSUME NEW w \in Runners, CompleteRun(w)
      PROVE  Ending /\ OpenScans \subseteq changed'
  BY <1>8 DEF CompleteRun
<1>9. ASSUME NEW o \in Ops, Attempt(o) \/ ProviderRefuses(o) \/ CompleteUnconfirmed(o)
      PROVE  Apart
  BY <1>9, Zenon DEF Attempt, ProviderRefuses, CompleteUnconfirmed, provider, archive
<1>10. ASSUME NEW o \in Ops, ProviderApplies(o)
       PROVE  Apart \/ (Ending /\ OpenScans \subseteq changed')
  <2>1. TargetOf[o] \in Posts
    BY SyncAssumption
  <2>2. scan' = scan /\ bookmark' = bookmark /\ state' = state
    BY <1>10, Zenon DEF ProviderApplies, archive
  <2>3. UNCHANGED provider \/ Save(TargetOf[o]) \/ Unsave(TargetOf[o])
    BY <1>10, Zenon DEF ProviderApplies
  <2>4. UNCHANGED provider => Apart
    BY <2>2, Zenon DEF provider
  <2> QED
    BY <1>4, <2>1, <2>2, <2>3, <2>4, Zenon
<1>11. ASSUME NEW o \in Ops, CompleteConfirmed(o)
       PROVE  Ending /\ (Kept \/ OpenScans \subseteq changed')
  <2>1. /\ saved' = saved /\ scan' = scan /\ state' = state /\ changed \subseteq changed'
    BY <1>11 DEF CompleteConfirmed
  <2> QED
    BY <1>11, <2>1, ConfirmedKeeps
<1> HIDE DEF Apart, Kept, Ending
<1>12. CASE \E s \in Scanners : \/ StartScan(s) \/ ScanFetch(s) \/ ScanObserve(s)
                                \/ ScanComplete(s) \/ MarkGap(s) \/ StopScan(s) \/ ScanLost(s)
  BY <1>12
<1>13. CASE Ending /\ (Kept \/ OpenScans \subseteq changed')
  BY <1>13, Zenon DEF Ending, Kept
<1> QED
  BY <1>1, <1>2, <1>3, <1>5, <1>6, <1>7, <1>8, <1>9, <1>10, <1>11, <1>12, <1>13, Zenon DEF Next

(* Every step keeps what the scans hold.                                    *)
LEMMA NextScans ==
  ASSUME TypeOK, TypeOK', ScansHold, [Next]_vars
  PROVE  ScansHold'
<1>1. ASSUME NEW s \in Scanners,
             \/ StartScan(s) \/ ScanFetch(s) \/ ScanObserve(s)
             \/ ScanComplete(s) \/ MarkGap(s) \/ StopScan(s) \/ ScanLost(s)
      PROVE  ScansHold'
  BY <1>1, ScanStarts, ScanFetches, ScanObserves, ScanEnds
<1>2. CASE /\ \A s \in Scanners : scan'[s] = scan[s] \/ scan'[s] = Idle
           /\ \/ /\ saved' = saved /\ Active \subseteq Active' /\ changed \subseteq changed'
                 /\ state'.watermark = state.watermark
              \/ OpenScans \subseteq changed'
  BY <1>2, ScansKept
<1> QED
  BY <1>1, <1>2, ElsewhereKeeps, Zenon

(* A scan that commits its watermark leaves the bookmarks.                  *)
LEMMA CommitLeavesBookmarks ==
  ASSUME TypeOK, [Next]_vars, NEW s \in Scanners, ScanCompletes(s)
  PROVE  bookmark' = bookmark
<1>1. CASE bookmark' = bookmark
  BY <1>1
<1>2. ASSUME NEW w \in Runners, CompleteRun(w) PROVE FALSE
  BY <1>2 DEF CompleteRun, ScanCompletes, Idle
<1>3. ASSUME NEW q \in Scanners, ScanObserve(q) PROVE FALSE
  <2>1. q # s /\ scan'[s] = scan[s]
    BY <1>3 DEF ScanObserve, ScanCompletes, TypeOK
  <2> QED
    BY <2>1 DEF ScanCompletes, Idle
<1>4. ASSUME NEW o \in Ops, CompleteConfirmed(o) PROVE FALSE
  BY <1>4 DEF CompleteConfirmed, ScanCompletes, Idle
<1> QED
  BY <1>1, <1>2, <1>3, <1>4, BookmarkSteps, Zenon

(* An undisturbed scan that commits covers its window.                      *)
LEMMA WindowStep ==
  ASSUME TypeOK, ScansHold, [Next]_vars, NEW s \in Scanners, ScanCompletes(s),
         s \notin changed, NEW m \in Saved,
         m = scan[s].newest \/ (m = state.watermark /\ ~scan[s].first)
  PROVE  Above(m) \subseteq Active'
<1>1. scan[s] # Idle /\ scan[s].at = "finish" /\ ScanHolds(s)
  BY DEF ScanCompletes, ScansHold, Idle
<1>2. scan[s].token \in Nat
  BY <1>1, ScanUnderWay, Bounds DEF Tokens
<1>3. /\ scan[s].page = {} /\ Covers(Active \cup scan[s].page, scan[s].token)
      /\ saved[m] >= scan[s].token
  BY <1>1 DEF ScanHolds
<1>4. \A q \in Saved : saved[q] \in Nat
  BY DEF Saved, TypeOK
<1>5. ASSUME NEW q \in Above(m) PROVE q \in Active
  <2>1. q \in Saved /\ saved[q] >= saved[m]
    BY DEF Above
  <2>2. saved[q] >= scan[s].token
    BY <1>2, <1>3, <1>4, <2>1
  <2> QED
    BY <1>3, <2>1, <2>2 DEF Covers
<1>6. Active' = Active
  BY CommitLeavesBookmarks DEF Active
<1> QED
  BY <1>5, <1>6

-----------------------------------------------------------------------------
(* The tables of the bookmark state keep their types, however runs, scans   *)
(* and writes interleave and whichever tasks die.                           *)
THEOREM TypesAreKept == Spec => []TypeOK
<1>1. Init => TypeOK
  <2>1. /\ 0 \in 0..MaxSaves /\ 0 \in 0..MaxCrashes
    BY Bounds
  <2>2. Unused \in RunRows /\ NoBookmark \in Bookmarks
    BY Bounds DEF Unused, RunRows, NoBookmark, Bookmarks
  <2>3. [is |-> "admitted", answer |-> "none", stamp |-> 0] \in OpRows
    BY <2>1 DEF OpRows, Statuses
  <2>4. [watermark |-> None, full |-> FALSE] \in [watermark : Posts \cup {None}, full : BOOLEAN]
    OBVIOUS
  <2> QED
    BY <2>1, <2>2, <2>3, <2>4 DEF Init, TypeOK, OpRows
<1>2. TypeOK /\ [Next]_vars => TypeOK'
  BY NextTyped
<1> QED
  BY <1>1, <1>2, PTL DEF Spec

(* For any posts, runs, tasks and writes, no bookmark is removed without a  *)
(* complete snapshot that lacks it or a removal the provider confirmed      *)
(* (record_absent_bookmarks, project_confirmed_bookmark).                   *)
THEOREM RemovalsHaveEvidence == Spec => RemovalHasEvidence
<1>1. TypeOK /\ [Next]_vars => [\A p \in Posts : HasEvidence(p)]_vars
  BY RemovalStep
<1> QED
  BY <1>1, TypesAreKept, PTL DEF Spec, RemovalHasEvidence, HasEvidence

(* What the runs and the tasks on them hold is inductive: the snapshot of   *)
(* an undisturbed run holds the list down to its checkpoint, and down to    *)
(* the token of every task on it.                                           *)
THEOREM WalksAlwaysHold == Spec => []WalksHold
<1>1. Init => WalksHold
  <2>1. SUFFICES ASSUME Init PROVE WalksHold
    OBVIOUS
  <2>2. \A r \in Runs : run[r] = Unused
    BY <2>1 DEF Init
  <2>3. Saved = {}
    BY <2>1 DEF Init, Saved
  <2>4. \A r \in Runs : RunHolds(r)
    BY <2>2, <2>3 DEF RunHolds, Unused, Covers
  <2>5. \A w \in Runners : WalkHolds(w)
    BY <2>1 DEF Init, WalkHolds
  <2> QED
    BY <2>4, <2>5 DEF WalksHold
<1>2. TypeOK /\ TypeOK' /\ WalksHold /\ [Next]_vars => WalksHold'
  BY NextWalks
<1> QED
  BY <1>1, <1>2, TypesAreKept, PTL DEF Spec

(* For any posts, runs, tasks, page size and number of crashes, a run that  *)
(* completes over a list that stayed leaves exactly the list active         *)
(* (resume_run, stage_page, complete_run).                                  *)
THEOREM SnapshotsAreTruthful == Spec => SnapshotIsTruthful
<1>1. TypeOK /\ WalksHold /\ [Next]_vars =>
        [\A r \in Runs : Completes(r) /\ r \notin changed => Active' = Saved]_vars
  BY TruthfulStep
<1> QED
  BY <1>1, TypesAreKept, WalksAlwaysHold, PTL DEF Spec, SnapshotIsTruthful

(* Such a run resolves every uncertain write by the list                    *)
(* (reconcile_uncertain_bookmark_writes).                                   *)
THEOREM QuietRunsResolveWrites == Spec => QuietRunResolvesWrites
<1>1. TypeOK /\ WalksHold /\ [Next]_vars =>
        [\A r \in Runs, o \in Ops :
           Completes(r) /\ r \notin changed /\ op[o].is = "uncertain" =>
             op'[o].is = IF Wanted(o, TargetOf[o] \in Saved)
                         THEN "reconciled_succeeded" ELSE "reconciled_not_current"]_vars
  BY ResolvedStep
<1> QED
  BY <1>1, TypesAreKept, WalksAlwaysHold, PTL DEF Spec, QuietRunResolvesWrites

(* For any posts, scans, page size and caps, a scan that commits its        *)
(* watermark undisturbed has recorded every saved post down to the old and  *)
(* the new watermark as active (run and observe_page of the scan).          *)
THEOREM ScansCoverTheirWindow == Spec => ScanCoversItsWindow
<1>1. Init => ScansHold
  BY DEF Init, ScansHold, ScanHolds
<1>2. TypeOK /\ TypeOK' /\ ScansHold /\ [Next]_vars => ScansHold'
  BY NextScans
<1>3. TypeOK /\ ScansHold /\ [Next]_vars =>
        [\A s \in Scanners : ScanCompletes(s) /\ s \notin changed =>
           \A m \in Saved :
             \/ m = scan[s].newest
             \/ m = state.watermark /\ ~scan[s].first
             => Above(m) \subseteq Active']_vars
  BY WindowStep
<1> QED
  BY <1>1, <1>2, <1>3, TypesAreKept, PTL DEF Spec, ScanCoversItsWindow
=============================================================================
