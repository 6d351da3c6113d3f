---------------------------- MODULE BookmarkSync ----------------------------
(***************************************************************************)
(* The bookmark state of one account: the full snapshot                     *)
(* (crates/x-sync/src/lib.rs), the incremental scan                         *)
(* (crates/x-sync/src/incremental.rs) and what a live bookmark write leaves *)
(* in the projection (crates/x-sync/src/writeback).  They share the         *)
(* bookmark rows and the provider's list, which the user changes meanwhile. *)
(*                                                                          *)
(* The provider lists saved posts newest first; a continuation token stands *)
(* for everything saved before the last post of its page.                   *)
(***************************************************************************)
EXTENDS Integers, FiniteSets

CONSTANTS
  Posts,      \* posts, by provider id: naturals, in the order of their ids
  Runs,       \* ids of full runs, each with its snapshot
  Runners,    \* tasks that execute BookmarkSnapshotService::run
  Scanners,   \* tasks that execute IncrementalScanService::run
  Ops,        \* live bookmark writes that passed admission
  ActionOf,   \* "add" or "remove"
  TargetOf,   \* the post of a write
  None,       \* null
  PageSize,   \* posts of one provider page
  PageCap,    \* page_cap of a scan
  RequestCap, \* request_cap of a scan
  MaxSaves,   \* bound: how often posts are saved at the provider
  MaxCrashes  \* bound: how often a task dies or fails on the database

ASSUME SyncAssumption ==
  /\ Posts \subseteq Nat /\ IsFiniteSet(Posts)
  /\ None \notin Posts \cup Runs \cup Ops /\ Runs \cap Scanners = {}
  /\ ActionOf \in [Ops -> {"add", "remove"}] /\ TargetOf \in [Ops -> Posts]
  /\ {PageSize, PageCap, RequestCap} \subseteq Nat \ {0}
  /\ {MaxSaves, MaxCrashes} \subseteq Nat

VARIABLES
  saved,     \* the provider's list: when each post was saved, 0 if it is not
  saves,     \* saves so far
  known,     \* x_archive.posts
  bookmark,  \* x_archive.bookmarks
  repairs,   \* x_archive.bookmark_reconciliation_repairs
  run,       \* x_archive.sync_runs, snapshots and snapshot_bookmark_items
  authority, \* x_archive.bookmark_snapshot_authority
  runner,    \* the local state of each snapshot task
  state,     \* x_archive.bookmark_incremental_state
  scan,      \* the local state of each scan task
  op,        \* x_archive.bookmark_write_operations, with the provider's answer
  changed,   \* history: runs and scans that another task disturbed
  crashes    \* crashes so far

provider == <<saved, saves, changed>>
archive == <<known, bookmark, repairs>>
snapshots == <<run, authority>>
vars == <<provider, archive, snapshots, runner, state, scan, op, crashes>>

-----------------------------------------------------------------------------
Start == MaxSaves + 1    \* no continuation token: the first page
End == 0                 \* the answer carried no next token
Tokens == 0..MaxSaves + 1

NoBookmark == [is |-> "none", snapshot |-> None, write |-> None, scanned |-> FALSE]
Unused == [is |-> "unused", checkpoint |-> Start, items |-> {}, complete |-> FALSE]
Idle == [at |-> "idle"]

Bookmarks == [is : {"none", "active", "removed"}, snapshot : Runs \cup {None},
              write : Ops \cup {None}, scanned : BOOLEAN]
RunRows == [is : {"unused", "running", "failed", "completed"}, checkpoint : Tokens,
            items : SUBSET Posts, complete : BOOLEAN]
Walks == [at : {"resume", "fetch", "stage", "finish"}, run : Runs, token : Tokens,
          page : SUBSET Posts]
Scans == [at : {"fetch", "observe", "finish", "lost"}, first : BOOLEAN, token : Tokens,
          page : SUBSET Posts, newest : Posts \cup {None}, pages : 0..PageCap]
Reconciled == {"reconciled_succeeded", "reconciled_not_current"}
Statuses == {"admitted", "provider_in_flight", "uncertain", "succeeded",
             "projection_pending", "failed"} \cup Reconciled

TypeOK ==
  /\ saved \in [Posts -> 0..MaxSaves] /\ saves \in 0..MaxSaves
  /\ known \subseteq Posts
  /\ bookmark \in [Posts -> Bookmarks]
  /\ repairs \subseteq Runs \X Posts
  /\ run \in [Runs -> RunRows]
  /\ authority \in Runs \cup {None}
  /\ runner \in [Runners -> {Idle} \cup Walks]
  /\ state \in [watermark : Posts \cup {None}, full : BOOLEAN]
  /\ scan \in [Scanners -> {Idle} \cup Scans]
  /\ op \in [Ops -> [is : Statuses, answer : {"none", "confirmed", "uncertain", "failed"},
                     stamp : 0..MaxSaves]]
  /\ changed \subseteq Runs \cup Scanners
  /\ crashes \in 0..MaxCrashes

Init ==
  /\ saved = [p \in Posts |-> 0] /\ saves = 0 /\ changed = {}
  /\ known = {} /\ repairs = {}
  /\ bookmark = [p \in Posts |-> NoBookmark]
  /\ run = [r \in Runs |-> Unused] /\ authority = None
  /\ runner = [w \in Runners |-> Idle]
  /\ state = [watermark |-> None, full |-> FALSE]
  /\ scan = [s \in Scanners |-> Idle]
  /\ op = [o \in Ops |-> [is |-> "admitted", answer |-> "none", stamp |-> 0]]
  /\ crashes = 0

-----------------------------------------------------------------------------
(* The provider.                                                            *)

Saved == {p \in Posts : saved[p] # 0}

(* Walks over the list that are not over: they may mix two states of it.     *)
OpenScans == {s \in Scanners : scan[s] # Idle}
Open == {r \in Runs : run[r].is # "unused" /\ ~run[r].complete} \cup OpenScans

Save(p) ==
  /\ saves < MaxSaves
  /\ saves' = saves + 1
  /\ saved' = [saved EXCEPT ![p] = saves + 1]
  /\ changed' = changed \cup Open

Unsave(p) ==
  /\ saved' = [saved EXCEPT ![p] = 0]
  /\ changed' = changed \cup Open
  /\ UNCHANGED saves

(* The user saves or unsaves a post in an X client.                         *)
UserChanges(p) ==
  /\ IF p \in Saved THEN Unsave(p) ELSE Save(p)
  /\ UNCHANGED <<archive, snapshots, runner, state, scan, op, crashes>>

Listed(token) == {p \in Saved : saved[p] < token}
Page(token) == {p \in Listed(token) :
                  Cardinality({q \in Listed(token) : saved[q] > saved[p]}) < PageSize}
NextToken(token) ==
  IF Page(token) = Listed(token) THEN End
  ELSE CHOOSE t \in {saved[p] : p \in Page(token)} :
         \A p \in Page(token) : t <= saved[p]

-----------------------------------------------------------------------------
(* BookmarkSnapshotService::run.                                            *)

Walk(at, r, token, page) == [at |-> at, run |-> r, token |-> token, page |-> page]

CreateRun(w, r) ==
  /\ runner[w] = Idle
  /\ run[r].is = "unused"
  /\ run' = [run EXCEPT ![r].is = "running"]
  /\ runner' = [runner EXCEPT ![w] = Walk("fetch", r, Start, {})]
  /\ UNCHANGED <<provider, archive, authority, state, scan, op, crashes>>

(* The run is selected in one statement and set running in the next.        *)
Resume(w, r) ==
  /\ runner[w] = Idle
  /\ run[r].is \in {"running", "failed"}
  /\ runner' = [runner EXCEPT ![w] = Walk("resume", r, run[r].checkpoint, {})]
  /\ UNCHANGED <<provider, archive, snapshots, state, scan, op, crashes>>

SetRunning(w) ==
  /\ runner[w].at = "resume"
  /\ run' = [run EXCEPT ![runner[w].run].is = "running"]
  /\ runner' = [runner EXCEPT ![w].at = "fetch"]
  /\ UNCHANGED <<provider, archive, authority, state, scan, op, crashes>>

(* The budget or the source refuses the page, or the page cannot be staged. *)
MarkFailed(w) ==
  /\ runner[w].at \in {"fetch", "stage"}
  /\ run' = [run EXCEPT ![runner[w].run].is = "failed"]
  /\ runner' = [runner EXCEPT ![w] = Idle]
  /\ UNCHANGED <<provider, archive, authority, state, scan, op, crashes>>

FetchPage(w) ==
  /\ runner[w].at = "fetch"
  /\ LET token == runner[w].token
     IN runner' = [runner EXCEPT ![w].at = "stage", ![w].page = Page(token),
                                 ![w].token = NextToken(token)]
  /\ UNCHANGED <<provider, archive, snapshots, state, scan, op, crashes>>

(* A run whose last page is staged has the checkpoint of a run not begun.   *)
SkippingCheckpoint(token) == IF token = End THEN Start ELSE token - 1
Checkpoint(token) == IF token = End THEN Start ELSE token

(* A page is normalized and persisted in the transaction of its observer;   *)
(* of the users, posts, relations and media only the posts matter here.     *)
PersistPosts(page) == known' = known \cup page

StagePage(w) ==
  LET r == runner[w].run
      token == runner[w].token
  IN /\ runner[w].at = "stage"
     /\ PersistPosts(runner[w].page)
     /\ run' = [run EXCEPT ![r].items = @ \cup runner[w].page,
                           ![r].checkpoint = IF run[r].is = "running"
                                             THEN Checkpoint(token) ELSE @]
     /\ runner' = [runner EXCEPT ![w] =
                     Walk(IF token = End THEN "finish" ELSE "fetch", r, token, {})]
     /\ UNCHANGED <<provider, bookmark, repairs, authority, state, scan, op, crashes>>

-----------------------------------------------------------------------------
(* The completion transaction, serializable under the account's lock.       *)

Active == {p \in Posts : bookmark[p].is = "active"}

Absent(r) == Active \ run[r].items

(* reconcile_bookmarks: staged posts are active, absent ones removed; the   *)
(* link to a removing write is left as it is.                               *)
ReconcileBookmarks(r) ==
  /\ bookmark' = [p \in Posts |->
       IF p \in run[r].items
       THEN [bookmark[p] EXCEPT !.is = "active", !.snapshot = None, !.scanned = FALSE]
       ELSE IF p \in Absent(r)
            THEN [bookmark[p] EXCEPT !.is = "removed", !.snapshot = r]
            ELSE bookmark[p]]
  /\ repairs' = repairs \cup {<<r, p>> : p \in {q \in Absent(r) : bookmark[q].scanned}}

Wanted(o, present) == present = (ActionOf[o] = "add")

ResolvedByProjection(r) ==
  op' = [o \in Ops |->
    IF op[o].is # "uncertain" THEN op[o]
    ELSE [op[o] EXCEPT !.is = IF Wanted(o, TargetOf[o] \in Active)
                              THEN "reconciled_succeeded" ELSE "reconciled_not_current"]]

ReconcileUncertainWrites(r) ==
  op' = [o \in Ops |->
    IF op[o].is # "uncertain" THEN op[o]
    ELSE [op[o] EXCEPT !.is = IF Wanted(o, TargetOf[o] \in run[r].items)
                              THEN "reconciled_succeeded" ELSE "reconciled_not_current"]]

Finalizable(r) == run[r].is = "running" /\ ~run[r].complete

CompleteRun(w) ==
  LET r == runner[w].run
  IN /\ runner[w].at = "finish"
     /\ Finalizable(r)
     /\ ReconcileBookmarks(r)
     /\ ReconcileUncertainWrites(r)
     /\ run' = [run EXCEPT ![r].is = "completed", ![r].complete = TRUE, ![r].checkpoint = Start]
     /\ state' = [state EXCEPT !.full = FALSE]
     /\ authority' = r
     /\ changed' = changed \cup OpenScans
     /\ runner' = [runner EXCEPT ![w] = Idle]
     /\ UNCHANGED <<saved, saves, known, scan, crashes>>

(* Another task has finalized or failed the run: RunUnavailable.            *)
CompleteRefused(w) ==
  /\ runner[w].at = "finish"
  /\ ~Finalizable(runner[w].run)
  /\ runner' = [runner EXCEPT ![w] = Idle]
  /\ UNCHANGED <<provider, archive, snapshots, state, scan, op, crashes>>

-----------------------------------------------------------------------------
(* IncrementalScanService::run.                                             *)

(* An account that requires a full snapshot is refused.                     *)
StartScan(s) ==
  /\ scan[s] = Idle
  /\ ~state.full
  /\ scan' = [scan EXCEPT ![s] =
       [at |-> "fetch", first |-> state.watermark = None, token |-> Start,
        page |-> {}, newest |-> None, pages |-> 0]]
  /\ changed' = changed \ {s}
  /\ UNCHANGED <<saved, saves, archive, snapshots, runner, state, op, crashes>>

ScanFetch(s) ==
  /\ scan[s].at = "fetch"
  /\ scan[s].pages < PageCap /\ scan[s].pages < RequestCap
  /\ LET token == scan[s].token
     IN scan' = [scan EXCEPT ![s].at = "observe", ![s].page = Page(token),
                             ![s].token = NextToken(token), ![s].pages = @ + 1]
  /\ UNCHANGED <<provider, archive, snapshots, runner, state, op, crashes>>

(* normalize sorts a page by provider id, so its first post is the one with *)
(* the least id.                                                            *)
FirstOf(page) ==
  IF page = {} THEN None ELSE CHOOSE p \in page : \A q \in page : p <= q

ObservedOnce(s) ==
  [p \in Posts |->
     IF p \in scan[s].page /\ bookmark[p].is = "none"
     THEN [bookmark[p] EXCEPT !.is = "active", !.scanned = TRUE] ELSE bookmark[p]]
UpsertObserved(s) ==
  [p \in Posts |->
     IF p \in scan[s].page
     THEN [bookmark[p] EXCEPT !.is = "active", !.snapshot = None, !.scanned = TRUE]
     ELSE bookmark[p]]

Reached(s) == scan[s].first \/ state.watermark \in scan[s].page

ScanObserve(s) ==
  /\ scan[s].at = "observe"
  /\ bookmark' = UpsertObserved(s)
  /\ PersistPosts(scan[s].page)
  /\ scan' = [scan EXCEPT ![s].newest = IF @ = None THEN FirstOf(scan[s].page) ELSE @,
                          ![s].page = {},
                          ![s].at = IF Reached(s) THEN "finish"
                                    ELSE IF scan[s].token = End THEN "lost" ELSE "fetch"]
  /\ UNCHANGED <<provider, repairs, snapshots, runner, state, op, crashes>>

ScanComplete(s) ==
  /\ scan[s].at = "finish"
  /\ state' = [state EXCEPT !.watermark = scan[s].newest]
  /\ scan' = [scan EXCEPT ![s] = Idle]
  /\ changed' = changed \cup (OpenScans \ {s})
  /\ UNCHANGED <<saved, saves, archive, snapshots, runner, op, crashes>>

(* The page cap: the watermark was not reached within the bounded window.   *)
MarkGap(s) ==
  /\ scan[s].at = "fetch"
  /\ scan[s].pages >= PageCap
  /\ state' = [state EXCEPT !.full = TRUE]
  /\ scan' = [scan EXCEPT ![s] = Idle]
  /\ UNCHANGED <<provider, archive, snapshots, runner, op, crashes>>

(* The request cap, the budget or the source ends the scan (stop_run and    *)
(* mark_failed write the outcome of the scan only).                         *)
StopScan(s) ==
  /\ scan[s].at = "fetch"
  /\ scan[s].pages < PageCap
  /\ scan' = [scan EXCEPT ![s] = Idle]
  /\ UNCHANGED <<provider, archive, snapshots, runner, state, op, crashes>>

(* The list ended and the watermark was not on it.                          *)
ScanLost(s) ==
  /\ scan[s].at = "lost"
  /\ scan' = [scan EXCEPT ![s] = Idle]
  /\ UNCHANGED <<provider, archive, snapshots, runner, state, op, crashes>>

-----------------------------------------------------------------------------
(* A live write, from its admission to its projection.                      *)

(* evaluate_local: the projection already shows the requested state.        *)
Satisfied(o) ==
  bookmark[TargetOf[o]].is = IF ActionOf[o] = "add" THEN "active" ELSE "removed"

Attempt(o) ==
  /\ op[o].is = "admitted"
  /\ op' = [op EXCEPT ![o].is = IF Satisfied(o) THEN "succeeded" ELSE "provider_in_flight"]
  /\ UNCHANGED <<provider, archive, snapshots, runner, state, scan, crashes>>

(* The provider applies the write, or not; only a definite answer is told.  *)
ProviderApplies(o) ==
  /\ op[o].is = "provider_in_flight" /\ op[o].answer = "none"
  /\ LET p == TargetOf[o]
     IN IF Wanted(o, p \in Saved) THEN UNCHANGED provider
        ELSE IF ActionOf[o] = "add" THEN Save(p) ELSE Unsave(p)
  /\ \E a \in {"confirmed", "uncertain"} :
       op' = [op EXCEPT ![o].answer = a, ![o].stamp = saved'[TargetOf[o]]]
  /\ UNCHANGED <<archive, snapshots, runner, state, scan, crashes>>

ProviderRefuses(o) ==
  /\ op[o].is = "provider_in_flight" /\ op[o].answer = "none"
  /\ \E a \in {"uncertain", "failed"} : op' = [op EXCEPT ![o].answer = a]
  /\ UNCHANGED <<provider, archive, snapshots, runner, state, scan, crashes>>

(* project_confirmed_bookmark: a post that was never normalized has no row  *)
(* to project to, and neither has the removal of a bookmark never observed. *)
Projected(o) ==
  /\ TargetOf[o] \in known
  /\ ActionOf[o] = "remove" => bookmark[TargetOf[o]].is # "none"

ForgottenWrite(o) ==
  [bookmark EXCEPT ![TargetOf[o]] =
     [@ EXCEPT !.is = IF ActionOf[o] = "add" THEN "active" ELSE "removed",
               !.snapshot = None, !.write = None]]

ProjectConfirmed(o) ==
  [bookmark EXCEPT ![TargetOf[o]] =
     IF ActionOf[o] = "add"
     THEN [@ EXCEPT !.is = "active", !.snapshot = None, !.write = None]
     ELSE [@ EXCEPT !.is = "removed", !.snapshot = None, !.write = o]]

CompleteConfirmed(o) ==
  /\ op[o].is = "provider_in_flight" /\ op[o].answer = "confirmed"
  /\ bookmark' = IF Projected(o) THEN ProjectConfirmed(o) ELSE bookmark
  /\ op' = [op EXCEPT ![o].is = IF Projected(o) THEN "succeeded" ELSE "projection_pending"]
  /\ changed' = changed \cup (IF ActionOf[o] = "remove" THEN OpenScans ELSE {})
  /\ UNCHANGED <<saved, saves, known, repairs, snapshots, runner, state, scan, crashes>>

(* complete_uncertain and complete_provider_failure.                        *)
CompleteUnconfirmed(o) ==
  /\ op[o].is = "provider_in_flight" /\ op[o].answer \in {"uncertain", "failed"}
  /\ op' = [op EXCEPT ![o].is = op[o].answer]
  /\ UNCHANGED <<provider, archive, snapshots, runner, state, scan, crashes>>

(* A task dies, or an error of the database ends it between two steps.      *)
Crash ==
  /\ crashes < MaxCrashes
  /\ crashes' = crashes + 1
  /\ \/ \E w \in Runners : runner[w] # Idle /\ runner' = [runner EXCEPT ![w] = Idle]
                           /\ UNCHANGED scan
     \/ \E s \in Scanners : scan[s] # Idle /\ scan' = [scan EXCEPT ![s] = Idle]
                            /\ UNCHANGED runner
  /\ UNCHANGED <<provider, archive, snapshots, state, op>>

Next ==
  \/ \E p \in Posts : UserChanges(p)
  \/ \E w \in Runners, r \in Runs : CreateRun(w, r) \/ Resume(w, r)
  \/ \E w \in Runners : \/ SetRunning(w) \/ MarkFailed(w) \/ FetchPage(w) \/ StagePage(w)
                        \/ CompleteRun(w) \/ CompleteRefused(w)
  \/ \E s \in Scanners : \/ StartScan(s) \/ ScanFetch(s) \/ ScanObserve(s) \/ ScanComplete(s)
                         \/ MarkGap(s) \/ StopScan(s) \/ ScanLost(s)
  \/ \E o \in Ops : \/ Attempt(o) \/ ProviderApplies(o) \/ ProviderRefuses(o)
                    \/ CompleteConfirmed(o) \/ CompleteUnconfirmed(o)
  \/ Crash

Spec == Init /\ [][Next]_vars

-----------------------------------------------------------------------------
(* A bookmark is removed on evidence: by a snapshot that is complete with   *)
(* this step and does not hold the post, or by a removal that the provider  *)
(* confirmed and that the row then names (record_absent_bookmarks and       *)
(* project_confirmed_bookmark).                                             *)
RemovalHasEvidence ==
  [][\A p \in Posts : bookmark'[p] # bookmark[p] /\ bookmark'[p].is = "removed" =>
       LET b == bookmark'[p]
       IN IF b.snapshot # None
          THEN run'[b.snapshot].complete /\ p \notin run'[b.snapshot].items
          ELSE /\ b.write # None /\ ActionOf[b.write] = "remove"
               /\ op[b.write].answer = "confirmed" /\ op'[b.write].is = "succeeded"]_vars

Completes(r) == ~run[r].complete /\ run'[r].complete

(* A run that completes, however often it crashed, failed and was resumed,  *)
(* and whoever else worked on it, leaves exactly the provider's list active *)
(* when that list did not change since the run was created (run,            *)
(* resume_run, stage_page and complete_run).                                *)
SnapshotIsTruthful ==
  [][\A r \in Runs : Completes(r) /\ r \notin changed => Active' = Saved]_vars

(* Over an unchanged list, an uncertain write is resolved as succeeded      *)
(* exactly when the list shows what it asked for, even if the write hit     *)
(* before the run began (reconcile_uncertain_bookmark_writes).              *)
QuietRunResolvesWrites ==
  [][\A r \in Runs, o \in Ops :
       Completes(r) /\ r \notin changed /\ op[o].is = "uncertain" =>
         op'[o].is = IF Wanted(o, TargetOf[o] \in Saved)
                     THEN "reconciled_succeeded" ELSE "reconciled_not_current"]_vars

ScanCompletes(s) == scan[s].at = "finish" /\ scan'[s] = Idle /\ crashes' = crashes
Above(p) == {q \in Saved : saved[q] >= saved[p]}

(* A scan that completes over an unchanged list, and with no snapshot, no   *)
(* other scan and no removal completing meanwhile, has recorded as active   *)
(* every saved post down to the watermark it commits and, unless it began   *)
(* without one, down to the watermark it replaces, so the next scan may     *)
(* stop there (run and observe_page of the incremental scan).               *)
ScanCoversItsWindow ==
  [][\A s \in Scanners : ScanCompletes(s) /\ s \notin changed =>
       \A m \in Saved :
         \/ m = scan[s].newest
         \/ m = state.watermark /\ ~scan[s].first
         => Above(m) \subseteq Active']_vars

-----------------------------------------------------------------------------
(* Statements of the documentation that the code does not keep.             *)

(* "The newest provider post identity observed by the completed scan" is    *)
(* what a scan over an unchanged list commits as its watermark.             *)
WatermarkIsNewest ==
  [][\A s \in Scanners : ScanCompletes(s) /\ s \notin changed /\ scan[s].newest # None =>
       Above(scan[s].newest) = {scan[s].newest}]_vars

(* A completed scan "reached its prior watermark and persisted a newer one": *)
(* while both posts stay saved, a watermark is not replaced by an older one. *)
WatermarkAdvances ==
  [][\A s \in Scanners :
       ScanCompletes(s) /\ {scan[s].newest, state.watermark} \subseteq Saved =>
         saved[state.watermark] <= saved[scan[s].newest]]_vars

(* A scan that cannot prove it reached its prior watermark marks the        *)
(* account as requiring a full snapshot.                                    *)
UnprovenScanRequiresFull ==
  [][\A s \in Scanners : scan[s].at = "lost" /\ scan'[s] = Idle => state'.full]_vars

(* "Only later authoritative state evidence can resolve" an uncertain       *)
(* write: one that the provider applied, and whose save is still on its     *)
(* list, is not resolved as not current.                                    *)
LaterEvidenceResolves ==
  [][\A o \in Ops :
       /\ op[o].is = "uncertain" /\ op'[o].is = "reconciled_not_current"
       /\ ActionOf[o] = "add"
       => op[o].stamp = 0 \/ saved[TargetOf[o]] # op[o].stamp]_vars

(* The rows of the snapshot that is the account's authority are durable     *)
(* before the pointer to it: none is added while it is the authority.       *)
AuthorityIsFrozen ==
  [][authority # None => run'[authority].items = run[authority].items]_vars
=============================================================================
