--------------------------- MODULE FolderSnapshot ---------------------------
(***************************************************************************)
(* Native folder membership: FolderSnapshotService                          *)
(* (crates/x-sync/src/folders.rs).  Tasks create, resume and complete runs  *)
(* over one folder while its owner adds and removes posts.  A run is a row  *)
(* of sync_runs with its snapshot and staged items; nothing but its         *)
(* completion changes the membership.                                       *)
(*                                                                          *)
(* The provider lists the members newest first; a continuation token stands *)
(* for everything added before the last post of its page.  The budget is a  *)
(* gate that may refuse any page (ApiBudget).                               *)
(***************************************************************************)
EXTENDS Integers, Sequences, FiniteSets

CONSTANTS
  Posts,       \* posts
  Runs,        \* ids of sync_runs rows
  Runners,     \* tasks that execute run or record_capability_limit
  None,        \* null
  PageSize,    \* posts of one provider page
  MaxAdds,     \* bound: how often posts are added to the folder
  MaxCrashes   \* bound: how often a task dies or fails on the database

ASSUME FolderAssumption ==
  /\ IsFiniteSet(Posts) /\ None \notin Runs
  /\ PageSize \in Nat \ {0} /\ {MaxAdds, MaxCrashes} \subseteq Nat

VARIABLES
  added,      \* provider: when each post was added to the folder, 0 if it is not in it
  adds,       \* additions so far
  run,        \* sync_runs, snapshots and snapshot_folder_membership_items
  member,     \* bookmark_folder_items: active, removed, or no row
  history,    \* folder_membership_observations of each post, oldest first
  authority,  \* folder_membership_snapshot_authority
  limits,     \* folder_capability_limits: the capabilities found missing
  runner,     \* the local state of each task
  touched,    \* history: posts added or removed since an open run was created
  crashes     \* crashes so far

provider == <<added, adds, touched>>
projection == <<member, history, authority>>
vars == <<provider, run, projection, limits, runner, crashes>>

Capabilities == {"listing", "membership"}

Start == MaxAdds + 1   \* no continuation token: the first page
End == 0               \* the answer carried no next token
Tokens == 0..MaxAdds + 1

Unused == [kind |-> "none", state |-> "running", checkpoint |-> Start, items |-> {},
           complete |-> FALSE]
Idle == [at |-> "idle"]

RunRows == [kind : {"none", "limit", "membership"},
            state : {"running", "failed", "completed"}, checkpoint : Tokens,
            items : SUBSET Posts, complete : BOOLEAN]
Walks == [at : {"resume", "fetch", "stage", "finish"}, run : Runs, token : Tokens,
          page : SUBSET Posts]

TypeOK ==
  /\ added \in [Posts -> 0..MaxAdds] /\ adds \in 0..MaxAdds
  /\ run \in [Runs -> RunRows]
  /\ member \in [Posts -> {"none", "active", "removed"}]
  /\ \A p \in Posts : history[p] \in Seq([kind : {"added", "removed"}, run : Runs])
  /\ authority \in Runs \cup {None}
  /\ limits \subseteq Capabilities
  /\ runner \in [Runners -> {Idle} \cup Walks]
  /\ touched \in [Runs -> SUBSET Posts]
  /\ crashes \in 0..MaxCrashes

Init ==
  /\ added = [p \in Posts |-> 0] /\ adds = 0
  /\ run = [r \in Runs |-> Unused] /\ touched = [r \in Runs |-> {}]
  /\ member = [p \in Posts |-> "none"] /\ history = [p \in Posts |-> <<>>]
  /\ authority = None
  /\ limits = {}
  /\ runner = [w \in Runners |-> Idle]
  /\ crashes = 0

-----------------------------------------------------------------------------
(* The provider's folder.                                                   *)

InFolder == {p \in Posts : added[p] # 0}

Touch(p) ==
  touched' = [r \in Runs |-> IF run[r].kind = "none" \/ run[r].complete THEN touched[r]
                             ELSE touched[r] \cup {p}]

OwnerAdds(p) ==
  /\ p \notin InFolder /\ adds < MaxAdds
  /\ adds' = adds + 1
  /\ added' = [added EXCEPT ![p] = adds + 1]
  /\ Touch(p)
  /\ UNCHANGED <<run, projection, limits, runner, crashes>>

OwnerRemoves(p) ==
  /\ p \in InFolder
  /\ added' = [added EXCEPT ![p] = 0]
  /\ Touch(p)
  /\ UNCHANGED <<adds, run, projection, limits, runner, crashes>>

Listed(token) == {p \in InFolder : added[p] < token}
Page(token) == {p \in Listed(token) :
                  Cardinality({q \in Listed(token) : added[q] > added[p]}) < PageSize}
NextToken(token) ==
  IF Page(token) = Listed(token) THEN End
  ELSE CHOOSE t \in {added[p] : p \in Page(token)} : \A p \in Page(token) : t <= added[p]

-----------------------------------------------------------------------------
(* FolderSnapshotService::run.                                              *)

Walk(at, r, token, page) == [at |-> at, run |-> r, token |-> token, page |-> page]
Become(w, t) == runner' = [runner EXCEPT ![w] = t]

(* The folder is upserted with its run and snapshot.                        *)
CreateRun(w, r) ==
  /\ runner[w] = Idle
  /\ run[r].kind = "none"
  /\ run' = [run EXCEPT ![r].kind = "membership"]
  /\ Become(w, Walk("fetch", r, Start, {}))
  /\ UNCHANGED <<provider, projection, limits, crashes>>

(* resume_run selects the run in one statement ...                          *)
Resume(w, r) ==
  /\ runner[w] = Idle
  /\ run[r].kind = "membership" /\ run[r].state \in {"running", "failed"}
  /\ Become(w, Walk("resume", r, run[r].checkpoint, {}))
  /\ UNCHANGED <<provider, run, projection, limits, crashes>>

(* ... and sets it running in the next, whatever it has become.             *)
SetRunning(w) ==
  /\ runner[w].at = "resume"
  /\ run' = [run EXCEPT ![runner[w].run].state = "running"]
  /\ runner' = [runner EXCEPT ![w].at = "fetch"]
  /\ UNCHANGED <<provider, projection, limits, crashes>>

(* The budget or the source refuses the page, or it cannot be staged;       *)
(* mark_failed does not look at the state either.                           *)
MarkFailed(w) ==
  /\ runner[w].at \in {"fetch", "stage"}
  /\ run' = [run EXCEPT ![runner[w].run].state = "failed"]
  /\ Become(w, Idle)
  /\ UNCHANGED <<provider, projection, limits, crashes>>

FetchPage(w) ==
  /\ runner[w].at = "fetch"
  /\ LET token == runner[w].token
     IN Become(w, Walk("stage", runner[w].run, NextToken(token), Page(token)))
  /\ UNCHANGED <<provider, run, projection, limits, crashes>>

(* The source reports that the account lacks a capability:                  *)
(* mark_capability_limited.                                                 *)
MarkCapabilityLimited(w, c) ==
  /\ runner[w].at = "fetch"
  /\ run' = [run EXCEPT ![runner[w].run].state = "failed"]
  /\ limits' = limits \cup {c}
  /\ Become(w, Idle)
  /\ UNCHANGED <<provider, projection, crashes>>

(* The continuation of the page after the next one.                         *)
AheadCheckpoint(token) == IF token = End THEN Start ELSE token - 1

(* A run whose last page is staged has the checkpoint of a run not begun.   *)
Checkpoint(token) == IF token = End THEN Start ELSE token

(* stage_page adds to the snapshot and moves the checkpoint of the run, in  *)
(* whatever state both are by now.                                          *)
StagePage(w) ==
  LET r == runner[w].run
      token == runner[w].token
  IN /\ runner[w].at = "stage"
     /\ run' = [run EXCEPT ![r].items = @ \cup runner[w].page,
                           ![r].checkpoint = Checkpoint(token)]
     /\ Become(w, Walk(IF token = End THEN "finish" ELSE "fetch", r, token, {}))
     /\ UNCHANGED <<provider, projection, limits, crashes>>

-----------------------------------------------------------------------------
(* complete_run: one serializable transaction under the folder's lock.      *)

Active == {p \in Posts : member[p] = "active"}

(* lock_finalization.                                                       *)
Finalizable(r) == ~run[r].complete /\ run[r].state = "running"

(* Posts that once were members are taken for members.                      *)
NewlyObserved(r) == {p \in run[r].items : member[p] = "none"}

Gained(r) == run[r].items \ Active
Absent(r) == Active \ run[r].items

(* reconcile_memberships: the observations and the memberships.             *)
ReconcileMemberships(r) ==
  /\ history' = [p \in Posts |->
       IF p \in Gained(r) THEN Append(history[p], [kind |-> "added", run |-> r])
       ELSE IF p \in Absent(r) THEN Append(history[p], [kind |-> "removed", run |-> r])
       ELSE history[p]]
  /\ member' = [p \in Posts |->
       IF p \in run[r].items THEN "active"
       ELSE IF p \in Absent(r) THEN "removed" ELSE member[p]]

(* record_completion and replace_authority.                                 *)
CompleteRun(w) ==
  LET r == runner[w].run
  IN /\ runner[w].at = "finish"
     /\ Finalizable(r)
     /\ ReconcileMemberships(r)
     /\ run' = [run EXCEPT ![r].state = "completed", ![r].complete = TRUE,
                           ![r].checkpoint = Start]
     /\ authority' = r
     /\ touched' = [touched EXCEPT ![r] = {}]
     /\ Become(w, Idle)
     /\ UNCHANGED <<added, adds, limits, crashes>>

(* Another task has finalized or failed the run: RunUnavailable.            *)
CompleteRefused(w) ==
  /\ runner[w].at = "finish"
  /\ ~Finalizable(runner[w].run)
  /\ Become(w, Idle)
  /\ UNCHANGED <<provider, run, projection, limits, crashes>>

-----------------------------------------------------------------------------
(* record_capability_limit: a run without snapshot that carries the limit.  *)
ReportLimit(w, r, c) ==
  /\ runner[w] = Idle
  /\ run[r].kind = "none"
  /\ run' = [run EXCEPT ![r].kind = "limit", ![r].state = "failed"]
  /\ limits' = limits \cup {c}
  /\ UNCHANGED <<provider, projection, runner, crashes>>

(* The task dies between the run and its outcome.                           *)
ReportLimitDies(w, r) ==
  /\ runner[w] = Idle
  /\ run[r].kind = "none"
  /\ crashes < MaxCrashes
  /\ crashes' = crashes + 1
  /\ run' = [run EXCEPT ![r].kind = "limit"]
  /\ UNCHANGED <<provider, projection, limits, runner>>

(* A task dies, or the database refuses mark_failed or complete_run.        *)
Crash(w) ==
  /\ runner[w] # Idle
  /\ crashes < MaxCrashes
  /\ crashes' = crashes + 1
  /\ Become(w, Idle)
  /\ UNCHANGED <<provider, run, projection, limits>>

-----------------------------------------------------------------------------
Next ==
  \/ \E p \in Posts : OwnerAdds(p) \/ OwnerRemoves(p)
  \/ \E w \in Runners :
       \/ \E r \in Runs :
            \/ CreateRun(w, r) \/ Resume(w, r)
            \/ ReportLimitDies(w, r)
            \/ \E c \in Capabilities : ReportLimit(w, r, c)
       \/ \E c \in Capabilities : MarkCapabilityLimited(w, c)
       \/ SetRunning(w) \/ MarkFailed(w) \/ FetchPage(w)
       \/ StagePage(w) \/ CompleteRun(w) \/ CompleteRefused(w)
       \/ Crash(w)

Spec == Init /\ [][Next]_vars

-----------------------------------------------------------------------------
Completes(r) == ~run[r].complete /\ run'[r].complete

(* A run that completes tells the truth of every post its owner left alone  *)
(* since it was created, however often it failed, crashed and was resumed   *)
(* and whoever else worked on it: such a post is an active member exactly   *)
(* when it is in the folder (resume_run, stage_page, complete_run).         *)
UntouchedIsTruthful ==
  [][\A r \in Runs : Completes(r) =>
       \A p \in Posts \ touched[r] : member'[p] = "active" <=> p \in InFolder]_vars

(* The observations tell the membership: those of a post alternate, begin   *)
(* with an addition, end with what the post is now, and name different      *)
(* snapshots that completed; no failed, limited or abandoned run leaves one *)
(* (reconcile_memberships).                                                 *)
HistoryTellsMembership ==
  \A p \in Posts :
    LET h == history[p]
        n == Len(h)
    IN /\ \A i \in 1..n : /\ h[i].kind = IF i % 2 = 1 THEN "added" ELSE "removed"
                          /\ run[h[i].run].complete
                          /\ \A j \in 1..(i-1) : h[j].run # h[i].run
       /\ member[p] = IF n = 0 THEN "none" ELSE IF n % 2 = 1 THEN "active" ELSE "removed"

-----------------------------------------------------------------------------
(* Statements of the documentation that the code does not keep.             *)

(* "Exactly one completed membership snapshot is current for each native    *)
(* folder": a task that fails a page after another task completed the run   *)
(* fails the run of the current snapshot.                                   *)
AuthorityIsCompleted == authority # None => run[authority].state = "completed"

(* After completion readers "observe exactly the staged replacement set": a *)
(* task that stages a page late adds to the snapshot that is the authority. *)
AuthorityTellsMembers == authority # None => run[authority].items = Active
=============================================================================
