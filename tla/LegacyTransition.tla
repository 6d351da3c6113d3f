-------------------------- MODULE LegacyTransition --------------------------
(***************************************************************************)
(* The transition from the legacy bookmark archive                          *)
(* (crates/x-sync/src/legacy_transition, services/x/src/transition_main.rs) *)
(* of one account: operators import a source file, compare the import with  *)
(* the authoritative official snapshot, and record the owner's decision on  *)
(* the report.  Meanwhile the file may be replaced, and the bookmark sync   *)
(* rewrites posts and moves the authority.                                  *)
(*                                                                          *)
(* Each transaction is one step.  A transaction that conflicts with another *)
(* waits for its row locks or is aborted, and what it decides on it has     *)
(* locked until it commits: posts and the account in the import, report,    *)
(* authority and approvals in the review.  Digests are the values digested. *)
(***************************************************************************)
EXTENDS Integers, Sequences, FiniteSets

CONSTANTS
  Operators,    \* running transition commands
  Posts,        \* posts, by provider id
  Texts,        \* what a post may say
  Dates,        \* when it may be published, null included
  Says,         \* what the official API may say of a post
  Source,       \* the contents the source file has, one after the other
  Evidence,     \* digests of owner evidence
  None,         \* null
  MaxSnapshots, \* bound: complete official snapshots
  MaxReports,   \* bound: shadow reports
  MaxDecisions  \* bound: recorded decisions

Sayings == [text : Texts, date : Dates]
Legacy == [key : Nat, explicit : Posts \cup {None}, url : Posts \cup {None}, says : Sayings]
Contents == DOMAIN Source

ASSUME TransitionAssumption ==
  /\ Source \in Seq(Seq(Legacy)) /\ Source # << >>
  /\ Says \in [Posts -> SUBSET Sayings]
  /\ None \notin Posts \cup Sayings
  /\ {MaxSnapshots, MaxReports, MaxDecisions} \subseteq Nat

VARIABLES
  file,       \* which content the source file has
  posts,      \* x_archive.posts: normalization_provenance, text and published_at
  delivered,  \* history: what the official API said last of each post
  imports,    \* x_archive.legacy_import_runs and legacy_import_items, by digest
  authority,  \* x_archive.bookmark_snapshot_authority, its run and its items
  reports,    \* x_archive.legacy_shadow_reports
  reviewable, \* the reports whose review_state is 'reviewable'
  approvals,  \* x_archive.legacy_transition_approvals
  operator    \* what each command is doing

surroundings == <<file, delivered, authority>>
review == <<reports, reviewable, approvals>>
vars == <<surroundings, posts, imports, review, operator>>

-----------------------------------------------------------------------------
Idle == [at |-> "idle"]
NoPost == [from |-> "none", says |-> None]
NoSnapshot == [id |-> 0, items |-> {}, sound |-> FALSE]
Decisions == {"approved", "rejected"}

Reading == [at : {"rows", "again", "identity", "persist"}, digest : Contents, rows : Contents]
Deciding == [at : {"approve"}, report : reports, evidence : Evidence, decision : Decisions]
Decided(current) == [report : reports, evidence : Evidence, decision : Decisions,
                     current : current]
Counted == {"inserted", "matched", "updated", "conflicted", "unmapped"}

TypeOK ==
  /\ file \in Contents
  /\ posts \in [Posts -> {NoPost} \cup
                  [from : {"official-api", "legacy-import"}, says : Sayings]]
  /\ delivered \in [Posts -> Sayings \cup {None}]
  /\ imports \in [Contents -> {None} \cup [rows : Contents, counts : [Counted -> Nat]]]
  /\ authority \in [id : 0..MaxSnapshots, items : SUBSET Posts, sound : BOOLEAN]
  /\ \A r \in reports : imports[r.import] # None /\ r.snapshot \in 1..MaxSnapshots
  /\ reviewable \subseteq reports
  /\ approvals \subseteq Decided(BOOLEAN)
  /\ operator \in [Operators -> {Idle} \cup Reading \cup Deciding]

Init ==
  /\ file = 1
  /\ posts = [p \in Posts |-> NoPost] /\ delivered = [p \in Posts |-> None]
  /\ imports = [c \in Contents |-> None]
  /\ authority = NoSnapshot
  /\ reports = {} /\ reviewable = {} /\ approvals = {}
  /\ operator = [o \in Operators |-> Idle]

-----------------------------------------------------------------------------
(* The surroundings.                                                        *)

(* Somebody saves another version of the file; none comes back.             *)
FileChanges ==
  /\ file + 1 \in Contents
  /\ file' = file + 1
  /\ UNCHANGED <<delivered, authority, posts, imports, review, operator>>

(* persist_posts of every sync: the conflict clause sets text and date and  *)
(* leaves normalization_provenance, whose default is 'official-api'.  A     *)
(* page fetched early and persisted late brings an older text back.         *)
PersistPost(p, t) ==
  /\ posts' = [posts EXCEPT ![p] =
       [from |-> IF @ = NoPost THEN "official-api" ELSE @.from, says |-> t]]
  /\ delivered' = [delivered EXCEPT ![p] = t]
  /\ UNCHANGED <<file, authority, imports, review, operator>>

(* A full run completes: replace_authority.  Its items were all persisted.  *)
ReplaceAuthority(items) ==
  /\ authority.id < MaxSnapshots
  /\ \A p \in items : delivered[p] # None
  /\ authority' = [id |-> authority.id + 1, items |-> items, sound |-> TRUE]
  /\ UNCHANGED <<file, delivered, posts, imports, review, operator>>

(* A second runner of the authority's run fails it or sets it running, as   *)
(* BookmarkSync shows: it is completed no more.                             *)
AuthoritySpoiled ==
  /\ authority.sound
  /\ authority' = [authority EXCEPT !.sound = FALSE]
  /\ UNCHANGED <<file, delivered, posts, imports, review, operator>>

-----------------------------------------------------------------------------
(* preflight_source.                                                        *)

(* finish_batch: one record per key, in the order of the keys; records that *)
(* differ under one key refuse the source, and so does any other record     *)
(* that fails validation.                                                   *)
Records(c) == {Source[c][i] : i \in DOMAIN Source[c]}
Wellformed(c) == \A a, b \in Records(c) : a.key = b.key => a = b
Keys(c) == {row.key : row \in Records(c)}
Rank(c, key) == Cardinality({k \in Keys(c) : k <= key})
Batch == [c \in Contents |-> [i \in 1..Cardinality(Keys(c)) |->
            CHOOSE row \in Records(c) : Rank(c, row.key) = i]]

Go(o, at, digest, rows) ==
  operator' = [operator EXCEPT ![o] = [at |-> at, digest |-> digest, rows |-> rows]]

(* A CSV or JSONL source is parsed from the bytes that were digested.       *)
ReadText(o) ==
  /\ operator[o] = Idle
  /\ Wellformed(file)
  /\ Go(o, "identity", file, file)
  /\ UNCHANGED <<surroundings, posts, imports, review>>

(* A SQLite source is digested, queried by its path, and read again.        *)
ReadSqlite(o) ==
  /\ operator[o] = Idle
  /\ Go(o, "rows", file, file)
  /\ UNCHANGED <<surroundings, posts, imports, review>>

QueryRows(o) ==
  /\ operator[o].at = "rows"
  /\ Wellformed(file)
  /\ Go(o, "again", operator[o].digest, file)
  /\ UNCHANGED <<surroundings, posts, imports, review>>

(* The second read left out.                                                *)
Trusted(digest) == TRUE

SourceKept(digest) == file = digest

ReadAgain(o) ==
  /\ operator[o].at = "again"
  /\ SourceKept(operator[o].digest)
  /\ Go(o, "identity", operator[o].digest, operator[o].rows)
  /\ UNCHANGED <<surroundings, posts, imports, review>>

-----------------------------------------------------------------------------
(* import_batch.                                                            *)

(* The approval names the digest, the account is connected, and /2/users/me *)
(* answers with the stored provider id; a mismatch ends the command.        *)
VerifyIdentity(o) ==
  /\ operator[o].at = "identity"
  /\ operator' = [operator EXCEPT ![o].at = "persist"]
  /\ UNCHANGED <<surroundings, posts, imports, review>>

(* resolve_record_identity; ids that are not valid count as missing.        *)
Resolution(row) ==
  IF row.explicit # None /\ row.url \notin {None, row.explicit} THEN "identity_conflict"
  ELSE IF row.explicit # None THEN "provider_post"
  ELSE IF row.url # None THEN "canonical_url" ELSE "unmapped"
Resolved(row) ==
  IF Resolution(row) = "provider_post" THEN row.explicit
  ELSE IF Resolution(row) = "canonical_url" THEN row.url ELSE None

(* Whatever the archive holds gives way to the imported record.             *)
LastTextWins(old, row) == old.says # row.says

(* Only a projection of an earlier import is updated.                       *)
Outdated(old, row) == old.from = "legacy-import" /\ old.says # row.says

(* upsert_imported_post and the counts of persist_import_records.           *)
Upsert(row, old) ==
  IF old = NoPost THEN <<"inserted", [from |-> "legacy-import", says |-> row.says]>>
  ELSE IF Outdated(old, row) THEN <<"updated", [old EXCEPT !.says = row.says]>>
  ELSE <<"matched", old>>

ImportRecord(acc, row) ==
  LET p == Resolved(row)
      up == Upsert(row, acc.posts[p])
  IN IF p = None
     THEN [acc EXCEPT !.counts[IF Resolution(row) = "unmapped"
                               THEN "unmapped" ELSE "conflicted"] = @ + 1]
     ELSE [acc EXCEPT !.counts[up[1]] = @ + 1, !.posts[p] = up[2]]

(* The loop over the records, from what the archive holds.                  *)
Imported(c) ==
  LET upTo[n \in 0..Len(Batch[c])] ==
        IF n = 0 THEN [posts |-> posts, counts |-> [k \in Counted |-> 0]]
        ELSE ImportRecord(upTo[n - 1], Batch[c][n])
  IN upTo[Len(Batch[c])]

(* persist_import, under the lock of the account row, which is checked      *)
(* again; a refusal ends the command.                                       *)
PersistImport(o) ==
  LET d == operator[o]
      done == Imported(d.rows)
  IN /\ operator[o].at = "persist"
     /\ imports[d.digest] = None
     /\ posts' = done.posts
     /\ imports' = [imports EXCEPT ![d.digest] = [rows |-> d.rows, counts |-> done.counts]]
     /\ operator' = [operator EXCEPT ![o] = Idle]
     /\ UNCHANGED <<surroundings, review>>

(* The same source was imported before: its counts are returned.            *)
ReuseImport(o) ==
  /\ operator[o].at = "persist"
  /\ imports[operator[o].digest] # None
  /\ operator' = [operator EXCEPT ![o] = Idle]
  /\ UNCHANGED <<surroundings, posts, imports, review>>

-----------------------------------------------------------------------------
(* shadow_report_for.                                                       *)

(* require_current_authoritative_snapshot.                                  *)
Authoritative(snapshot) == authority.sound /\ authority.id = snapshot

(* classify_shadow_entries, over the official texts by provider id.         *)
ClassOf(row, official) ==
  IF Resolution(row) \in {"identity_conflict", "unmapped"} THEN Resolution(row)
  ELSE IF Resolved(row) \notin DOMAIN official THEN "legacy_only"
  ELSE IF Resolution(row) = "canonical_url" THEN "url_matched" ELSE "matched"

(* Every id a row names counts as matched, conflicts included.              *)
NamedIds(rows, official) ==
  {rows[i].explicit : i \in DOMAIN rows} \cup {rows[i].url : i \in DOMAIN rows}

MatchedIds(rows, official) ==
  {Resolved(rows[i]) : i \in {j \in DOMAIN rows :
     ClassOf(rows[j], official) \in {"matched", "url_matched"}}}

(* One report per import, snapshot and digest of what the snapshot's posts  *)
(* say; a report that exists already is returned.                           *)
Report(c) ==
  LET rows == Batch[imports[c].rows]
      official == [p \in authority.items |-> posts[p].says.text]
  IN [import |-> c, snapshot |-> authority.id, official |-> official,
      classes |-> [i \in DOMAIN rows |-> ClassOf(rows[i], official)],
      changed |-> {i \in DOMAIN rows : /\ Resolved(rows[i]) \in DOMAIN official
                                       /\ rows[i].says.text # official[Resolved(rows[i])]},
      official_only |-> DOMAIN official \ MatchedIds(rows, official)]

ShadowReportFor(c) ==
  /\ imports[c] # None
  /\ Authoritative(authority.id)
  /\ Cardinality(reports \cup {Report(c)}) <= MaxReports
  /\ reports' = reports \cup {Report(c)}
  /\ UNCHANGED <<surroundings, posts, imports, reviewable, approvals, operator>>

-----------------------------------------------------------------------------
(* checklist_for and record_transition_approval.                            *)

(* supersede_*: the decisions are closed and their reports reset.           *)
KeepReviewable(stale) == reviewable

ResetReviewability(stale) == reviewable \ {a.report : a \in stale}

Closed(stale) ==
  (approvals \ stale) \cup {[a EXCEPT !.current = FALSE] : a \in stale}

(* The checklist of a report supersedes the decision on any other.          *)
SupersedeOthers(r) ==
  LET stale == {a \in approvals : a.current /\ a.report # r}
  IN /\ Authoritative(r.snapshot)
     /\ approvals' = Closed(stale)
     /\ reviewable' = ResetReviewability(stale)

ChecklistFor(r) ==
  /\ SupersedeOthers(r)
  /\ UNCHANGED <<surroundings, posts, imports, reports, operator>>

(* The checklist's transaction commits before the decision's begins.  A     *)
(* request with another digest ends here, as ChecklistFor.                  *)
BeginApproval(o, r, e, d) ==
  /\ operator[o] = Idle
  /\ SupersedeOthers(r)
  /\ operator' = [operator EXCEPT ![o] =
       [at |-> "approve", report |-> r, evidence |-> e, decision |-> d]]
  /\ UNCHANGED <<surroundings, posts, imports, reports>>

Decision(o, current) ==
  [report |-> operator[o].report, evidence |-> operator[o].evidence,
   decision |-> operator[o].decision, current |-> current]

RecordApproval(o) ==
  LET r == operator[o].report
      stale == {a \in approvals : a.current}
  IN /\ operator[o].at = "approve"
     /\ Authoritative(r.snapshot)
     /\ {Decision(o, TRUE), Decision(o, FALSE)} \cap approvals = {}
     /\ Cardinality(approvals) < MaxDecisions
     /\ approvals' = Closed(stale) \cup {Decision(o, TRUE)}
     /\ reviewable' = (ResetReviewability(stale) \ {r})
                        \cup IF operator[o].decision = "approved" THEN {r} ELSE {}
     /\ operator' = [operator EXCEPT ![o] = Idle]
     /\ UNCHANGED <<surroundings, posts, imports, reports>>

(* A command ends without a further write: the source changed or is not     *)
(* valid, the account is not connected or not the credential's, the         *)
(* snapshot is the authority no more, the decision exists already, or a     *)
(* call fails and its transaction rolls back.                               *)
Abandon(o) ==
  /\ operator[o] # Idle
  /\ operator' = [operator EXCEPT ![o] = Idle]
  /\ UNCHANGED <<surroundings, posts, imports, review>>

-----------------------------------------------------------------------------
Next ==
  \/ FileChanges \/ AuthoritySpoiled
  \/ \E p \in Posts : \E t \in Says[p] : PersistPost(p, t)
  \/ \E items \in SUBSET Posts : ReplaceAuthority(items)
  \/ \E o \in Operators :
       \/ ReadText(o) \/ ReadSqlite(o) \/ QueryRows(o) \/ ReadAgain(o)
       \/ VerifyIdentity(o) \/ PersistImport(o) \/ ReuseImport(o)
       \/ RecordApproval(o) \/ Abandon(o)
  \/ \E c \in Contents : ShadowReportFor(c)
  \/ \E r \in reports :
       \/ ChecklistFor(r)
       \/ \E o \in Operators, e \in Evidence, d \in Decisions : BeginApproval(o, r, e, d)

Spec == Init /\ [][Next]_vars

-----------------------------------------------------------------------------
Total(counts) == counts["inserted"] + counts["matched"] + counts["updated"]
                   + counts["conflicted"] + counts["unmapped"]

(* An import holds the records of the very bytes its digest names, each     *)
(* counted once, although a SQLite file may be replaced between the read    *)
(* that is digested and the query (read_source_bytes and                    *)
(* preflight_field_theory_sqlite, persist_import_records).                  *)
ImportHoldsItsSource ==
  \A c \in Contents : imports[c] # None =>
    /\ imports[c].rows = c
    /\ Total(imports[c].counts) = Cardinality(Keys(c))

(* A post that the official API delivered first says what the API said      *)
(* last, whatever is imported before or after (upsert_imported_post).       *)
OfficialPostStands ==
  \A p \in Posts : posts[p].from = "official-api" => posts[p].says = delivered[p]

Names(c) == {Resolved(row) : row \in Records(c)} \ {None}

(* A report accounts for both sides: a post of the snapshot is official     *)
(* only exactly when no record of the import stands for it, and a record    *)
(* whose two ids disagree stands for neither (classify_shadow_entries).     *)
ShadowAccountsForAll ==
  \A r \in reports :
    /\ r.official_only = DOMAIN r.official \ Names(r.import)
    /\ {i \in DOMAIN r.classes : r.classes[i] = "legacy_only"} =
         {i \in DOMAIN r.classes :
            Resolved(Batch[r.import][i]) \notin DOMAIN r.official \cup {None}}

(* One decision at most is current, and a report is reviewable exactly when *)
(* the current decision approves it, however checklists and decisions of    *)
(* several reports interleave (supersede_approvals_for_new_report,          *)
(* supersede_current_approvals, reset_report_reviewability).                *)
ReviewableIsApproved ==
  LET current == {a \in approvals : a.current}
  IN /\ \A a, b \in current : a = b
     /\ reviewable = {a.report : a \in {b \in current : b.decision = "approved"}}

-----------------------------------------------------------------------------
(* Statements of the documentation and the tests that the code does not     *)
(* keep.                                                                    *)

(* "Later legacy text must not replace official": a post the API has        *)
(* delivered says what the API said last.                                   *)
OfficialTextStands ==
  \A p \in Posts : delivered[p] # None => posts[p].says.text = delivered[p].text

(* When the official snapshot changes after approval, "the transition       *)
(* returns to owner-review-required".                                       *)
ReviewableIsAuthoritative ==
  \A r \in reviewable : r.snapshot = authority.id
=============================================================================
