# Verification of ratatoskr-x

TLA+ models of the X service: its explicit-capture lane, its outbox, its
process, its budget, its bookmark synchronization and writeback, its folder
snapshots, the social sources it publishes, its OAuth credentials and the
transition from the legacy archive. TLC checks them on small instances; TLAPS
proves the theorems of section 6 for every instance.

`PROJECT.json` lists components, runs, mutants, findings, hazards and theorems,
and maps each definition to the source lines it stands for. Paths below are
relative to `src/`.

## 1. The system

One process (`services/x/src/main.rs`) runs an admin listener and five tasks on
a JetStream bus, over one PostgreSQL schema (`schema.sql`). Library services
(snapshots, scans, writeback, compliance) share the schema and run in any
number of tasks. PostgreSQL, JetStream, the X API, Platform, Knowledge and
Extractor are external; they appear only through what the code sees of them.

| Part | State | Operations | What makes it hard |
|---|---|---|---|
| capture intake (`x-capture/src/lib.rs`) | inbox, captures, outbox rows | deliver, claim, queue report, ack | redelivery, lost acks |
| capture worker (`x-sync/src/public_capture.rs`) | capture row, lease, attempts, owner source | claim, resolve, defer, terminate, preserve | lease expiry, two workers on one row, crash in a pass, captures racing on one source |
| outbox relay (`x-capture/src/relay.rs`, `x-persistence/src/outbox.rs`) | row status, backoff, resend schedule, health | select, publish, mark, refuse, give up, resend | crash after the broker's ack, overtaking, dropped messages |
| deletion acks (`services/x/src/deletion_acks.rs`) | acknowledged removals | apply | the ack overtakes mark_published |
| process (`main.rs`, `x-http/src/admin.rs`) | lifecycle, readiness flags, tasks | boot, report, fault, signal, drain | hung tasks, health report during the grace |
| budget (`x-budget`, `budget_windows.rs`) | usage per window | charge, refund | concurrent charges, rollover, lost commits |
| full snapshot (`x-sync/src/lib.rs`) | runs, staged items, authority, bookmarks | create, resume, stage, fail, complete | two tasks on one run, the list moves, writes in between |
| incremental scan (`incremental.rs`) | watermark, gap mark | observe, complete, gap, stop | overlap, caps, lost watermark |
| writeback (`x-sync/src/writeback`) | operations, consents | claim, evaluate, reserve, consume, call, complete | awaits between every two transactions |
| social sources (`social_sources.rs`, `articles.rs`, `compliance.rs`, `knowledge.rs`) | sources, revisions, facts, articles | publish, take down, complete | late pages, duplicate facts, two checkers |
| folder snapshot (`x-sync/src/folders.rs`) | runs, staged items, memberships, observations, authority | create, resume, stage, fail, limit, complete | resume after a crash, two tasks on one run, the folder moves |
| OAuth (`x-oauth`, `x-persistence/src/{oauth_intents,credentials,bookmark_write_authorizations}.rs`) | intents, credential rows, account state, write authority | accept, exchange, activate, refresh, revoke | a row lock held across a provider call, single-use tokens, two lock orders |
| legacy transition (`x-sync/src/legacy_transition`, `transition_main.rs`) | imports, posts, shadow reports, approvals | preflight, import, report, checklist, decide | the file changes while it is read, imports beside syncs, two transactions per decision |

They meet in four places. Lane, sources and compliance write outbox rows in
their own transactions, and the relay carries them away. Snapshot, scan and
writeback share the bookmark rows. The sync and the legacy import write the same
posts. Every provider call is paid from a budget.

## 2. Modules

| Module | Models | State and actions |
|---|---|---|
| `CaptureLane` | intake and workers | `Send`, `Persist` (the whole delivery transaction), `ClaimDue`, `Resolve`, `Defer`, `Terminate`, `Preserve`, `Abandon`, `Tick`; histories `reports` and `facts` |
| `OperationReports` | what Platform is promised | abstract: accept or refuse, then finish once |
| `OutboxRelay` | relay, row transitions, deletion acks | one action per statement group of a pass, the stream's and Knowledge's steps as environment |
| `ServiceLifecycle` | `run()` and readiness | boot steps, task ends, relay reports, grace; `begin_drain` and the stop request as two steps; the server's end or its error |
| `ApiBudget` | `BudgetGate` over durable windows | clock read, locked read, bump and commit, lost commit, refund |
| `BookmarkSync` | full snapshot, scan, write projection | one action per transaction or provider call of each task |
| `BookmarkWrite` | `BookmarkWritebackService` | one action per transaction, call or wait of `execute`; a consumption commits, loses its commit's answer, is refused or is rolled back (`ConsumeFails`) |
| `SocialSources` | publication, articles, compliance, completions | page publication, revalidation, takedown, late facts |
| `FolderSnapshot` | `FolderSnapshotService` | one action per transaction or provider page of a task; the owner's folder as environment |
| `Credentials` | `resolve_callback`, `ConnectionService` and its tables | one action per statement or transaction, with the provider call between two of them and the locks as guards |
| `LegacyTransition` | sources, import, shadow report, review | one action per read of the file, per transaction and per provider call; sync and file system as environment |
| `CaptureLaneProofs`, `OutboxRelayProofs`, `BookmarkSyncProofs`, `BookmarkWriteProofs`, `SocialSourcesProofs`, `FolderProofs`, `CredentialsProofs` | | the theorems of section 6, each module about the one it extends |
| `ProcessProofs` | | the same for the two programs and the gate: it extends `LegacyTransition`, `ServiceLifecycle` and `ApiBudget`, which therefore name their `ServiceSpec` and `BudgetSpec` apart |
| `MC…` | | constants, bounds and symmetry for TLC; `MCBookmarkSync` also gives `BookmarkSync` its three casts |

Conventions. A time is kept as the wait that is left and `Tick` is one unit.
Counters saturate at a named cap that no reader can tell from more. Crashes,
saves and edits at the provider are bounded by constants called `Max…`. Some
definitions stand just before the one they are a faulty version of; they are
the mutants of `PROJECT.json` and no specification uses them.

Abstractions to know about:

- A transaction is one step where a row or advisory lock orders it against
  every other writer of what it reads; otherwise it is split (the budget's
  locked read and its update are separate).
- `evaluate_local` reads several rows outside a transaction; the model reads
  them in one step. Only the consent is checked again, in `consume_consent`,
  against the same instant; the authority may move in between and does.
- `observe_page` reads the watermark just before its transaction; one step.
- A serialization failure of `complete_run` counts as a crash of its task.
- A capture's content is its digest; a permalink names a key, no status, or is
  invalid; `normalize_external_url` is a function from URLs to articles or
  none, that may send two URLs to one article.
- The page order that `normalize` gives (by provider id) is kept, because the
  scan reads it.
- The compliance ledger's due time is dropped: a live source may be due always.
- Audit events of writeback, gauges and logs are left out.
- A refresh token is the number under which the provider minted it. The provider
  may answer a refresh without a new token, or not at all after it rotated.
  `lock_active_for_account` waits under PostgreSQL's read-committed rule: after
  the wait it takes the newest row of those it saw that is still active. Revoke
  posts the access token, so the refresh token may or may not end with it.
  `created_at` is the start of the inserting transaction, which may then wait
  for the account: `BeginInsert` takes that stamp, a later step appends the row,
  and the newest row is the one with the last stamp, not the last in the table.
- A legacy record has a key, the two ids it may name, a text and a date, and a
  digest is the content digested. `upsert_imported_post` compares both. A page
  read earlier may be persisted later, so the sync may write any of the things a
  post ever said, in any order. `persist_posts` keeps `normalization_provenance` on conflict.
  The file goes through its contents in order and none comes back: a file that is
  replaced and restored between the two reads of a SQLite source is outside the
  model, and `ImportHoldsItsSource` says nothing of it.
- A folder's continuation token stands for everything added before the last
  post of its page.

## 3. Runs that pass

| Run | Properties | Instance |
|---|---|---|
| `lane_race` | `TypeOK`, `OneTerminalReport`, `FactsReplaySource`, `EveryFactHasItsReport`, `PreservedIsBacked` | 3 captures of one post (to preserve, remove and restore it), 2 contents, 2 workers, 2 attempts, lost acks of one command |
| `lane_live` | `KeepsPromise` (refinement), `EveryCaptureEnds` | 2 captures of one post, a non-status and a poison command, batch 2, lost acks, a pass that crashes half way |
| `relay_race` | `PublishedWasStored`, `OrderUnlessRefused`, `RemovalStaysArmed`, `AnswerIsFinal` | a plain row and a younger removal, 2 relays, batch 2, refusals, drops, resends, no crash |
| `relay_live` | `RemovalIsAcknowledged`, `EveryRowLeaves`, `HealthRecovers` | an oversized head row and a removal behind it, 1 relay, a crash |
| `service` | `ReadyIsWired`, `ExitTellsFault`, `FaultEndsProcess` | the five tasks |
| `budget` | `WindowsAreDisjoint`, `CallsStayUnderCap`, `RefusedOnlyWhenFull` | 3 callers, costs 1 to 3, cap 2, 2 windows |
| `sync` | `RemovalHasEvidence`, `SnapshotIsTruthful`, `QuietRunResolvesWrites`, `ScanCoversItsWindow` | up to 3 posts; writes and two runs of one task, or two tasks on one run, or a scan beside a run; page cap 2, a crash |
| `write_race` | `OneCallPerConsent`, `CallsArePaid`, `OutcomeIsOfTheCall` | 2 callers, 3 keys, 2 consents, 6 requests, cap 2, a crash |
| `sources` | `FactsTellTheLife`, `OneCommandPerArticle`, `TakedownHasEvidence`, `ConsumedIsLinkedOnce` | 1 post, 2 contents with shared links, 2 observers, 2 checkers, 3 edits |
| `oauth_race` | `OneGrantPerIntent`, `AuthorityReplacedAll`, `NoFalseRevocation` | 2 sessions, 2 read intents and a write intent, 3 tokens |
| `folders` | `UntouchedIsTruthful`, `HistoryTellsMembership` | 2 posts, 3 runs, 2 tasks, page size 1, 2 additions, a crash |
| `transition` | `ImportHoldsItsSource`, `OfficialPostStands`, `ShadowAccountsForAll`, `ReviewableIsApproved` | 2 operators, 2 posts, 2 contents of the file, 1 snapshot, 2 reports, 2 decisions |

The comment above each property says which code behaviour it is about.

Why the bounds suffice. The races of this code are between two holders of one
row: two workers after a lease, two relays on a batch, two tasks on a run, two
callers on a consent. Each run has two of the racing actor and one contended
object, and a third of whatever can come between them (a third capture to
restore what was removed, a third caller for the last unit of the budget). Two
attempts give a first one and a last one. One
crash is enough to reach each point between two steps, because every action
boundary is a crash point; where two tasks race, a crash is also the task that
takes no further step. `RemovalHasEvidence` speaks of the step that records a
removal, as a late page can still enter a snapshot that is complete
(`sync_authority` below).

What an instance leaves to the theorems or to another run. `relay_race` has two
relays and no crash; the crash between the broker's answer and `mark_published`
is met by `relay_live` and by `MarkedRowsAreStored`. `sync` and `folders` have
pages of one post; the order in a page, which matters from two posts on, is left
to `ScansCoverTheirWindow`, proved for any page size, and to `sync_watermark`. `sources` has
one post, so many posts on one URL are left to `ArticlesAreAskedOnce`.
`transition` has one snapshot; `transition_stale` has the second. The lock orders
of `AuthorityReplacedAll` can deadlock; that they leave no flow waiting is
`EveryFlowEnds` of `oauth_live` (section 4). The fault of `service_ready` is not
one that `ReadyIsWired` could find, which speaks of wiring and stop requests.

Four instances are narrowed by a state constraint, each to keep a further actor
affordable. `sync` explores its casts one at a time (`InCast`). `oauth_race`
allows the second read intent, which gives an account two active credentials,
to sessions that take turns and never fail, lets an intent expire only before
there is a credential, and has sessions take turns after a second token was
revoked or lost. `folders` allows the third run, by
which a post returns, to one task at a time that does not die; its `VIEW` leaves
out the recorded capability limits, which nothing reads. In `transition`
the operators only decide once both reports are there; imports and late pages
race before.

Deadlock is checked for the relay, the budget and the writeback. The others may
come to rest, when every command is done, the process has exited, or the bounds
on user actions, runs, tokens or decisions are spent.

## 4. Fairness

- `CaptureLane`: weak fairness of delivery, claim, resolve, each outcome and
  time. The consumer redelivers until acknowledged and the worker polls for
  ever. None for sending or for crashes.
- `OutboxRelay`: weak fairness of the relay's own steps, of time and of the end
  of a duplicate window; strong fairness of a stored publish, of Knowledge
  reading and of its answer arriving. A broker that refuses for ever, or a
  stream that drops every copy, makes every delivery promise void, so each is
  assumed to succeed infinitely often if tried infinitely often.
- `ServiceLifecycle`: weak fairness of `run()` alone. The grace and the drain
  are timed. The tasks may hang and the signal may never come.
- `Credentials` (`FairSpec`, with `oauth_live.cfg` on `MCCredentials`): strong
  fairness of every session's steps. A provider call ends by the client's
  timeout, PostgreSQL's lock queues are fair and it breaks deadlocks. TLC then
  finds `EveryFlowEnds` to hold: activation takes the account before the
  credentials, refresh and revoke take them the other way round, and no flow
  waits for ever. The configuration passes and is kept beside the runs.
- The other modules state safety properties only and have no fairness.

## 5. Where code and text disagree

Each row is a `.cfg` under which TLC finds the stated property violated. They
are kept beside the runs of `PROJECT.json`, to be run with the module in the
second column when their code changes, and are named in the notes of the
hazards they belong to.

| Configuration | Module and property | What happens | What the text says |
|---|---|---|---|
| `service_ready` | `MCServiceLifecycle`: `NeverReadyAfterFault` | The relay's health report during the failure grace makes the service ready again. | `services/x/src/main.rs:101` "never stay ready" |
| `budget_rollover` | `MCApiBudget`: `PriorWindowsImmutable` | A late charge or refund changes a window that has a successor. | `schema.sql:66` "Historical rows are immutable once a later window exists", `openspec/specs/api-budget/spec.md:38` "rather than being mutated" |
| `budget_fresh` | `MCApiBudget`: `FreshWindowStartsNow` | A fresh window starts at the last multiple of the window length (`gate.rs:275`), so a reservation that opens it late gets the rest of a window, not a whole one. | `openspec/specs/api-budget/spec.md:38` "open a fresh window starting at that moment", `:43` "a new window begins at the reservation time" |
| `lane_restored` | `MCCaptureLane`: `RestoredIsAdmitted` | A capture accepted before a removal restores the post with an earlier capture time. | `public_capture.rs:376` |
| `sources_return` | `MCSocialSources`: `ObservedIsPublished` | A post that returns to an earlier content violates the digest's uniqueness, so its page fails and nothing is published. | `openspec/specs/social-source-publication/spec.md:53` |
| `sync_watermark` | `MCBookmarkSync`: `WatermarkIsNewest` | The watermark is the least id of the page. | `incremental.rs:23` "The newest provider post identity" |
| `sync_overlap` | `MCBookmarkSync`: `WatermarkAdvances` | An older scan that completes later moves the watermark back. | `incremental.rs:19` "persisted a newer one" |
| `sync_lost` | `MCBookmarkSync`: `UnprovenScanRequiresFull` | A scan that cannot meet its watermark does not ask for a full snapshot. | `openspec/specs/bookmark-incremental-scan/spec.md:25` |
| `sync_evidence` | `MCBookmarkSync`: `LaterEvidenceResolves` | A snapshot read before an uncertain write resolves it. | `openspec/specs/bookmark-writeback/spec.md:174` |
| `sync_authority` | `MCBookmarkSync`: `AuthorityIsFrozen` | A second task adds rows to a snapshot that is already the authority. | `schema.sql:305` |
| `write_retry` | `MCBookmarkWrite`: `InProgressIsTrue` | A retry of a refused write is told it is in progress. | `writeback/types.rs:274` |
| `oauth_revoked` | `MCCredentials`: `RevocationScrubs` | An account connected twice has two active credentials; revoke closes the newest and the other stays active with its payload. | `openspec/specs/oauth-connection/spec.md:152` "Revocation scrubs material" |
| `folder_failed` | `MCFolderSnapshot`: `AuthorityIsCompleted` | A task that fails a page after another completed the run sets the run of the current snapshot to failed. | `schema.sql:421` "Exactly one completed membership snapshot is current" |
| `folder_late` | `MCFolderSnapshot`: `AuthorityTellsMembers` | A page staged late is added to the snapshot that is the authority, and to no membership. | `openspec/specs/folder-snapshot/spec.md:21` "readers after completion observe exactly the staged replacement set" |
| `transition_official` | `MCLegacyTransition`: `OfficialTextStands` | A post first imported and then delivered by the API keeps its legacy provenance, so a later import overwrites the official text. | `crates/x-sync/tests/legacy_import.rs:380` "Later legacy text must not replace official" |
| `transition_stale` | `MCLegacyTransition`: `ReviewableIsAuthoritative` | A new authority leaves the approved report reviewable until the next checklist. | `openspec/specs/legacy-field-theory-transition/spec.md:110` "the transition returns to owner-review-required" |

The alignment of `budget_fresh` is what makes `WindowsAreDisjoint` hold: windows
that start at the reservation overlap as soon as two callers read the clock at
different instants before either has opened one (the mutant of that property).
Text and code would have to be brought together with this in mind.

One more divergence is not modelled. `handle_import` (`transition_main.rs:191`)
names the digest of the batch it has just read as the one that was approved, so
a file that changed after the preflight is imported under the approval of the
earlier one; `docs/cutover/field-theory.md:37` says "a later source-byte change
requires a new preflight and owner mapping approval". The model leaves the approval of
an import out.

`SnapshotIsTruthful` and `QuietRunResolvesWrites` are about runs during which
neither the provider's list nor a write moved. Without that premise they do not
hold, as `sync_evidence` shows. `ScanCoversItsWindow` is about scans over an
unchanged list during which no snapshot, no other scan and no removal completed:
a snapshot with an older list, or a confirmed removal, takes bookmarks away that
the scan recorded, and another scan replaces the watermark it started from.

`NoFalseRevocation` is about refreshes that present no token and so use the one
on file. A caller may also present a token. Two racers that both present the
current one do end in a revocation: the first rotates, the second finds its token
superseded and the reuse check closes the credential. The property counts that
as caused by a retired token.

## 6. Proofs

Every theorem holds for all values of the constants that satisfy the named
assumption of its module. The assumptions are types, disjointness of model
values, and finiteness where the code counts rows; TLC evaluates them in the
runs. Each safety property is proved through an inductive invariant, stated at
the head of the proof module. On the instance of its run TLC
finds each of these invariants to hold.

| Theorem | States | Module |
|---|---|---|
| `OneWindowAtATime`, `BudgetIsKept`, `RefusalsAreTruthful` | `WindowsAreDisjoint`, `CallsStayUnderCap`, `RefusedOnlyWhenFull` | `ProcessProofs` |
| `ReadyProcessIsWired`, `ExitStatusTellsFault` | `ReadyIsWired`, `ExitTellsFault` | `ProcessProofs` |
| `ImportsHoldTheirSource`, `OfficialPostsStand`, `ReportsAccountForAll`, `ReviewFollowsDecision` | `ImportHoldsItsSource`, `OfficialPostStands`, `ShadowAccountsForAll`, `ReviewableIsApproved` | `ProcessProofs` |
| `TypesAreKept`, `WalksAlwaysHold` | `TypeOK` of `BookmarkSync`, and its inductive invariant `WalksHold` | `BookmarkSyncProofs` |
| `RemovalsHaveEvidence`, `SnapshotsAreTruthful`, `QuietRunsResolveWrites`, `ScansCoverTheirWindow` | `RemovalHasEvidence`, `SnapshotIsTruthful`, `QuietRunResolvesWrites`, `ScanCoversItsWindow` | `BookmarkSyncProofs` |
| `TypesAreKept`, `ReportedOnce`, `FactsReplay`, `FactsAreReported`, `SuccessIsBacked` | `TypeOK`, `OneTerminalReport`, `FactsReplaySource`, `EveryFactHasItsReport`, `PreservedIsBacked` | `CaptureLaneProofs` |
| `LaneImplementsPromise` | the lane refines the safety part of `OperationReports` | `CaptureLaneProofs` |
| `MarkedRowsAreStored`, `RefusalsAloneReorder`, `RemovalsStayArmed`, `AnswersAreFinal` | `PublishedWasStored`, `OrderUnlessRefused`, `RemovalStaysArmed`, `AnswerIsFinal` | `OutboxRelayProofs` |
| `CallsAreSingle`, `CallsStayPaid`, `OutcomesAreOfCalls` | `OneCallPerConsent`, `CallsArePaid`, `OutcomeIsOfTheCall` | `BookmarkWriteProofs` |
| `LivesAreTold`, `ArticlesAreAskedOnce`, `TakedownsHaveEvidence`, `CompletionsLinkOnce` | `FactsTellTheLife`, `OneCommandPerArticle`, `TakedownHasEvidence`, `ConsumedIsLinkedOnce` | `SocialSourcesProofs` |
| `ObservationsTell`, `UntouchedPostsAreTrue` | `HistoryTellsMembership`, `UntouchedIsTruthful` | `FolderProofs` |
| `OneGrant`, `AuthorityReplaced`, `RefreshesAreSafe` | `OneGrantPerIntent`, `AuthorityReplacedAll`, `NoFalseRevocation` | `CredentialsProofs` |

The arguments, and what each invariant adds to the properties:

- **Budget** (`BudgetAssumption`). Windows start at multiples of the window
  length, so two of them are equal or disjoint; a caller carries a start that is
  aligned and not ahead of the clock, also when it charges late. A usage read under the row lock is still the
  stored one (`LockedReads`). Without it the bump of a caller between its read
  and its commit could not be compared with the cap.
- **Capture lane, reports** (`LaneAssumption`; any sets of commands, workers and
  contents). `LaneInv` adds that an outcome in a worker's hands belongs to a
  claim and that a row exists just for a claimed command that names a post. The
  core is that every outcome is written by an update guarded by a pending row:
  of two workers that hold the same capture, the second finds the guard false.
- **Capture lane, facts.** `FactsInv` adds that no identity of a key exceeds the
  number of its captures, so a fresh one is above all before it, and that a
  stored source has its captured fact. A capture that still passes the guard has
  no terminal report, so it caused no fact yet (`UntoldYet`); this is why a fact
  never has two causes.
- **Capture lane, refinement.** `Promise` maps `log` to the statuses of the
  reports. Every action maps to an accept, a refusal or a finish of one command,
  or to a stutter, from `LaneInv`.
- **Relay** (`RelayAssumption`; finitely many rows, as `commit` counts them, and
  counters that saturate above the policies' caps). `RelayInv` adds what a pass
  may rely on: a row it selected is kept together with the older rows that hold
  it back, unless one of those is stored or has a recorded failure. Selection
  establishes it because a batch is closed under older due rows; every other
  pass only stores rows or records failures. `SentIsLogged` adds that
  what waits for Knowledge, or was answered by it, is in the stream's log. That an
  answer is final is a fact about steps: of the published rows a pass selects
  only unanswered ones, and a resend counts only on one of those
  (`AnswerStands`, `AnsweredIsPutDown`).
- **Writeback** (`WriteAssumption`; finitely many keys, as calls are counted).
  The claim makes one caller the executor of a key, and its operation waits in
  the status the executor left it in. What an operation says is backed by a
  consumed consent that no other operation spends. The ledger holds a charge for
  every operation that was called or still may be, which a refund before the
  call and a lost commit both respect.
- **Sources** (`SourcesAssumption`). A source has a revision from its first
  publication on, so the number of facts is the number of revisions, and one
  more after the removal. A worker holds the verdict "gone" only of a post that
  was gone. The commands of an article are counted by whether it has a row. An
  event enters the inbox in the step that links it or finds its revision linked,
  and revisions are never taken back.
- **Folders** (`FolderAssumption`; finitely many posts). Completed runs stay
  complete, so a run is observed once, and observations of a post alternate. For
  `UntouchedIsTruthful` the invariant `SnapshotsSaw` follows an open run: of the
  posts left alone since it was created, its staged items hold none outside the
  folder, and miss only those older than its continuation. A page of the
  provider extends that to the next continuation (`PageCovers`), and a run
  completes just when there is none. A second task on the same run, a failure
  and a resume only fall back to an older continuation.
- **Credentials** (`IntentAssumption`). An intent on its way or in a row is
  consumed; a session that holds a row holds it alone, active and with the token
  it read; no token is in two places; and the provider honours each stored token
  or token in hand unless it was spoiled or its row is being rotated. The last
  three together say why racing refreshes never present a token twice.
- **Transition, review** (`TransitionAssumption`). Shapes of the decisions, at
  most one current decision, and reviewable reports are those a current decision
  approves. Closing the current decision and resetting its report are one
  transaction; that is what the proof uses.
- **Transition, import.** `ReadersHold` orders what a command digested, what it
  queried and what the file is, so an equal second read makes the three one.
  `ImportsHold` and `PostsHold` need what the loop over the records leaves. The
  loop is a recursive function; that it has a course at all is proved by the
  least round at which it would have none (`LoopRuns`), and what its course
  keeps by the least round that would break it (`ImportLeaves`): each record adds
  one to the counts and moves no post that the API delivered first. The batch
  lists the records by the rank of their keys, each once (`BatchLists`).
- **Service** (no assumption). `ServiceInv` says what the place of `run()` tells:
  every task is started before the listener, a stop request comes with the
  draining lifecycle, and whoever left serving left a fault or a signal behind.
- **Sync, runs** (`SyncAssumption`; runs and scans are named apart). The snapshot
  of an open, undisturbed run holds saved posts only, and all of them down to its
  checkpoint (`RunHolds`); with the page in a task's hands it holds all down to
  the task's token (`WalkHolds`). A provider page extends that to the next token
  (`PageCovers`). Crash, failure, resume and a second task on the run only fall
  back to an older token. A run completes with the token at the end of the list,
  so its items are the list, and what reconciliation makes of bookmarks and
  uncertain writes is what the list says.
- **Sync, scans.** `ScanHolds` says the same of the active bookmarks and the
  scan's token, and that the first post seen and the watermark that was met are
  not beyond the token.

Only model-checked is liveness: `EveryCaptureEnds`, `EveryRowLeaves`,
`RemovalIsAcknowledged`, `HealthRecovers`, `FaultEndsProcess`, and the fairness
part of `KeepsPromise`. The prover handles neither fairness nor `ENABLED`.

Every other property of the passing runs is stated by a theorem.

## 7. What is left out

Known hazards without a property:

- `articles.rs:153`: two page transactions insert the same URL at once; the one
  that waits sees neither its insert nor the other's row, and its page fails. The
  page transaction is one step of `SocialSources`.
- `articles.rs:244`: a failed Extractor report is rejected as invalid, so its
  article capture stays requested. No text promises an end for it.
- `x-sync/src/lib.rs:234`: an error of `complete_run` leaves its run in state
  running. A resume accepts running runs, so `SnapshotIsTruthful` covers the data.
- `x-sync/src/lib.rs:459`: a snapshot staged before a confirmed write completes
  after it and undoes its projection, until the next quiet run.
- `writeback/service.rs:281`: a process that dies in flight leaves an operation
  no snapshot resolves, as only uncertain ones are reconciled. The repository
  makes no promise for it.

Not modelled, and worth modelling: a composition of the lane with the relay, so
that the order of an owner's facts at the stream is checked end to end; the page
transaction of `SocialSources` split at its article insert; the audit events of
writeback; `insert_intent` (every intent exists from the start).

Not to be modelled: configuration and command line, URL and record parsing,
telemetry, the pool, cryptography and HTTP of OAuth. They keep no state of their
own after start.

## 8. Running

    tlc -config lane_race.cfg MCCaptureLane
    tlapm CaptureLaneProofs.tla

The module of every run is in `PROJECT.json`; `oauth_live.cfg` belongs to
`MCCredentials`, and section 5 names the module of the others. The largest run
is `folders` (2.4 million states); `lane_race`, `relay_race`, `sync` and
`write_race` visit between 1.1 and 2.1 million, `oauth_race` and `transition` less. The proofs
take from about three minutes (`SocialSourcesProofs`) to about ten
(`BookmarkSyncProofs`, `CaptureLaneProofs`) when nothing is remembered.
