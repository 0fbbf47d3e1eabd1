# Smile SQL: a TLA+ model

Smile SQL is a web application, written in Go, that manages SQL scripts: it
composes them into releases, runs a release against MySQL datasources, records
what happened, and archives the scripts in a Git repository. Its metadata lives
in one SQLite file. Every HTTP request is served by a goroutine of its own; the
code has no locks of its own around the database or the Git work directory.
These modules model what those goroutines do to each other.

## 1. Inventory

| part | code | state | operations |
|---|---|---|---|
| execution handlers | `internal/web/execution.go`, `internal/repo/execution.go` | `execution_record`; statuses of scripts and releases | push (form, AJAX), manual mark (form, AJAX), promotion, deletion of records |
| script handlers | `internal/web/script.go`, `internal/repo/script.go` | `sql_script` | create, edit, delete, export; a goroutine syncs every saved script to Git `pending/` |
| release handlers | `internal/web/release.go`, `internal/repo/release.go` | `sql_release`, `release_script` | create, rename, delete, add, remove and clear scripts; adding publishes a draft |
| SQL executor | `internal/executor/mysql_executor.go` | none that outlives a call; a pool of one connection while it runs | split a script at its semicolons, send the pieces one by one for at most 30 s |
| archiver | `internal/archive/archiver.go`, `internal/web/archive.go` | `archive_log`, `project_version`, `project.pom_version_current` | archive a release, with or without a version bump |
| Git client | `internal/git/go_git_client.go` | the work directory, the remote | `CommitAndPush`, `InitRepo` |
| version handlers | `internal/web/version.go`, `internal/repo/version.go` | `project_version` | create, set current |
| Git configuration | `internal/web/git.go`, `internal/repo/settings.go` | the row of `settings`; `Deps.Git` and the client of `Deps.Archiver` | save (form, AJAX), test |
| database | `internal/db/db.go`, `migrations/` | the pool of connections | open, migrate |
| clean-up | `internal/web/clean.go` | every table | one transaction for each kind of data |
| projects, environments, datasources | `internal/web/{project,environment,datasource}.go` | their tables | CRUD, pipeline status |
| sessions | `internal/web/auth.go` | a map in memory, under a mutex | log in, check at every request, log out |
| crypto, configuration, wiring | `internal/crypto`, `internal/config`, `cmd/server` | `config.yaml`, the crypto in use | start, stop, the transition from the stub to AES |
| dashboard, reveal, templates | `internal/web/{dashboard,reveal}.go` | none | read only |

How they interact. Handlers share nothing in memory but the Git client and the
session map; they meet in SQLite, one statement at a time, and in the Git work
directory. A push reads the scripts of a release once and then, for each one,
creates a record, calls the executor, stores the result and saves the script.
An archive reads the release, its scripts and the current version, opens a
transaction, pushes to Git in the middle of it, and commits. An edit reads a
script, looks at its status, saves the row and starts a goroutine that pushes to
the same Git work directory.

What is hard: what a handler has read is stale when it writes; errors of most
writes after the executor's call are ignored; the process may stop between any
two steps, and nothing is repaired at start-up; the executor may time out on a
statement the server applies all the same; Git and the database are two stores
with one of them transactional; the Git client, which reads its index and its branch before
it writes them, is called by several goroutines at once, and is itself replaced
while they run; a value stored by one crypto is read by another; and the splitter
and the MySQL server read one script by two sets of lexical rules.
`PROJECT.json` lists the hazards, each at its line.

What makes it right, part by part: records tell what the executor did; an
executed script carries the text that ran; executed and archived scripts are
locked; a release is promoted for a reason; an archived script is in Git, and
stays there; a project has one current version and a bump makes a new one;
a script is run as it is written, once and in order; what was encrypted is
decrypted as often; a saved configuration is the one in use; a session that ended
stays ended; records are resolved, and locks are released.

## 2. Modules

`Execution` models scripts, releases, links and execution records under
concurrent handlers. A step is one database access of one request or one call of
the executor; the local variables of a request are its entry in `req`, whose field
`at` names the next access. Reads and writes of one statement are atomic, as in
SQLite. `ran` and `vouched` are history variables: what the executor did under a
record, and what a person said of a script.

| code | in `Execution` |
|---|---|
| `pushExecute`, `ajaxPushExecute` | `PushExecute`, `AjaxPushExecute`, then `CreateRecord` or `SkipScript`, `ExecuteScript`, `RecordResult`, `MarkExecuted` for each script, `EndPush` |
| `manualMark`, `ajaxManualMark` | `ManualMark`; `AjaxManualMark`, `LoadMarked`, `WriteMarked`, `CountLinks`, `CountRecords`, `Promote` |
| `updateScript`, `ajaxUpdateScript` | `BeginEdit`, `SaveEdit` |
| `addReleaseScript`, `ajaxAddReleaseScript` and the rest of `release.go` | `AddReleaseScript`; `AjaxAddReleaseScript`, `AutoPublish`; `RemoveReleaseScript`, `ClearAllScripts`, `BeginUpdateRelease`, `SaveRelease` |
| `Archive`, as far as statuses go | `BeginArchive`, `CommitArchive`, `RollbackArchive` |

The constant `Stored` says which outcomes an ignored write may have: `{TRUE}` is a
database that never refuses, `{TRUE, FALSE}` one that may (a busy database fails
at once on every pooled connection that did not get the `busy_timeout` pragma).
The target database is abstracted to the verdict the executor reports and to
whether the whole script took effect: a success implies that it did, a failure
implies nothing. Datasources are not told apart. Rows are never deleted under a
handler's feet, links and records excepted: what happens when they are is the
subject of `Storage`.

`GitClient` models `GoGitClient`: one work directory (files, index, objects, local
branch), one remote, any number of concurrent callers. A step is one file written,
or one read or write of the repository. go-git's `Worktree.Add` reads the files and
the index and writes the index at the end; `Worktree.Commit` reads the index and the
head and moves the branch at the end, without comparing: each is two steps (`Add`,
`SetIndex`; `Commit`, `UpdateHead`). A branch is the set of the commits it reaches;
a push is accepted if the remote's commits are among them. Clones may fail, leave
half a repository, or read like an empty remote; answers of the remote may be lost;
others may push; the process may die. The behaviour of go-git v5.12.0 is modelled
from how the code uses it and marked external.

`Archive` extends `GitClient` with `ArchiverImpl.Archive`, the pending sync of edited
scripts, and the version handlers. Rows of a transaction appear when it commits;
`lock` is SQLite's write lock, which an archive with a bump takes before its Git push
and one without takes after. `SetCurrent` clears the project that the form names and sets
the version that the address names, and nothing says that they belong together: of the one
project modelled a request names both, or the version alone, or the project alone (`clears`,
and the id 0 for another project's version). Two history variables say what users did:
`mixed`, that two archives held a version to bump at once or that somebody made one current
by hand, and `strayed`, that one was made current in the name of another project.
`Delivery` is what archiving promises as a whole: a
release is recorded only after all its scripts are in the head of the remote, and
what was delivered is never taken back. `Archive!DeliverySpec` is that specification
under the refinement mapping `delivered`, the scripts with a file in the head of the
remote, and `recorded`, the releases with a row in `archive_log`.

`Storage` models the rows of all nine tables as their ids and the ids they refer to.

| code | in `Storage` |
|---|---|
| `REFERENCES` and nullable columns of `0001_init.sql` | `References`, `Nullable` |
| creations, deletions and updates of `internal/repo` | one action each, an instance of the statements `Insert`, `Update`, `Delete`; `RemoveScript`, `ClearAllScripts` |
| `ReleaseRepo.Delete` | `BeginDeleteRelease`, then `FinishDeleteRelease` or `AbandonDeleteRelease` |
| the transaction of `Archive` | `Archive` |
| the eight handlers of `clean.go` | `cleanProjects` to `cleanArchives`, run by `Clean` |

`db.Open` sets `PRAGMA foreign_keys` on one connection of the pool, so a statement
runs on a connection that checks or on one that does not: `check`, drawn from the
constant `Enforced`, which is `{TRUE}` for the pool the comments of `db.go` describe.
SQLite's default, not to check, is assumed of the others. A check is made at the end
of the statement; a deletion is refused if a reference dangles after it that did not
before. Ids are never given twice (`AUTOINCREMENT`). A form may name any row that was
ever there, since a page may be old when it is sent; an id that was never given, the 0
of a field that does not parse included, fares like that of a row that is gone. A
clean-up is a sequence of `DELETE` statements in a transaction that begins with a
write, so all of it is one step. Its conditions are sub-selects on a table that the
same clean-up empties last, and are therefore read in the database it began with.

`Executor` models one call of `MySQLExecutor.Execute`, of which `Execution` sees the
outcome only. The splitter takes one rune or one pair of runes a step; its buffer is
the text between `start` and `pos`. The runes are those that the splitter or the
server tells apart, `sp` for white space other than the end of a line, and `x` for
every other.

| code | in `Executor` |
|---|---|
| `splitSQLStatements` | `InLineComment`, `InBlockComment`, `InLiteral`, `StartComment`, `OpenLiteral`, `Cut`, `OtherRune`, `EndSplit` |
| `Execute`: `PingContext`, the loop of `ExecContext`, its returns | `Ping`; `Send`, `Reconnect`, `Answered`, `AnswerLost`; `Timeout`, `Close` |
| the pool of one connection, and `go-sql-driver/mysql` 1.7.1 (external) | `conn`; `Reconnect` replaces a connection that was found dead before anything was written |
| the MySQL server (external) | `Found`, what it finds in a packet by its own lexical rules; `Effect`, what statements leave in its database; `Run`, `Refuse`, `Hangup`; `Drop` for the network |

`ran` is the history of the statements the server ran, `refused` and `broken` say
whether it refused one on its merits and whether a connection or the clock failed.
The two lexers differ in three places: the splitter knows neither `#` comments nor back
quotes, and it takes two dashes for a comment even if no blank follows. `ReadAlike`
names the scripts without such a place; `CutSafe` adds those in which no semicolon
stands in a comment that ends with its line, for there the pieces still hold the
statements of the script, whatever the splitter takes them for.

`Server` models the process: what it keeps in memory beside the database, how that is
built at start-up, and the handlers that change or use it. Every request passes
`AuthMiddleware` first; the background sync of a script is a request that has.

| code | in `Server` |
|---|---|
| `main`, shutdown, a crash; the operator sets `admin_pw_hash` | `Start`, `Stop`; `EnableAES` |
| `loginSubmit`, `logout`, `AuthMiddleware` | `Login`, `Logout`; `Arrive`, `LoadUser` |
| `saveGitConfig`, `ajaxSaveGitConfig` | `ReadSettings`, `SaveSettings`; the second goes on with `RemoveWorkDir`, `InitRepo` or `InitRepoFails`, `SetGit`, `SetArchiver` |
| `pushScriptToPending`, and `Archive` as a user of the client | `BeginPush`, `OpenWorkDir`, `Push` |
| the datasource handlers, as far as passwords go | `CreateDatasource`, `ReadDatasource`, `UpdateDatasource` |

A value is what was typed under zero or one layers of encryption: `Stub.Encrypt` adds
none, `AES.Encrypt` one, and `AES.Decrypt` returns what it cannot decrypt as it is. The
key stays the same and AES, once chosen, stays on. The work directory is reduced to the
repository it is a clone of, `origin`; what is in it is the subject of `GitClient`. The
field `solo` of a save says that no other save of the configuration overlapped with it,
`calm` of a push that no save was between the removal of the work directory and its write
of both clients since the push opened it, `fresh` that a datasource was not saved since the
request read it; `given`, `ended`, `typed`, `overtaken` and `adrift` are history variables.
`typed` is the password somebody last typed for a datasource, whatever was stored after it,
and `overtaken` that a blank edit has since overwritten a row it had not read.

`Pending` models which file of the pending directory a script is synced to, and with
what text. `CommitAndPush` is one step there, since what overlapping calls do to each other
is the subject of `GitClient`; a push that fails leaves the commit in the work directory.

| code | in `Pending` |
|---|---|
| `createScript`, `ajaxCreateScript` | `CreateScript` |
| `updateScript`, `ajaxUpdateScript` | `BeginEdit`, then `SaveEdit` or `Leave` |
| `ajaxDeleteScript` | `DeleteScript` |
| a push, for each script it ranges over, and a mark, which save the row they read; an archive, which writes the status alone | `BeginPush`, then `MarkExecuted` or `Leave`; `MarkArchived` |
| `go s.pushScriptToPending`; its call of `CommitAndPush` | `Go`; `CommitPending` or `FailPending` |
| `sanitizeFileTitle` | the constant `FileTitle`, any function of titles |

`edited`, `born` and `apart` are history variables: whether an edit has saved a script,
the path it had when it was created, and whether its requests and syncs kept apart, each
beginning after the one before had ended, and none of its syncs failed or was lost.

`MCExecution`, `MCArchive`, `MCStorage`, `MCExecutor`, `MCServer` and `MCPending`
instantiate them for TLC. `ExecutionProofs`, `StorageProofs`, `ServerProofs`,
`ArchiveProofs`, `PendingProofs` and `ExecutorProofs` hold the proofs. Operators
whose comment begins with "Fault:" are plausible bugs, used only to test that the
properties can fail; no specification uses them.

## 3. What the runs check

| run | instance | shows |
|---|---|---|
| `ExecutionRace` | 1 script, 1 release, 2 texts, 2 requests, 2 records, lost writes, crashes | type invariant; `AutoResultTruthful`, `ExecutedTextRan`, `ExecutingJustified`, `PushOkSound`, `OneRunPerRecord` under every interleaving |
| `ExecutionSequential` | 2 scripts, 2 texts, 1 request, 2 records, 2 links | `SuccessMarksScript`, `PushOkSound` over plans of two, `LockedAfterExecution` and `PromotesOnlyAllExecuted` when requests do not overlap |
| `ExecutionLive` | 1 script, 2 requests, no crash, no lost write | `PendingResolved` |
| `ArchiveSerial` | 1 script, 2 texts, 1 request and 1 sync, 3 commits, failures, crashes, foreign pushes, saved configurations, no overlap | type invariant, `LoggedIsPushed`, `RemoteGrows`, `DeliverySpec` |
| `ArchiveLive` | 2 requests, both archive, one makes versions by hand, also in the name of another project; 2 versions, an empty remote, failures, crashes, overlap allowed | `OneCurrent`, `BumpsDiffer`, `LockReleased` |
| `StorageClean` | one row of each table, two environments, connections with and without the pragma | type invariant, `CleanUpsAreSound`, `ProjectsCanBeCleared` |
| `Executor` | some 7500 short scripts, any loss of the connection, any timeout | type invariant, `RunsAsWritten`, `KeptAsWritten`, `FailureHasReason`, `Returns` |
| `Server` | 2 requests, 2 repositories, 1 datasource, 2 log-ins, both cryptos, restarts, failures | type invariant, `PasswordUsable`, `PushGoesToClient`, `EndedStaysEnded`, `SaveServes` |
| `Pending` | 2 scripts, 2 titles, 2 texts, 2 requests, 2 syncs, failed pushes, crashes | type invariant, `ShownIfApart` |

Three more runs show where the code departs from what it or its documents say; each
is described under "findings" in `PROJECT.json`:

| run | property violated | in short |
|---|---|---|
| `ExecutionEditRace` | `LockedAfterExecution` | an edit that began on a draft is saved after a push or an archive |
| `ArchiveOverlap` | `LoggedIsPushed` | a pending sync and an archive overlap in the work directory |
| `ServerRestart` | `SavedIsInUse` | after a restart the client authenticates with the token as it is stored, encrypted |

`ArchiveSerial` restricts behaviours to those in which no two users of the work
directory overlap (`Serial`, a `CONSTRAINT` on states; the actions are unchanged).
That is an assumption on the users, not a mechanism of the code: `ArchiveOverlap`
runs the same actions without it. What the serial run adds is everything that
happens between calls: files, staged changes and commits that a failed call left,
half a clone, an answer that was lost, a crash, a commit of somebody else.

Bounds, and why they are enough. `MaxRecord`, `MaxLink`, `MaxCommit`, `MaxVersion`
and `MaxLog` bound rows ever created, and each guards the action that creates one.
Two requests are enough for every finding of a lost update, for a request has at most
one read that goes stale before one write; two records let two pushes, or a push and
its repetition, run side by side; two scripts and two links let a plan fail in its
first or its second script, and a link be a duplicate; three commits are the first
one of the remote and two of the application, or one of somebody else. A push begins
only if the records it may create fit the bound (`RoomFor`), so that no handler gets
stuck on it. The race starts from releases already composed (`ComposedInit`), every
way of linking included; the sequential runs compose them. `ArchiveSerial` lets
edits save one of the two texts, a script beginning with either. One row per table is
enough for a clean-up, whose conditions look at one reference of one row at a time;
the second environment lets a datasource be moved away from the one a record names,
so that a record refers to a datasource and an environment that do not belong together.

`ArchiveSerial` has three versions, the last of which stands for all later ones.
`ArchiveLive` has two rows for versions and two for archives, so that `BumpsDiffer`
compares two archives that both moved on and `OneCurrent` two versions; which of the two
requests archive with a bump, and when the second makes a version by hand, is free.
`Executor` takes every script of up to three runes, scripts of four and five over the
runes of one lexical question at a time (a backslash in a literal, a dash comment, a
block comment, a `#` comment, one quote inside another), and all scripts of four
statements that begin and commit transactions. Both lexers look at most two runes
ahead and remember no more than their mode, so these texts enter and leave every mode
with and without a semicolon in it; a disagreement that needs more is not excluded. In
`Server` two requests let a save, a push or an edit be overtaken by one other, two
repositories let a push miss its own, and two session tokens let a session end while
another lives. The users of one behaviour are administrators of Git, administrators
of datasources, or visitors (`MCServer`): what the three kinds do touches disjoint
variables, but for the process, which starts and stops under all of them. `Pending` has
two scripts, for a file is shared by two; titles of two names, so that an edit may rename
a script and another rename it back; and two edits or pushes (`MaxWork`), which may
overlap. What is beyond is covered by the proof.

Fairness. In `Execution`, a handler that has begun goes on: its goroutine is
scheduled, SQLite answers or fails, and the executor has a limit of 30 seconds
(weak fairness of each request's steps, none of what users ask for). In `Archive`
the same is assumed of handlers, goroutines and calls over the network. The code
gives those no limit of time, so `LockReleased` holds only if the remote answers:
the hazard at `archiver.go:229` is that the write lock is held meanwhile. That every
handler answers is not a property here: their steps are straight lines, and what could
stop one is a call that never returns, which fairness rules out. In
`Executor` fairness is assumed of the splitter, of the context's limit of 30 seconds
and of `Close`, and of nothing else: `Returns` holds if the server and the network
never answer. `Server` has no liveness property.

## 4. What is proved

`ExecutionProofs` proves, for every value of the constants that meets the four
assumptions of `Execution`:

- `TypeCorrect`: `Spec => []TypeOK`;
- `Invariance`: `Spec => []IInv`;
- `AutoResultsAreTruthful`, `ExecutedTextsRan`, `ExecutingIsJustified`: the three
  safety invariants;
- `RecordsRunOnce`: the action property `OneRunPerRecord`;
- `PushesAreSound`: `PushOkSound`, which is inductive together with `IInv`;
- `PromotionsFollowRuns`: the action property `PromotesOnlyAllExecuted`. Only the step
  that compares the counts leads to a promotion, and a release has no more scripts
  than links; so it holds of overlapping requests, too;
- `LockedIfApart`: the action property `LockedAfterExecution`, of `ApartSpec`;
- `SuccessIsMarked`: if `Stored = {TRUE}` and `~MayCrash`, `SuccessMarksScript`, of
  `ApartSpec`.

The properties are not inductive as they stand: that a script is saved as executed
beside the text that ran depends on what the push holds in its local variables. The
inductive invariant `IInv` adds four parts: `Fresh` (nothing is known of a record that
was not created yet), `Owned` (the record in a loop body was created by that push and
is no other's), `Verdict` (the executor was not called yet for a record about to be
executed, and the verdict in hand is its own), and `Reason` (a handler that will write
a script or promote a release has a reason to). The proof has one lemma for each
action, or group of actions that change the same rows, and combines them by cases
on `Next`.

`ApartSpec` is `Spec` restricted to behaviours in which no edit of a script overlaps with
a push, a mark or an archive of it (`EditsApart`). `ExecutionEditRace` shows that this is
needed; with one request at a time, as in `ExecutionSequential`, it always holds, and the
theorems go further: pushes, marks and archives may overlap with each other, and edits
with edits. Both rest on `Current`, that the texts requests have in hand are those of the
rows: a push, a mark or an archive then writes a status beside the text that is there
(`ScriptMoves`), and an edit, which finds its script still a draft, never meets a locked
one. `SuccessIsMarked` adds `Marked`: a script that ran is no draft, or the push that ran
it is about to mark it, which is what a lost write or a crash would undo.

`StorageProofs` proves, for every bound and, where it is not said otherwise, every
pool of connections:

- `TypeCorrect`: rows are what the schema says, ids are unique, and a row refers to
  rows created before it;
- `CleanUpsStaySound` and `ProjectsCanAlwaysBeCleared`: the invariants of `StorageClean`.

The argument characterises `Dangling` first (`DanglingIs`), then shows of each of the
eight clean-ups that no statement of it deletes a row another one still refers to,
because the tables that refer to a table are emptied of such rows before it. `TypeOK`
is inductive as it stands and gives the clean-ups what they need: that only the version
of a release may be null. That no reference dangles in general is not a theorem, because
it is not so (section 5): both theorems hold of pools that do not check.

`ServerProofs` proves, for any repositories, tokens, datasources, sessions and
requests, that `TypeOK` (`TypeCorrect`), `PasswordUsable` (`PasswordsUsable`),
`PushGoesToClient` (`PushesGoToClients`), `EndedStaysEnded` (`EndedSessionsStayEnded`)
and `SaveServes` (`SavesAreServed`) hold of `Spec`. The invariant `IInv` adds to the
type invariant: a process that is down has no request (`Down`); the client a push looked
for and the repository a save was given are there (`Served`); a value is stored under at most the layers that the
crypto in use can take off, also the one a request holds (`Layers`); nobody else saves
beside a request that saves alone (`Alone`), and what the place of such a
save says of the row, the work directory and the two clients (`Saves`); while no save
installs its client and nothing is adrift, the work directory belongs to the client
both use (`Settled`), and so to the client of every calm push; what is stored was typed
last unless it was overtaken, and a fresh edit that keeps it holds the same (`Recorded`,
`Kept`); and only sessions that were given are in use,
looked at or ended (`Given`). Each action is shown to keep the
first eight parts in a lemma of its own; the sessions, which touch nothing else, are
treated apart.

`ArchiveProofs` proves of `Archive`, with any number of archives and syncs:

- `TypeCorrect`, `RemoteOnlyGrows`: `TypeOK` and `RemoteGrows` of `Spec`, overlaps
  included. The invariant `BaseInv` says that every branch is a set of commits with one
  youngest, of which each step adds to one or replaces the local one (`GitInv`), and
  counts the rows (`RowsInv`);
- `OneVersionIsCurrent`: `OneCurrent` of `Spec`. It needs no more of the state than `BaseInv`: a
  step keeps one version current unless a request that names another project sets one
  (`StepCurrent`), and `strayed` remembers every such request;
- `LoggedArePushed` and `ArchiveDelivers`: `LoggedIsPushed`, and that the archive
  implements `Delivery` (its initial states map to initial states, its steps to steps
  or stutters), of `SerialSpec`, which is `Spec` restricted to behaviours in which no
  two users of the work directory overlap. This is what `ArchiveOverlap` shows to be
  needed. The invariant `SerialInv` orders what the work directory holds: the head of
  the local branch is within the index and the index within the files, the head of
  the remote is within the local one unless somebody else has pushed (`Layered`), and
  the only caller has staged and committed what its place says (`Faithful`); what the
  log and the request in its transaction claim is on the remote (`InHand`);
- `BumpsAlwaysDiffer`: `BumpsDiffer` of `Spec`, whose own premise `~mixed` is that no two
  archives have held a version to bump at once and nobody made one current by hand (an
  older one that is chosen would be bumped again). The premise of the theorem
  `BumpsClimb` is that the first `MaxVersion` versions bumped from none differ, as 0.0.1,
  0.0.2 and so on do. The invariant `Climbed` says how far the project is on this ladder:
  after `b` bumps the `b`-th version is current and held by the archive that bumps next,
  and the log has no other than the first `b`. The work directory plays no part in it.

`PendingProofs` proves of `Pending`, for any function of titles and any number of scripts,
requests and syncs, `TypeOK` (`TypeCorrect`) and `ShownIfApart` (`ScriptsAreShown`). The
invariant adds that nothing is at work on a script that was not created (`Fresh`); that a
sync writes the file of its script's id or the one it was created in (`Paths`); and, of a
script whose users keep apart, that at most one is at work (`Alone`), that what this one
read is the row, that what it will commit is the row in its file, and that between syncs
the file is up to date in both directories (`Tracked`). A sync of another script writes
elsewhere (`OthersWriteElsewhere`), so neither its order nor a commit that its failed push
left behind matters.

`ExecutorProofs` proves of `Executor`, for a script of any length, `TypeOK`
(`TypeCorrect`), `RunsAsWritten` (`InOrder`), `KeptAsWritten` (`Kept`) and
`FailureHasReason` (`FailsForAReason`). What splitter and server do with a text are
recursive functions over its runes, so facts about them are proved by taking the least
position that would violate them (`WFMin`, with `NatLessThanWellFounded`), which needs no
induction theorem with an operator parameter. The main lemma, `PieceRead`, is that the
server reads a piece as it reads the text the piece was cut from. The inductive invariant
(`Inductive`) says that splitter and server are in the same mode wherever they read alike
(`InStep`); that the pieces hold the statements before the cut, whole and in order, and
that the text since then is blank as far as no statement has begun (`Order`, `NoDashes`,
`BlankSoFar`); that what has run, what is in the packet and what is still to be sent are
three consecutive parts of the script's statements (`Progress`); what the database holds
of them (`DbOK`); and what each failure has seen (`Reason`).

So every invariant and every action property that a passing run checks is stated by a
theorem. Only model-checked is liveness, whose proofs need ENABLED: `PendingResolved`,
`LockReleased` and `Returns`. The theorems of `SerialSpec` and
of `ApartSpec` speak of behaviours that users may keep to and the code does not
enforce: `ArchiveOverlap` and `ExecutionEditRace` show what happens in others, where an
edit also takes the mark of a script that ran away again, and section 5 says it of bumps.

## 5. Known departures, what is not modelled, and the plan

Departures that the models contain and no run is about, because no document promises
otherwise or because a property is stated for the other cases only:

- A crash during a push leaves a record pending: nothing looks for it at start-up.
  `PendingResolved` is checked without crashes.
- `checkAllScriptsExecuted` compares two counts that are not joined. With a successful
  record of a script that was removed from the release, the release may be promoted
  although one of its scripts never ran. `PromotesOnlyAllExecuted` excludes this case.
- Two archives with a bump that overlap read the same current version and create it
  twice; and after an older version was chosen by hand a bump makes the next one again.
  `BumpsDiffer` speaks of histories without either (`mixed`), and of bumps alone: nothing
  stops a bump from making a version that somebody has typed before.
- The project of a version that is made current comes from the form, is not checked
  against the version's, and is 0 if it does not parse (`version.go:88`): another project
  is then left without a current version, and the version's own may have two, of which
  an archive bumps one. `OneCurrent` names the case (`strayed`); the page always sends
  the right project.
- Nothing forbids that a push, a mark or a rename that began before takes an archived
  release back to executing. `ExecutingJustified` says only that it had a reason.
- A semicolon in a `#` comment cuts the comment: its rest is sent as a statement. So
  does one in a dash comment, if the splitter has lost its way before, say in a back
  quoted name with a quote in it. `CutSafe` names the scripts that are safe from it.
- A connection that died between two statements is replaced without an error. If the
  script had a transaction open, what it did is lost and the result is a success.
- After a save that failed half way, saves that overlap, or a start with another
  configuration, the work directory may be a clone of another repository than the
  client's (`adrift`), and commits go there.
- The form that saves the Git configuration does not replace the client; the page's
  AJAX request does.
- A push that opens the work directory while a save has removed it and not yet set both
  clients may commit to the other repository. `PushGoesToClient` leaves this window out
  (`calm`).
- An edit of a datasource with a blank password writes back the one it read, and a
  save of the Git configuration the token: one saved meanwhile is lost, where TC-DS-04
  and the form promise that a blank field changes nothing. `PasswordUsable` names the
  case (`overtaken`) and then claims only that what is stored decrypts.
- A request that found its session before a log-out is served after it.
- If the settings cannot be read at start-up, the process runs on `config.yaml`.
- A shutdown waits ten seconds for handlers, and not for the goroutines that sync.
- `db.Open` sends `PRAGMA foreign_keys=ON` to one connection, and `db.go:3-4` says that
  every connection enforces foreign keys. Requests that overlap get connections that do
  not check, and there a project is deleted with its rows still there, or a row is
  created for one that is gone. With `INVARIANT NoDangling` and one row per table,
  `StorageClean` shows it.
- The struct of a new script keeps the id 0, so `createScript` syncs it to
  `0_<title>.sql` (`script.go:172`, `318`), and of titles in other than ASCII characters
  `sanitizeFileTitle` leaves nothing. Two new scripts of a project whose titles become
  one name overwrite each other in the pending directory until they are edited, where
  `README.md:40` of the repository promises a file of each. `ShownIfApart` names the case.
- The comment at `project.go:287` calls the status of a release in an environment the
  worst of its scripts'; the query takes the latest, as the README promises.
- A script that is renamed, moved or deleted leaves its old file in the pending directory,
  and two edits of a script that overlap may be committed in the other order.

Not modelled: the effect of creating or deleting a script or a release on requests in
flight (`Storage` has the rows, `Execution` the requests; `Pending` has both, for the files
of scripts); the exports; the headers of files; the datasource of a push; what
`bumpPatchVersion` makes of a version that is not three numbers; column upgrades; the
busy timeout of the pool other than as a write that is lost; a change of the
encryption key; SQL that the server reads otherwise than in its default mode, and
`/*! ... */`; and everything marked `not_modelled` in `PROJECT.json`. The
dashboard, the roadmap of a project and the other pages that only read are left out for
good.

Next, in this order: the text of an archived script against the one in Git, in
`Archive`; and `bumpPatchVersion` and `filterScriptsByIDs` against reference
definitions.

## 6. Running

    tlc -workers 2 -config ExecutionRace.cfg MCExecution
    tlapm ExecutionProofs.tla
    tlapm StorageProofs.tla
    tlapm ServerProofs.tla
    tlapm ArchiveProofs.tla
    tlapm PendingProofs.tla
    tlapm ExecutorProofs.tla

Each `.cfg` names its run; the `Execution*` ones go with `MCExecution`, the `Archive*`
ones with `MCArchive`, the `Storage*` ones with `MCStorage`, the `Server*` ones with
`MCServer`, the `Pending*` ones with `MCPending`, and `Executor.cfg` with `MCExecutor`. The longest takes
about three minutes.
