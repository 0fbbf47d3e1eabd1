------------------------------- MODULE Archive -------------------------------
(***************************************************************************)
(* ArchiverImpl.Archive (internal/archive/archiver.go) beside edits whose  *)
(* goroutines sync the pending directory, and beside version changes.      *)
(*                                                                         *)
(* The transaction's rows are invisible until it commits, so they appear   *)
(* at once in CommitTx; what counts before is when it takes the write lock *)
(* of SQLite: before the Git push if the version is bumped, after it if    *)
(* not.  One project; which scripts a release links is fixed (Execution    *)
(* changes it).                                                            *)
(***************************************************************************)
EXTENDS GitClient

CONSTANTS
  Script, Release,
  Linked,      \* Linked[r]: scripts of release r
  Request,     \* requests that may be in flight at once
  Sync,        \* goroutines of pushScriptToPending that may be alive at once
  Version,     \* version strings
  NoVersion,   \* the project has no current version: ""
  Bump,        \* bumpPatchVersion
  NoRequest,   \* nobody holds the write lock
  MaxVersion,  \* bound: project_version rows ever created
  MaxLog       \* bound: archive_log rows ever created

ASSUME CallAssumption    == Call = Request \cup Sync /\ Request \cap Sync = {}
ASSUME PathAssumption    == Path = {"archived", "pending"} \X Script
ASSUME LinkedAssumption  == Linked \in [Release -> SUBSET Script]
ASSUME VersionAssumption == Bump \in [Version \cup {NoVersion} -> Version]
ASSUME LockAssumption    == NoRequest \notin Request
ASSUME ArchiveBoundAssumption == MaxVersion \in Nat /\ MaxLog \in Nat

VARIABLES
  script,      \* sql_script: status and content
  release,     \* sql_release: status
  versions,    \* project_version: the rows of the project
  log,         \* archive_log: the rows, each with the files it speaks of
  pom,         \* project.pom_version_current
  lock,        \* the request whose transaction holds the write lock
  req,         \* local state of every request
  mixed,       \* history: two bumps met, or a version was chosen by hand
  strayed      \* history: one was chosen in the name of another project

rows == <<script, release, versions, log, pom>>
archiveVars == <<rows, lock, req>>
system == <<gitVars, archiveVars>>
vars == <<system, mixed, strayed>>

-----------------------------------------------------------------------------
ScriptRow  == [status : {"draft", "executed", "archived"}, content : Text]
VersionRow == [id : 1 .. MaxVersion, version : Version, current : BOOLEAN]
LogRow     == [id : 1 .. MaxLog, release : Release, hash : CommitId, bump : BOOLEAN,
               from : Version \cup {NoVersion}, to : Version \cup {NoVersion},
               files : Files]

\* What an archive has read: the text of every script of the release.
Texts == UNION {[scripts -> Text] : scripts \in SUBSET Script}
ArchiveLocal ==
  [at : {"version"}, release : Release, texts : Texts, bump : BOOLEAN]
  \cup [at : {"begin", "git", "pushing"}, release : Release, texts : Texts,
        bump : BOOLEAN, from : Version \cup {NoVersion}]
  \cup [at : {"record", "commit"}, release : Release, texts : Texts, bump : BOOLEAN,
        from : Version \cup {NoVersion}, hash : CommitId]
EditLocal    == [at : {"save"}, script : Script, row : ScriptRow]
CurrentLocal == [at : {"setCurrent"}, id : 0 .. MaxVersion, clears : BOOLEAN]
Idle         == [at |-> "idle"]

TypeOK ==
  /\ GitTypeOK
  /\ script \in [Script -> ScriptRow]
  /\ release \in [Release -> {"published", "executing", "archived"}]
  /\ versions \subseteq VersionRow
  /\ log \subseteq LogRow
  /\ pom \in Version \cup {NoVersion}
  /\ lock \in Request \cup {NoRequest}
  /\ req \in [Request -> ArchiveLocal \cup EditLocal \cup CurrentLocal \cup {Idle}]
  /\ mixed \in BOOLEAN /\ strayed \in BOOLEAN

Init ==
  /\ GitInit
  /\ script \in [Script -> [status : {"draft"}, content : Text]]
  /\ release = [r \in Release |-> "published"]
  /\ versions = {} /\ log = {}
  /\ pom = NoVersion
  /\ lock = NoRequest
  /\ req = [q \in Request |-> Idle]
  /\ mixed = FALSE /\ strayed = FALSE

At(q, place) == req[q].at = place
Goto(q, l) == req' = [req EXCEPT ![q] = l]
Answer(q) == Goto(q, Idle)
Free == lock = NoRequest

\* Fault: the files are written beside those of the drafts.
PendingFiles(texts) ==
  [p \in {<<"pending", s>> : s \in DOMAIN texts} |-> texts[p[2]]]

\* generateSQLFiles: one file for every script, its header left out.
ArchivedFiles(texts) ==
  [p \in {<<"archived", s>> : s \in DOMAIN texts} |-> texts[p[2]]]

-----------------------------------------------------------------------------
(* Archiving a release.                                                    *)

\* 1.-3. Load the release and its scripts; no status is looked at.
BeginArchive(q, r, bump) ==
  /\ At(q, "idle")
  /\ Linked[r] # {}
  /\ Goto(q, [at |-> "version", release |-> r, bump |-> bump,
              texts |-> [s \in Linked[r] |-> script[s].content]])
  /\ UNCHANGED <<gitVars, rows, lock>>

CurrentVersions == {v.version : v \in {w \in versions : w.current}}

\* 4. Read the current version, outside of the transaction.
ReadVersion(q) ==
  /\ At(q, "version")
  /\ \E v \in IF CurrentVersions = {} THEN {NoVersion} ELSE CurrentVersions :
       Goto(q, [at |-> IF req[q].bump THEN "begin" ELSE "git", release |-> req[q].release,
                texts |-> req[q].texts, bump |-> req[q].bump, from |-> v])
  /\ UNCHANGED <<gitVars, rows, lock>>

\* 5. The version bump is the transaction's first write: it takes the lock.
BumpVersion(q) ==
  /\ At(q, "begin")
  /\ Free
  /\ lock' = q
  /\ Goto(q, [req[q] EXCEPT !.at = "git"])
  /\ UNCHANGED <<gitVars, rows>>

\* 6. Commit and push the files, whoever holds the lock.
CallGit(q) ==
  /\ At(q, "git")
  /\ CommitAndPush(q, ArchivedFiles(req[q].texts))
  /\ Goto(q, [req[q] EXCEPT !.at = "pushing"])
  /\ UNCHANGED <<repository, reinit, rows, lock>>

\* The call has returned a hash.
GitReturns(q) ==
  /\ At(q, "pushing")
  /\ CallAt(q, "pushed")
  /\ Goto(q, [at |-> "record", release |-> req[q].release, texts |-> req[q].texts,
              bump |-> req[q].bump, from |-> req[q].from, hash |-> call[q].hash])
  /\ Become(q, [at |-> "idle"])
  /\ UNCHANGED <<repository, reinit, rows, lock>>

\* 7. Insert the archive_log row: without a bump, the first write.
InsertLog(q) ==
  /\ At(q, "record")
  /\ lock \in {q, NoRequest}
  /\ lock' = q
  /\ Goto(q, [req[q] EXCEPT !.at = "commit"])
  /\ UNCHANGED <<gitVars, rows>>

VersionTo(l) == IF l.bump THEN Bump[l.from] ELSE l.from
NextId(table) == Cardinality(table) + 1

\* Fault: the row of the bump is inserted like one made by hand.
BumpedNotCurrent(table, v) ==
  table \cup {[id |-> NextId(table), version |-> v, current |-> FALSE]}

\* The rows of the bump: nothing is current but the new one.
Bumped(table, v) ==
  {[w EXCEPT !.current = FALSE] : w \in table}
  \cup {[id |-> NextId(table), version |-> v, current |-> TRUE]}

\* 8.-10. Update the statuses and commit: all rows of the transaction appear.
CommitTx(q) ==
  /\ At(q, "commit")
  /\ NextId(log) <= MaxLog
  /\ log' = log \cup {[id |-> NextId(log), release |-> req[q].release,
                       hash |-> req[q].hash, bump |-> req[q].bump,
                       from |-> req[q].from, to |-> VersionTo(req[q]),
                       files |-> ArchivedFiles(req[q].texts)]}
  /\ release' = [release EXCEPT ![req[q].release] = "archived"]
  /\ script' = [s \in Script |-> IF s \in DOMAIN req[q].texts
                                   THEN [script[s] EXCEPT !.status = "archived"]
                                   ELSE script[s]]
  /\ IF req[q].bump
       THEN /\ NextId(versions) <= MaxVersion
            /\ versions' = Bumped(versions, VersionTo(req[q]))
            /\ pom' = VersionTo(req[q])
       ELSE UNCHANGED <<versions, pom>>
  /\ lock' = NoRequest
  /\ Answer(q)
  /\ UNCHANGED gitVars

\* Fault: the transaction is left open.
RollbackForgotten(q) ==
  /\ \/ At(q, "pushing") /\ CallAt(q, "failed") /\ Become(q, [at |-> "idle"])
     \/ /\ At(q, "begin") \/ At(q, "record") \/ At(q, "commit")
        /\ MayFail \/ (lock # NoRequest /\ lock # q)
        /\ UNCHANGED call
  /\ Answer(q)
  /\ UNCHANGED <<repository, reinit, rows, lock>>

\* The push failed; or a statement did, for one because the lock was busy
\* for too long.  The transaction is rolled back and the lock released.
RollbackTx(q) ==
  /\ \/ At(q, "pushing") /\ CallAt(q, "failed") /\ Become(q, [at |-> "idle"])
     \/ /\ At(q, "begin") \/ At(q, "record") \/ At(q, "commit")
        /\ MayFail \/ (lock # NoRequest /\ lock # q)
        /\ UNCHANGED call
  /\ lock' = IF lock = q THEN NoRequest ELSE lock
  /\ Answer(q)
  /\ UNCHANGED <<repository, reinit, rows>>

-----------------------------------------------------------------------------
(* Editing a script and syncing it to the pending directory.               *)

BeginEdit(q, s) ==
  /\ At(q, "idle")
  /\ script[s].status = "draft"
  /\ Goto(q, [at |-> "save", script |-> s, row |-> script[s]])
  /\ UNCHANGED <<gitVars, rows, lock>>

\* Fault: the row is rebuilt from the form, which has no status.
SaveForm(q, c, g) ==
  /\ At(q, "save")
  /\ Free
  /\ script' = [script EXCEPT ![req[q].script] = [status |-> "", content |-> c]]
  /\ CallAt(g, "idle")
  /\ CommitAndPush(g, [p \in {<<"pending", req[q].script>>} |-> c])
  /\ Answer(q)
  /\ UNCHANGED <<repository, reinit, release, versions, log, pom, lock>>

\* The row is saved and a goroutine is started that pushes its text.
SaveEdit(q, c, g) ==
  /\ At(q, "save")
  /\ Free
  /\ script' = [script EXCEPT ![req[q].script] = [req[q].row EXCEPT !.content = c]]
  /\ CallAt(g, "idle")
  /\ CommitAndPush(g, [p \in {<<"pending", req[q].script>>} |-> c])
  /\ Answer(q)
  /\ UNCHANGED <<repository, reinit, release, versions, log, pom, lock>>

\* The row is not saved: the database is busy or fails.
LoseEdit(q) ==
  /\ At(q, "save")
  /\ MayFail \/ ~Free
  /\ Answer(q)
  /\ UNCHANGED <<gitVars, rows, lock>>

\* pushScriptToPending ends, with a hash or an error: nobody is told.
EndSync(g) ==
  /\ CallAt(g, "pushed") \/ CallAt(g, "failed")
  /\ Become(g, [at |-> "idle"])
  /\ UNCHANGED <<repository, reinit, archiveVars>>

-----------------------------------------------------------------------------
(* Versions created and chosen by hand.                                    *)

\* createVersion inserts a row that is not current; then, if asked to, the
\* handler goes on with SetCurrent.
CreateVersion(q, v, current) ==
  /\ At(q, "idle")
  /\ Free
  /\ NextId(versions) <= MaxVersion
  /\ versions' = versions \cup {[id |-> NextId(versions), version |-> v,
                                 current |-> FALSE]}
  /\ IF current THEN Goto(q, [at |-> "setCurrent", id |-> NextId(versions),
                              clears |-> TRUE])
                ELSE UNCHANGED req
  /\ UNCHANGED <<gitVars, script, release, log, pom, lock>>

\* Fault: the version that was current stays current.
SetCurrentToo(q) ==
  /\ At(q, "setCurrent")
  /\ Free
  /\ versions' = {[v EXCEPT !.current = @ \/ v.id = req[q].id] : v \in versions}
  /\ Answer(q)
  /\ UNCHANGED <<gitVars, script, release, log, pom, lock>>

\* VersionRepo.SetCurrent, a transaction of its own; its error is ignored.  It
\* clears the project that the request names and sets the version it names.
SetCurrent(q) ==
  /\ At(q, "setCurrent")
  /\ \/ /\ Free
        /\ versions' = {[v EXCEPT !.current = v.id = req[q].id \/ (@ /\ ~req[q].clears)] :
                          v \in versions}
     \/ /\ MayFail \/ ~Free
        /\ UNCHANGED versions
  /\ Answer(q)
  /\ UNCHANGED <<gitVars, script, release, log, pom, lock>>

\* setCurrentVersion: nobody looks whether the version of the address and the
\* project of the form (0, if it does not parse) belong together.  Of this
\* project it may name both; the version, with another project; or the project,
\* with another's version, whose id stands as 0.
BeginSetCurrent(q, id, clears) ==
  /\ At(q, "idle")
  /\ id # 0 \/ clears
  /\ Goto(q, [at |-> "setCurrent", id |-> id, clears |-> clears])
  /\ UNCHANGED <<gitVars, rows, lock>>

-----------------------------------------------------------------------------
\* The process dies: requests and goroutines are gone, SQLite rolls back.
Crash ==
  /\ MayFail
  /\ GitCrash
  /\ req' = [q \in Request |-> Idle]
  /\ lock' = NoRequest
  /\ UNCHANGED rows

ArchiveStep(q) ==
  \/ ReadVersion(q) \/ BumpVersion(q) \/ CallGit(q) \/ GitReturns(q)
  \/ InsertLog(q) \/ CommitTx(q) \/ RollbackTx(q)
OtherStep(q) ==
  \/ \E c \in Text, g \in Sync : SaveEdit(q, c, g)
  \/ LoseEdit(q)
  \/ SetCurrent(q)
GitRuns(c) == GitStep(c) /\ UNCHANGED archiveVars
GitConfigured == ReinitStep /\ UNCHANGED archiveVars
GitPushedElsewhere == OutsiderPush /\ UNCHANGED archiveVars
Ask(q) ==
  \/ \E r \in Release, bump \in BOOLEAN : BeginArchive(q, r, bump)
  \/ \E s \in Script : BeginEdit(q, s)
  \/ \E v \in Version, current \in BOOLEAN : CreateVersion(q, v, current)
  \/ \E id \in {0} \cup {v.id : v \in versions}, clears \in BOOLEAN :
       BeginSetCurrent(q, id, clears)

Step ==
  \/ \E q \in Request : ArchiveStep(q) \/ OtherStep(q) \/ Ask(q)
  \/ \E c \in Call : GitRuns(c)
  \/ \E g \in Sync : EndSync(g)
  \/ GitConfigured \/ GitPushedElsewhere
  \/ Crash

-----------------------------------------------------------------------------
(* What the history variables remember of the requests that were at work.  *)

\* Request q has read the version that its transaction will bump.
Bumping(q) ==
  /\ req[q].at \in {"begin", "git", "pushing", "record", "commit"}
  /\ req[q].bump

\* No two archives hold a version to bump at once, and nobody makes a version
\* current by hand.
BumpsApart ==
  /\ \A p, q \in Request : Bumping(p) /\ Bumping(q) => p = q
  /\ \A q \in Request : ~At(q, "setCurrent")

\* Request q makes a version of this project current, and clears another one.
Strays(q) == At(q, "setCurrent") /\ ~req[q].clears

Remember ==
  /\ mixed' = (mixed \/ ~BumpsApart)
  /\ strayed' = (strayed \/ \E q \in Request : Strays(q))

-----------------------------------------------------------------------------
Next == Step /\ Remember

Spec == Init /\ [][Next]_vars

\* The behaviours in which no two users of the work directory overlap.
SerialSpec == Init /\ [][Next /\ Serial']_vars

\* A handler and a goroutine that have begun go on, and so does CommitAndPush:
\* every call over the network is assumed to return, for the code sets it no
\* limit of time.
Fairness ==
  /\ \A q \in Request : WF_system(ArchiveStep(q) \/ OtherStep(q))
  /\ \A c \in Call : WF_system(GitRuns(c))
  /\ \A g \in Sync : WF_system(EndSync(g))
  /\ WF_system(CloneAgain /\ UNCHANGED archiveVars)
FairSpec == Spec /\ Fairness

-----------------------------------------------------------------------------
(* Safety.                                                                 *)

\* TC-ARCH-01, "Git 仓库新增 .sql 文件 ..., archive_log 记录生成": the commit that a
\* row of archive_log names is on the remote and holds the texts the archive
\* read, whatever earlier calls left behind in the work directory, whichever
\* pushes failed or were answered too late, and whoever else pushes.
LoggedIsPushed == \A l \in log : l.hash \in remote /\ Holds(l.hash, l.files)

\* TC-VER-02, "该版本标记为当前，其他版本取消": however archives that bump it and
\* versions chosen by hand interleave, a project never has two current versions
\* (Archive reads it without LIMIT 1), unless somebody has chosen one of its
\* versions in the name of another project, as the page never does.
OneCurrent == ~strayed => \A v, w \in versions : v.current /\ w.current => v = w

\* TC-ARCH-01, "版本号递增": as long as no two archives have held a version to bump
\* at once (each reads it before the transaction that bumps it) and nobody has
\* made a version current by hand, no two archives bump to the same one.  With
\* either they may, and so may they after a clean-up of versions, which is left
\* to Storage; what people type by hand may repeat a version at any time.
BumpsDiffer == ~mixed => \A l, m \in log : l.bump /\ m.bump /\ l # m => l.to # m.to

\* No step of anyone takes a commit off the remote.
RemoteGrows == [][remote \subseteq remote']_vars

-----------------------------------------------------------------------------
(* Bumps that keep apart.                                                  *)

\* The versions that bumping gives a project, one after the other, beginning
\* with none: 0.0.1, 0.0.2, and so on.
BumpedInTurn(nth) ==
  /\ nth \in [0 .. MaxVersion -> Version \cup {NoVersion}]
  /\ nth[0] = NoVersion
  /\ \A n \in 1 .. MaxVersion : nth[n] = Bump[nth[n - 1]]

\* They all differ: bumpPatchVersion adds one to the patch, until int wraps.
BumpsClimb == \E nth : /\ BumpedInTurn(nth)
                      /\ \A m, n \in 1 .. MaxVersion : nth[m] = nth[n] => m = n

\* After b bumps the b-th version is the current one, the archive that bumps
\* next holds it, and the log has the first b versions.
AtBump(nth, b) ==
  /\ b # 0 => \E v \in versions : v.current
  /\ \A v \in versions : v.current => v.version = nth[b]
  /\ \A q \in Request : Bumping(q) => req[q].from = nth[b]
  /\ \A l \in log : l.bump => \E k \in 1 .. b : l.to = nth[k]

Climbed(nth) == \E b \in 0 .. Cardinality(versions) : AtBump(nth, b)

-----------------------------------------------------------------------------
(* What archiving promises as a whole.                                     *)

HeadHolds(s) == HeadTree(remote)[<<"archived", s>>] # NoText

Delivery == INSTANCE Delivery WITH
  delivered <- {s \in Script : HeadHolds(s)},
  recorded  <- {l.release : l \in log}

DeliverySpec == Delivery!Spec

-----------------------------------------------------------------------------
(* Liveness.                                                               *)

\* The write lock that an archive holds while it pushes is released again,
\* whether the push or a statement fails or not: nobody else can write to the
\* database before (tx.Rollback is deferred, archiver.go:226).
LockReleased == lock # NoRequest ~> lock = NoRequest
=============================================================================
