------------------------------ MODULE Execution ------------------------------
(***************************************************************************)
(* The life of scripts, releases and execution records under concurrent    *)
(* HTTP handlers (internal/web/execution.go, script.go, release.go).       *)
(*                                                                         *)
(* Every request runs in a goroutine of its own and shares nothing but the *)
(* metadata database, so a step of this module is one database access of   *)
(* one request, or one call of the SQL executor.  What a request has read  *)
(* and still holds in local variables is its entry in req.                 *)
(*                                                                         *)
(* The target database and the datasource of a push are abstracted to the  *)
(* outcome the executor reports and to whether the whole script took       *)
(* effect; foreign keys never bite here because no parent row is deleted.  *)
(***************************************************************************)
EXTENDS Integers, FiniteSets

CONSTANTS
  Script,      \* ids of sql_script rows
  Release,     \* ids of sql_release rows
  Content,     \* texts a script may have
  Request,     \* requests that may be in flight at once
  Stored,      \* outcomes of a statement whose error the code ignores
  MayCrash,    \* may the process stop and start again?
  MaxRecord,   \* bound: execution records ever created
  MaxLink,     \* bound: release_script rows ever created
  NoRecord,    \* an execution record not created yet, or deleted
  NotRun       \* the executor was not called for this record

ASSUME StoredAssumption   == Stored \subseteq BOOLEAN /\ TRUE \in Stored
ASSUME CrashAssumption    == MayCrash \in BOOLEAN
ASSUME BoundAssumption    == MaxRecord \in Nat /\ MaxLink \in Nat

VARIABLES
  script,      \* sql_script: status and content of every script
  release,     \* sql_release: status of every release
  link,        \* release_script: the rows, in id order
  nextLink,    \* AUTOINCREMENT of release_script
  record,      \* execution_record by id
  nextRecord,  \* AUTOINCREMENT of execution_record
  req,         \* local state of every request in flight
  ran,         \* history: what the executor did for a record
  vouched      \* history: (release, script) somebody marked successful by hand

vars == <<script, release, link, nextLink, record, nextRecord, req, ran, vouched>>
db == <<script, release, link, nextLink, record, nextRecord>>
history == <<ran, vouched>>

-----------------------------------------------------------------------------
(* The rows of the database and the local states of requests.              *)

ScriptStatus  == {"draft", "executed", "archived"}
ReleaseStatus == {"draft", "published", "executing", "archived"}
ExecStatus    == {"pending", "success", "failed"}
MarkMethod    == {"auto", "manual"}

RecordId  == 1 .. MaxRecord
ScriptRow == [status : ScriptStatus, content : Content]
RecordRow == [release : Release, script : Script,
              status : ExecStatus, mark : MarkMethod]
LinkRow   == [id : Nat, release : Release, script : Script]
Run       == [release : Release, script : Script, content : Content, full : BOOLEAN]

ASSUME NotRunAssumption == NotRun \notin Run

\* A model.SQLScript in a local variable; a planned one knows its link row.
Snapshot == [script : Script, status : ScriptStatus, content : Content]
Planned  == [link : Nat, row : Snapshot]

\* A push holds the slice it ranges over and what is left of it; within an
\* iteration also the element, its record and the executor's verdict.
LoopLocal == [at : {"create"}, release : Release, plan : SUBSET Planned,
              todo : SUBSET Planned, ok : BOOLEAN]
BodyAt    == {"execute", "result", "script"}
BodyLocal == [at : BodyAt, release : Release, plan : SUBSET Planned,
              todo : SUBSET Planned, ok : BOOLEAN, row : Snapshot,
              rec : RecordId, success : BOOLEAN]
MarkLocal == [at : {"load"}, rec : RecordId]
             \cup [at : {"write"}, row : Snapshot, release : Release]
             \cup [at : {"countLinks"}, release : Release]
             \cup [at : {"countRecords"}, release : Release, total : Nat]
             \cup [at : {"promote"}, release : Release]
EditLocal    == [at : {"save"}, row : Snapshot]
RenameLocal  == [at : {"rename"}, release : Release, status : ReleaseStatus]
PublishLocal == [at : {"publish"}, release : Release]
ArchiveLocal == [at : {"archive"}, release : Release, scripts : SUBSET Script]
Idle         == [at |-> "idle"]

Local == {Idle} \cup LoopLocal \cup BodyLocal \cup MarkLocal \cup EditLocal
         \cup RenameLocal \cup PublishLocal \cup ArchiveLocal

\* The history variables and the bounds are as real as the rows they follow.
TypeOK ==
  /\ script \in [Script -> ScriptRow]
  /\ release \in [Release -> ReleaseStatus]
  /\ link \subseteq LinkRow /\ IsFiniteSet(link)
  /\ nextLink \in Nat
  /\ record \in [RecordId -> RecordRow \cup {NoRecord}]
  /\ nextRecord \in Nat \ {0}
  /\ req \in [Request -> Local]
  /\ ran \in [RecordId -> Run \cup {NotRun}]
  /\ vouched \subseteq Release \X Script

Init ==
  /\ script \in [Script -> [status : {"draft"}, content : Content]]
  /\ release = [r \in Release |-> "draft"]
  /\ link = {}
  /\ nextLink = 1
  /\ record = [i \in RecordId |-> NoRecord]
  /\ nextRecord = 1
  /\ req = [q \in Request |-> Idle]
  /\ ran = [i \in RecordId |-> NotRun]
  /\ vouched = {}

-----------------------------------------------------------------------------
(* The repositories: what a query returns and what a statement writes.     *)

\* ScriptRepo.Get
Load(s) == [script |-> s, status |-> script[s].status, content |-> script[s].content]

\* ScriptRepo.Update rewrites every column of the row from the snapshot.
UpdateScript(row, status) ==
  script' = [script EXCEPT ![row.script] = [status |-> status, content |-> row.content]]

LinksOf(r) == {l \in link : l.release = r}

\* ReleaseRepo.ListScripts: one joined row per link, a duplicate included.
ListScripts(r) == {[link |-> l.id, row |-> Load(l.script)] : l \in LinksOf(r)}

\* The loop over the slice takes the rows in the order of their link ids.
IsFirst(t, todo) == \A u \in todo : t.link <= u.link

\* Fault: the status the enum has for manual marks is written.
MarkManualEnum(i, status) ==
  record' = [record EXCEPT ![i].status = "manual_marked", ![i].mark = "manual"]

\* ExecutionRepo.MarkManual on an existing record.
MarkManual(i, status) ==
  record' = [record EXCEPT ![i].status = status, ![i].mark = "manual"]

\* UPDATE sql_release SET status = ? WHERE id = ?, its error ignored.
SetRelease(r, status) ==
  \E stored \in Stored :
    release' = IF stored THEN [release EXCEPT ![r] = status] ELSE release

At(q, place) == req[q].at = place
Goto(q, local) == req' = [req EXCEPT ![q] = local]

-----------------------------------------------------------------------------
(* Pushing a release to a datasource: pushExecute and ajaxPushExecute.     *)

Pushing(q) == req[q].at \in {"create"} \cup BodyAt

\* The state of the push at the head of its loop.
Loop(q, todo, ok) ==
  [at |-> "create", release |-> req[q].release, plan |-> req[q].plan,
   todo |-> todo, ok |-> ok]

\* Bound: the records the pushes in flight may still create fit MaxRecord.
Outstanding == UNION {{<<q, t>> : t \in req[q].todo} : q \in {p \in Request : Pushing(p)}}
RoomFor(rows) ==
  Cardinality(Outstanding) + Cardinality(rows) <= MaxRecord + 1 - nextRecord

BeginPush(q, r, rows) ==
  /\ At(q, "idle")
  /\ rows # {}
  /\ RoomFor(rows)
  /\ Goto(q, [at |-> "create", release |-> r, plan |-> rows, todo |-> rows,
              ok |-> TRUE])
  /\ UNCHANGED <<db, history>>

\* pushExecute: all the scripts linked to the release.  No status is asked
\* of the release or of the scripts.
PushExecute(q, r) == BeginPush(q, r, ListScripts(r))

\* filterScriptsByIDs: every id must belong to the release, else an error.
FilterScripts(rows, ids) == {t \in rows : t.row.script \in ids}

\* ajaxPushExecute with script_ids: only the selected scripts.
AjaxPushExecute(q, r, ids) ==
  /\ ids # {}
  /\ ids \subseteq {t.row.script : t \in ListScripts(r)}
  /\ BeginPush(q, r, FilterScripts(ListScripts(r), ids))

\* ExecutionRepo.Create: the pending record exists before any SQL is sent.
CreateRecord(q) ==
  /\ At(q, "create")
  /\ nextRecord \in RecordId
  /\ \E t \in req[q].todo :
       /\ IsFirst(t, req[q].todo)
       /\ record' = [record EXCEPT ![nextRecord] =
                       [release |-> req[q].release, script |-> t.row.script,
                        status |-> "pending", mark |-> "auto"]]
       /\ Goto(q, [at |-> "execute", release |-> req[q].release,
                   plan |-> req[q].plan, todo |-> req[q].todo \ {t},
                   ok |-> req[q].ok, row |-> t.row, rec |-> nextRecord,
                   success |-> FALSE])
  /\ nextRecord' = nextRecord + 1
  /\ UNCHANGED <<script, release, link, nextLink, history>>

\* Fault: a script whose record could not be created counts as done.
SkipKeepsOk(q) ==
  /\ FALSE \in Stored
  /\ At(q, "create")
  /\ \E t \in req[q].todo :
       /\ IsFirst(t, req[q].todo)
       /\ Goto(q, Loop(q, req[q].todo \ {t}, req[q].ok))
  /\ UNCHANGED <<db, history>>

\* Create fails: the loop goes on with the next script.
SkipScript(q) ==
  /\ FALSE \in Stored
  /\ At(q, "create")
  /\ \E t \in req[q].todo :
       /\ IsFirst(t, req[q].todo)
       /\ Goto(q, Loop(q, req[q].todo \ {t}, FALSE))
  /\ UNCHANGED <<db, history>>

\* Fault: the executor goes on after a failed statement and reports success.
ExecutePastErrors(q) ==
  /\ At(q, "execute")
  /\ \E full, success \in BOOLEAN :
       /\ ran' = [ran EXCEPT ![req[q].rec] =
                    [release |-> req[q].release, script |-> req[q].row.script,
                     content |-> req[q].row.content, full |-> full]]
       /\ Goto(q, [req[q] EXCEPT !.at = "result", !.success = success])
  /\ UNCHANGED <<db, vouched>>

\* Executor.Execute runs the snapshot.  A reported success means that every
\* statement was applied; a reported failure may be a timeout that hides a
\* script the server applied in full.
ExecuteScript(q) ==
  /\ At(q, "execute")
  /\ \E full, success \in BOOLEAN :
       /\ success => full
       /\ ran' = [ran EXCEPT ![req[q].rec] =
                    [release |-> req[q].release, script |-> req[q].row.script,
                     content |-> req[q].row.content, full |-> full]]
       /\ Goto(q, [req[q] EXCEPT !.at = "result", !.success = success])
  /\ UNCHANGED <<db, vouched>>

\* Fault: a failed script is tried again under the same record.
RetryFailed(q) ==
  /\ At(q, "result")
  /\ UNCHANGED record
  /\ Goto(q, [req[q] EXCEPT !.at = IF req[q].success THEN "script" ELSE "execute"])
  /\ UNCHANGED <<script, release, link, nextLink, nextRecord, history>>

\* Fault: only a success is recorded.
RecordSuccessOnly(q) ==
  /\ At(q, "result")
  /\ record' = IF req[q].success /\ record[req[q].rec] # NoRecord
                 THEN [record EXCEPT ![req[q].rec].status = "success"]
                 ELSE record
  /\ Goto(q, IF req[q].success THEN [req[q] EXCEPT !.at = "script"]
                               ELSE Loop(q, req[q].todo, FALSE))
  /\ UNCHANGED <<script, release, link, nextLink, nextRecord, history>>

\* Fault: a failure does not reset allSuccess.
FailureKeepsOk(q) ==
  /\ At(q, "result")
  /\ record' = IF record[req[q].rec] # NoRecord
                 THEN [record EXCEPT ![req[q].rec].status =
                         IF req[q].success THEN "success" ELSE "failed"]
                 ELSE record
  /\ Goto(q, IF req[q].success THEN [req[q] EXCEPT !.at = "script"]
                               ELSE Loop(q, req[q].todo, req[q].ok))
  /\ UNCHANGED <<script, release, link, nextLink, nextRecord, history>>

\* ExecutionRepo.UpdateResult: status only, mark_method is left as it is.
\* The record may have been marked or deleted in the meantime.
RecordResult(q) ==
  /\ At(q, "result")
  /\ \E stored \in Stored :
       record' = IF stored /\ record[req[q].rec] # NoRecord
                   THEN [record EXCEPT ![req[q].rec].status =
                           IF req[q].success THEN "success" ELSE "failed"]
                   ELSE record
  /\ Goto(q, IF req[q].success THEN [req[q] EXCEPT !.at = "script"]
                               ELSE Loop(q, req[q].todo, FALSE))
  /\ UNCHANGED <<script, release, link, nextLink, nextRecord, history>>

\* Fault: only the status column is written, beside the text of a newer edit.
MarkStatusOnly(q) ==
  /\ At(q, "script")
  /\ script' = [script EXCEPT ![req[q].row.script].status = "executed"]
  /\ Goto(q, Loop(q, req[q].todo, req[q].ok))
  /\ UNCHANGED <<release, link, nextLink, record, nextRecord, history>>

\* Fault: the row is saved without its new status.
MarkNothing(q) ==
  /\ At(q, "script")
  /\ UpdateScript(req[q].row, req[q].row.status)
  /\ Goto(q, Loop(q, req[q].todo, req[q].ok))
  /\ UNCHANGED <<release, link, nextLink, record, nextRecord, history>>

\* scriptRepo.Update(&script): the row as it was when the push began, now
\* with status executed.
MarkExecuted(q) ==
  /\ At(q, "script")
  /\ \/ UpdateScript(req[q].row, "executed")
     \/ FALSE \in Stored /\ UNCHANGED script
  /\ Goto(q, Loop(q, req[q].todo, req[q].ok))
  /\ UNCHANGED <<release, link, nextLink, record, nextRecord, history>>

\* Fault: the release is promoted whether or not a script failed.
EndPushAlways(q) ==
  /\ At(q, "create")
  /\ req[q].todo = {}
  /\ SetRelease(req[q].release, "executing")
  /\ Goto(q, Idle)
  /\ UNCHANGED <<script, link, nextLink, record, nextRecord, history>>

\* The loop is over: the release becomes executing if no script failed.
EndPush(q) ==
  /\ At(q, "create")
  /\ req[q].todo = {}
  /\ IF req[q].ok THEN SetRelease(req[q].release, "executing") ELSE UNCHANGED release
  /\ Goto(q, Idle)
  /\ UNCHANGED <<script, link, nextLink, record, nextRecord, history>>

-----------------------------------------------------------------------------
(* Manual marks: manualMark and ajaxManualMark, and ajaxDeleteExecution.   *)

Vouch(i, status) ==
  vouched' = IF status = "success"
               THEN vouched \cup {<<record[i].release, record[i].script>>}
               ELSE vouched

\* manualMark touches the record only; so does an AJAX mark of a failure.
ManualMark(i, status) ==
  /\ record[i] # NoRecord
  /\ MarkManual(i, status)
  /\ Vouch(i, status)
  /\ UNCHANGED <<script, release, link, nextLink, nextRecord, req, ran>>

\* ajaxManualMark of a success goes on with the script and the release.
AjaxManualMark(q, i) ==
  /\ At(q, "idle")
  /\ record[i] # NoRecord
  /\ MarkManual(i, "success")
  /\ Vouch(i, "success")
  /\ Goto(q, [at |-> "load", rec |-> i])
  /\ UNCHANGED <<script, release, link, nextLink, nextRecord, ran>>

\* execRepo.Get fails if the record is gone, and the handler answers.
\* Otherwise scriptRepo.Get (the two reads are one step: a record keeps its
\* script); the script is written unless it is executed or was not read.
LoadMarked(q) ==
  /\ At(q, "load")
  /\ LET rec == record[req[q].rec] IN
     \/ /\ rec = NoRecord \/ FALSE \in Stored
        /\ Goto(q, Idle)
     \/ /\ rec # NoRecord
        /\ script[rec.script].status # "executed"
        /\ Goto(q, [at |-> "write", row |-> Load(rec.script), release |-> rec.release])
     \/ /\ rec # NoRecord
        /\ script[rec.script].status = "executed" \/ FALSE \in Stored
        /\ Goto(q, [at |-> "countLinks", release |-> rec.release])
  /\ UNCHANGED <<db, history>>

WriteMarked(q) ==
  /\ At(q, "write")
  /\ \/ UpdateScript(req[q].row, "executed")
     \/ FALSE \in Stored /\ UNCHANGED script
  /\ Goto(q, [at |-> "countLinks", release |-> req[q].release])
  /\ UNCHANGED <<release, link, nextLink, record, nextRecord, history>>

\* checkAllScriptsExecuted, first query: COUNT(*) of release_script.  Its
\* error, like that of the second query, means no.
CountLinks(q) ==
  /\ At(q, "countLinks")
  /\ LET total == Cardinality(LinksOf(req[q].release)) IN
     \/ /\ total = 0 \/ FALSE \in Stored
        /\ Goto(q, Idle)
     \/ /\ total # 0
        /\ Goto(q, [at |-> "countRecords", release |-> req[q].release, total |-> total])
  /\ UNCHANGED <<db, history>>

\* Second query: COUNT(DISTINCT script_id) of the successful records.
Succeeded(r) ==
  {record[i].script : i \in {j \in RecordId :
     /\ record[j] # NoRecord
     /\ record[j].release = r
     /\ record[j].status = "success"}}

\* Fault: the records are counted, not their scripts.
CountRows(q) ==
  /\ At(q, "countRecords")
  /\ LET rows == {i \in RecordId : /\ record[i] # NoRecord
                                  /\ record[i].release = req[q].release
                                  /\ record[i].status = "success"}
         enough == Cardinality(rows) >= req[q].total IN
     \/ /\ ~enough \/ FALSE \in Stored
        /\ Goto(q, Idle)
     \/ /\ enough
        /\ Goto(q, [at |-> "promote", release |-> req[q].release])
  /\ UNCHANGED <<db, history>>

CountRecords(q) ==
  /\ At(q, "countRecords")
  /\ LET enough == Cardinality(Succeeded(req[q].release)) >= req[q].total IN
     \/ /\ ~enough \/ FALSE \in Stored
        /\ Goto(q, Idle)
     \/ /\ enough
        /\ Goto(q, [at |-> "promote", release |-> req[q].release])
  /\ UNCHANGED <<db, history>>

Promote(q) ==
  /\ At(q, "promote")
  /\ SetRelease(req[q].release, "executing")
  /\ Goto(q, Idle)
  /\ UNCHANGED <<script, link, nextLink, record, nextRecord, history>>

DeleteExecution(i) ==
  /\ record[i] # NoRecord
  /\ record' = [record EXCEPT ![i] = NoRecord]
  /\ UNCHANGED <<script, release, link, nextLink, nextRecord, req, history>>

-----------------------------------------------------------------------------
(* Editing a script: updateScript and ajaxUpdateScript.                    *)

\* Fault: the status is not looked at.
BeginEditAny(q, s) ==
  /\ At(q, "idle")
  /\ Goto(q, [at |-> "save", row |-> Load(s)])
  /\ UNCHANGED <<db, history>>

\* Only a draft may be edited, as read at the start of the request.
BeginEdit(q, s) ==
  /\ At(q, "idle")
  /\ script[s].status = "draft"
  /\ Goto(q, [at |-> "save", row |-> Load(s)])
  /\ UNCHANGED <<db, history>>

\* The whole row is saved, its status as it was read; or the save fails.
SaveEdit(q, c) ==
  /\ At(q, "save")
  /\ \/ UpdateScript([req[q].row EXCEPT !.content = c], req[q].row.status)
     \/ FALSE \in Stored /\ UNCHANGED script
  /\ Goto(q, Idle)
  /\ UNCHANGED <<release, link, nextLink, record, nextRecord, history>>

-----------------------------------------------------------------------------
(* Composing a release: its scripts and its title.                         *)

\* ReleaseRepo.AddScript.  Bound: MaxLink rows are ever inserted.
InsertLink(r, s) ==
  /\ nextLink <= MaxLink
  /\ link' = link \cup {[id |-> nextLink, release |-> r, script |-> s]}
  /\ nextLink' = nextLink + 1

\* addReleaseScript leaves the status of the release alone.
AddReleaseScript(r, s) ==
  /\ InsertLink(r, s)
  /\ UNCHANGED <<script, release, record, nextRecord, req, history>>

\* ajaxAddReleaseScript publishes a draft in a second statement.
AjaxAddReleaseScript(q, r, s) ==
  /\ At(q, "idle")
  /\ InsertLink(r, s)
  /\ Goto(q, [at |-> "publish", release |-> r])
  /\ UNCHANGED <<script, release, record, nextRecord, history>>

AutoPublish(q) ==
  /\ At(q, "publish")
  /\ IF release[req[q].release] = "draft"
       THEN SetRelease(req[q].release, "published")
       ELSE UNCHANGED release
  /\ Goto(q, Idle)
  /\ UNCHANGED <<script, link, nextLink, record, nextRecord, history>>

\* ReleaseRepo.RemoveScript deletes every row of the script, a duplicate too.
RemoveReleaseScript(r, s) ==
  /\ \E l \in LinksOf(r) : l.script = s
  /\ link' = {l \in link : l.release # r \/ l.script # s}
  /\ UNCHANGED <<script, release, nextLink, record, nextRecord, req, history>>

ClearAllScripts(r) ==
  /\ LinksOf(r) # {}
  /\ link' = link \ LinksOf(r)
  /\ UNCHANGED <<script, release, nextLink, record, nextRecord, req, history>>

\* ajaxUpdateRelease reads the row and later writes all of it back.
BeginUpdateRelease(q, r) ==
  /\ At(q, "idle")
  /\ Goto(q, [at |-> "rename", release |-> r, status |-> release[r]])
  /\ UNCHANGED <<db, history>>

SaveRelease(q) ==
  /\ At(q, "rename")
  /\ SetRelease(req[q].release, req[q].status)
  /\ Goto(q, Idle)
  /\ UNCHANGED <<script, link, nextLink, record, nextRecord, history>>

-----------------------------------------------------------------------------
(* Archiving a release, as far as statuses go: the scripts are read before *)
(* the transaction that archives the release and them.                     *)

BeginArchive(q, r) ==
  /\ At(q, "idle")
  /\ ListScripts(r) # {}
  /\ Goto(q, [at |-> "archive", release |-> r,
              scripts |-> {t.row.script : t \in ListScripts(r)}])
  /\ UNCHANGED <<db, history>>

CommitArchive(q) ==
  /\ At(q, "archive")
  /\ release' = [release EXCEPT ![req[q].release] = "archived"]
  /\ script' = [s \in Script |-> IF s \in req[q].scripts
                                   THEN [script[s] EXCEPT !.status = "archived"]
                                   ELSE script[s]]
  /\ Goto(q, Idle)
  /\ UNCHANGED <<link, nextLink, record, nextRecord, history>>

\* The git push or a statement failed and the transaction was rolled back.
RollbackArchive(q) ==
  /\ At(q, "archive")
  /\ Goto(q, Idle)
  /\ UNCHANGED <<db, history>>

-----------------------------------------------------------------------------
\* The process stops and starts again: no request survives, and nothing
\* at start-up looks for records left pending.
Crash ==
  /\ MayCrash
  /\ req' = [q \in Request |-> Idle]
  /\ UNCHANGED <<db, history>>

PushStep(q) == \/ CreateRecord(q) \/ SkipScript(q) \/ ExecuteScript(q)
               \/ RecordResult(q) \/ MarkExecuted(q) \/ EndPush(q)

MarkStep(q) == \/ LoadMarked(q) \/ WriteMarked(q) \/ CountLinks(q)
               \/ CountRecords(q) \/ Promote(q)

OtherStep(q) == \/ \E c \in Content : SaveEdit(q, c)
                \/ AutoPublish(q) \/ SaveRelease(q)
                \/ CommitArchive(q) \/ RollbackArchive(q)

\* What users may ask for.
PushRequest(q) == \E r \in Release :
  \/ PushExecute(q, r)
  \/ \E ids \in SUBSET Script : AjaxPushExecute(q, r, ids)
MarkRequest == \E i \in RecordId :
  \/ \E status \in {"success", "failed"} : ManualMark(i, status)
  \/ \E q \in Request : AjaxManualMark(q, i)
  \/ DeleteExecution(i)
EditRequest(q) == \E s \in Script : BeginEdit(q, s)
LinkRequest == \E r \in Release :
  \/ \E s \in Script : AddReleaseScript(r, s) \/ RemoveReleaseScript(r, s)
  \/ \E q \in Request, s \in Script : AjaxAddReleaseScript(q, r, s)
  \/ ClearAllScripts(r)
ReleaseRequest(q) == \E r \in Release : BeginUpdateRelease(q, r) \/ BeginArchive(q, r)

Next ==
  \/ \E q \in Request : PushStep(q) \/ MarkStep(q) \/ OtherStep(q)
  \/ \E q \in Request : PushRequest(q) \/ EditRequest(q) \/ ReleaseRequest(q)
  \/ MarkRequest
  \/ LinkRequest
  \/ Crash

Spec == Init /\ [][Next]_vars

\* A handler that has begun goes on to its answer: its goroutine is scheduled,
\* every database call returns, and the executor gives up after 30 seconds.
Fairness == \A q \in Request : WF_vars(PushStep(q) \/ MarkStep(q) \/ OtherStep(q))
FairSpec == Spec /\ Fairness

-----------------------------------------------------------------------------
(* Safety.                                                                 *)

\* The executor applied all of this text of s, for release r.
Applied(r, s, c) == \E i \in RecordId :
  ran[i] = [release |-> r, script |-> s, content |-> c, full |-> TRUE]

VouchedFor(s) == \E r \in Release : <<r, s>> \in vouched

\* A record nobody touched by hand tells the truth: success only if the
\* executor applied the whole script of that record, failed only if it ran
\* (pushExecute's loop variables against UpdateResult's id).
AutoResultTruthful == \A i \in RecordId :
  record[i] # NoRecord /\ record[i].mark = "auto" /\ record[i].status # "pending" =>
    /\ ran[i] # NotRun
    /\ ran[i].script = record[i].script
    /\ ran[i].release = record[i].release
    /\ record[i].status = "success" => ran[i].full

\* A script shown as executed carries the text that was applied to a database,
\* unless a person vouched for it, however pushes, edits, marks and archives
\* interleave: the push writes the whole row it ran back.
ExecutedTextRan == \A s \in Script :
  script[s].status = "executed" =>
    VouchedFor(s) \/ \E r \in Release : Applied(r, s, script[s].content)

Justified(r) ==
  \E s \in Script : <<r, s>> \in vouched \/ \E c \in Content : Applied(r, s, c)

\* A release is executing only if one of its scripts was applied in full or
\* vouched for, whichever handler moved it there and however stale the status
\* that handler held.
ExecutingJustified == \A r \in Release : release[r] = "executing" => Justified(r)

\* While allSuccess still holds, every script the loop has left behind was
\* applied in full, so the release is promoted only for a plan that all ran.
PushOkSound == \A q \in Request :
  Pushing(q) /\ req[q].ok =>
    \A t \in req[q].plan \ req[q].todo :
      \/ req[q].at \in {"execute", "result"} /\ t.row = req[q].row
      \/ Applied(req[q].release, t.row.script, t.row.content)

\* The executor is called at most once for a record: what happened to a
\* database under a record is never overwritten by another run of it.
OneRunPerRecord ==
  [][\A i \in RecordId : ran[i] # NotRun => ran'[i] = ran[i]]_vars

\* README.md:42, "草稿状态支持编辑，已执行/已归档后锁定": the text of a script
\* that was executed or archived does not change any more.
LockedAfterExecution ==
  [][\A s \in Script : script[s].status # "draft" =>
       script'[s].content = script[s].content]_vars

\* README.md:47, "执行成功自动标记脚本状态": once every request is answered, the
\* script of a record that the executor reported successful is marked.
SuccessMarksScript ==
  (\A q \in Request : At(q, "idle")) =>
    \A i \in RecordId :
      record[i] # NoRecord /\ record[i].mark = "auto" /\ record[i].status = "success" =>
        script[record[i].script].status # "draft"

\* execution.go:658, "every script associated with the release has at least one
\* successful (success or manual_marked) execution record": so it is when
\* checkAllScriptsExecuted says yes, if no link came or went meanwhile and no
\* script that is not linked any more has a successful record, for the numbers
\* are compared and not the scripts.
PromotesOnlyAllExecuted ==
  [][\A q \in Request :
       LET linked == {l.script : l \in LinksOf(req[q].release)} IN
       /\ At(q, "countRecords")
       /\ Cardinality(LinksOf(req[q].release)) = req[q].total
       /\ Succeeded(req[q].release) \subseteq linked
       /\ At(q, "promote")'
       => linked = Succeeded(req[q].release)]_vars

-----------------------------------------------------------------------------
(* What makes the safety properties inductive: what a request holds in its *)
(* local variables is as trustworthy as what it is about to write.         *)

\* Nothing is known of a record that was not created yet.
Fresh == \A i \in RecordId :
  i >= nextRecord => record[i] = NoRecord /\ ran[i] = NotRun

\* The record of a loop body was created by that push and by no other.
Owned == \A q \in Request :
  req[q].at \in BodyAt =>
    /\ req[q].rec < nextRecord
    /\ record[req[q].rec] # NoRecord =>
         /\ record[req[q].rec].release = req[q].release
         /\ record[req[q].rec].script = req[q].row.script
    /\ \A p \in Request \ {q} : req[p].at \in BodyAt => req[p].rec # req[q].rec

\* The executor has not been called for the record of a push that is about
\* to call it, and the verdict in hand is the executor's.
Verdict == \A q \in Request :
  /\ At(q, "execute") =>
       /\ ran[req[q].rec] = NotRun
       /\ record[req[q].rec] # NoRecord /\ record[req[q].rec].mark = "auto" =>
            record[req[q].rec].status = "pending"
  /\ At(q, "result") =>
       /\ ran[req[q].rec] # NotRun
       /\ ran[req[q].rec].release = req[q].release
       /\ ran[req[q].rec].script = req[q].row.script
       /\ ran[req[q].rec].content = req[q].row.content
       /\ req[q].success => ran[req[q].rec].full
  /\ At(q, "script") =>
       Applied(req[q].release, req[q].row.script, req[q].row.content)

\* A handler with local state l that will write a script or promote a release
\* has a reason to.
HasReason(l) ==
  /\ l.at = "create" /\ l.ok => l.todo # {} \/ Justified(l.release)
  /\ l.at = "load" =>
       /\ l.rec < nextRecord
       /\ record[l.rec] # NoRecord =>
            <<record[l.rec].release, record[l.rec].script>> \in vouched
  /\ l.at = "write" => VouchedFor(l.row.script)
  /\ l.at \in {"write", "countLinks", "countRecords", "promote"} => Justified(l.release)
  /\ l.at = "rename" /\ l.status = "executing" => Justified(l.release)
  /\ l.at = "save" => l.row.status = "draft"

Reason == \A q \in Request : HasReason(req[q])

IInv ==
  /\ TypeOK
  /\ Fresh
  /\ Owned
  /\ Verdict
  /\ Reason
  /\ AutoResultTruthful
  /\ ExecutedTextRan
  /\ ExecutingJustified

-----------------------------------------------------------------------------
(* Edits that keep apart.                                                  *)

\* Request q has the text of s in hand to run or save it, or is to archive s.
Busy(q, s) ==
  \/ Pushing(q) /\ \E t \in req[q].plan : t.row.script = s
  \/ At(q, "write") /\ req[q].row.script = s
  \/ At(q, "archive") /\ s \in req[q].scripts

\* No edit of a script overlaps with a push, a mark or an archive of it.
EditsApart == \A p, q \in Request : At(p, "save") => ~Busy(q, req[p].row.script)

\* The behaviours in which that is so.  Pushes, marks and archives may overlap
\* with each other, and edits with other edits.
ApartSpec == Init /\ [][Next /\ EditsApart']_vars

\* Then the texts that request q has in hand are those of the rows.
UpToDate(q) ==
  /\ Pushing(q) =>
       /\ req[q].todo \subseteq req[q].plan
       /\ \A t \in req[q].plan : t.row.content = script[t.row.script].content
  /\ req[q].at \in BodyAt => \E t \in req[q].plan : t.row = req[q].row
  /\ At(q, "write") => req[q].row.content = script[req[q].row.script].content
  /\ At(q, "save") => script[req[q].row.script].status = "draft"

Current == \A q \in Request : UpToDate(q)

\* A script that ran is marked, or the push that ran it is about to.
Marked == \A i \in RecordId :
  record[i] # NoRecord /\ record[i].mark = "auto" /\ record[i].status = "success" =>
    \/ script[record[i].script].status # "draft"
    \/ \E q \in Request : At(q, "script") /\ req[q].rec = i

-----------------------------------------------------------------------------
(* Liveness.                                                               *)

\* docs/test-checklist.html TC-EXEC-01, "创建执行记录，状态自动标记为 success 或
\* failed": a record does not stay pending.
PendingResolved == \A i \in RecordId :
  (record[i] # NoRecord /\ record[i].status = "pending")
    ~> (record[i] = NoRecord \/ record[i].status # "pending")
=============================================================================
