------------------------------- MODULE Pending -------------------------------
(***************************************************************************)
(* The pending directory: a goroutine commits every script that was        *)
(* created or edited under {project}/pending/{id}_{title}.sql              *)
(* (pushScriptToPending, internal/web/script.go).                          *)
(*                                                                         *)
(* A step is one access to the row of a script by one request, or one      *)
(* CommitAndPush, which is taken as a whole: what calls do to each other   *)
(* in the work directory is the subject of GitClient.  Git is configured.  *)
(***************************************************************************)
EXTENDS Integers

CONSTANTS
  Project, Title, Text,
  FileTitle,            \* sanitizeFileTitle, which may map titles to one name
  MaxScript,            \* bound: scripts ever created
  MaxWork,              \* bound: edits and pushes ever begun
  Request, Sync,        \* requests and goroutines at once
  MayFail,              \* may a push to Git fail, and the process crash?
  NoScript, NoFile

\* An executed script and an archived one are locked.
Id   == 1 .. MaxScript
Row  == [project : Project, title : Title, text : Text, status : {"draft", "locked"}]
Name == {FileTitle[t] : t \in Title}
Path == [project : Project, id : Id \cup {0}, name : Name]

ASSUME BoundAssumption == MaxScript \in Nat /\ MaxWork \in Nat
ASSUME TitleAssumption == FileTitle = [t \in Title |-> FileTitle[t]]
ASSUME FailAssumption  == MayFail \in BOOLEAN

VARIABLES
  script, nextId,   \* sql_script and its AUTOINCREMENT
  work, pending,    \* the pending directories: of the work directory, of the remote
  req,              \* the snapshot a request has read and will write back
  sync,             \* the goroutines: the file each of them will commit
  edited, born,     \* history: was a script saved by an edit; where it was created
  begun,            \* how many edits and pushes have begun
  apart             \* history: no request began beside another or beside a sync of
                    \* the same script, and no sync of it failed or was lost

vars == <<script, nextId, work, pending, req, sync, edited, born, begun, apart>>

Idle == [at |-> "idle"]
Work == [at : {"edit", "push"}, id : Id, row : Row]
File == [path : Path, text : Text, of : Id]

ASSUME NoneAssumption == NoScript \notin Row /\ NoFile \notin Text \cup Path \cup File

TypeOK ==
  /\ script \in [Id -> Row \cup {NoScript}] /\ nextId \in 1 .. MaxScript + 1
  /\ work \in [Path -> Text \cup {NoFile}] /\ pending \in [Path -> Text \cup {NoFile}]
  /\ req \in [Request -> {Idle} \cup Work]
  /\ sync \in [Sync -> {NoFile} \cup File]
  /\ edited \in [Id -> BOOLEAN] /\ apart \in [Id -> BOOLEAN]
  /\ born \in [Id -> Path \cup {NoFile}] /\ begun \in 0 .. MaxWork

Init ==
  /\ script = [i \in Id |-> NoScript] /\ nextId = 1
  /\ work = [p \in Path |-> NoFile] /\ pending = work
  /\ req = [q \in Request |-> Idle]
  /\ sync = [g \in Sync |-> NoFile]
  /\ edited = [i \in Id |-> FALSE] /\ apart = [i \in Id |-> TRUE]
  /\ born = [i \in Id |-> NoFile] /\ begun = 0

Exists(i) == script[i] # NoScript
At(q, place) == req[q].at = place

\* Is a request or a goroutine at work on script i?
Busy(i) == \/ \E q \in Request : ~At(q, "idle") /\ req[q].id = i
           \/ \E g \in Sync : sync[g] # NoFile /\ sync[g].of = i

\* The path of a row, under the id that its struct carries.
PathOf(id, row) == [project |-> row.project, id |-> id, name |-> FileTitle[row.title]]

\* "go s.pushScriptToPending": a goroutine that is not in use takes the struct.
Go(g, i, id, row) ==
  /\ sync[g] = NoFile
  /\ sync' = [sync EXCEPT ![g] = [path |-> PathOf(id, row), text |-> row.text, of |-> i]]

-----------------------------------------------------------------------------
\* createScript and ajaxCreateScript: the id of the new row is dropped, and the
\* struct keeps 0.
CreateScript(g, row) ==
  /\ nextId \in Id
  /\ row.status = "draft"
  /\ script' = [script EXCEPT ![nextId] = row]
  /\ nextId' = nextId + 1
  /\ born' = [born EXCEPT ![nextId] = PathOf(0, row)]
  /\ Go(g, nextId, 0, row)
  /\ UNCHANGED <<work, pending, req, edited, begun, apart>>

\* Fault: the error of Get is dropped, and the request works with no script.
BeginUnread(q, i, place) ==
  /\ At(q, "idle")
  /\ begun < MaxWork /\ begun' = begun + 1
  /\ req' = [req EXCEPT ![q] = [at |-> place, id |-> i, row |-> script[i]]]
  /\ apart' = [apart EXCEPT ![i] = @ /\ ~Busy(i)]
  /\ UNCHANGED <<script, nextId, work, pending, sync, edited, born>>

\* ScriptRepo.Get: the request goes on with the row as it is now.
Begin(q, i, place) ==
  /\ At(q, "idle") /\ Exists(i)
  /\ begun < MaxWork /\ begun' = begun + 1
  /\ req' = [req EXCEPT ![q] = [at |-> place, id |-> i, row |-> script[i]]]
  /\ apart' = [apart EXCEPT ![i] = @ /\ ~Busy(i)]
  /\ UNCHANGED <<script, nextId, work, pending, sync, edited, born>>

\* updateScript and ajaxUpdateScript read a draft;
BeginEdit(q, i) == Exists(i) /\ script[i].status = "draft" /\ Begin(q, i, "edit")

\* a push, for each of its scripts, or a mark by hand reads one of any status.
BeginPush(q, i) == Begin(q, i, "push")

\* ScriptRepo.Update of a row that is gone changes nothing and is no error.
UpdateScript(i, row) == script' = IF Exists(i) THEN [script EXCEPT ![i] = row] ELSE script

Answer(q) == req' = [req EXCEPT ![q] = Idle]

\* Fault: the goroutine is given the row as it was read.
SyncOldRow(q, g, p, t, c) ==
  LET row == [req[q].row EXCEPT !.project = p, !.title = t, !.text = c]
  IN /\ At(q, "edit")
     /\ UpdateScript(req[q].id, row)
     /\ Go(g, req[q].id, req[q].id, req[q].row)
     /\ edited' = [edited EXCEPT ![req[q].id] = TRUE]
     /\ Answer(q)
     /\ UNCHANGED <<nextId, work, pending, born, begun, apart>>

\* The edit saves the row, status as it was read, and starts the sync.
SaveEdit(q, g, p, t, c) ==
  LET row == [req[q].row EXCEPT !.project = p, !.title = t, !.text = c]
  IN /\ At(q, "edit")
     /\ UpdateScript(req[q].id, row)
     /\ Go(g, req[q].id, req[q].id, row)
     /\ edited' = [edited EXCEPT ![req[q].id] = TRUE]
     /\ Answer(q)
     /\ UNCHANGED <<nextId, work, pending, born, begun, apart>>

\* The row goes back as it was read; no sync follows.
MarkExecuted(q) ==
  /\ At(q, "push")
  /\ UpdateScript(req[q].id, [req[q].row EXCEPT !.status = "locked"])
  /\ Answer(q)
  /\ UNCHANGED <<nextId, work, pending, sync, edited, born, begun, apart>>

\* An archive writes the status alone.
MarkArchived(i) ==
  /\ Exists(i)
  /\ script' = [script EXCEPT ![i].status = "locked"]
  /\ UNCHANGED <<nextId, work, pending, req, sync, edited, born, begun, apart>>

\* A form that is refused, a statement or a script that failed.
Leave(q) ==
  /\ ~At(q, "idle")
  /\ Answer(q)
  /\ UNCHANGED <<script, nextId, work, pending, sync, edited, born, begun, apart>>

\* ajaxDeleteScript.  The file stays.
DeleteScript(i) ==
  /\ Exists(i)
  /\ script' = [script EXCEPT ![i] = NoScript]
  /\ UNCHANGED <<nextId, work, pending, req, sync, edited, born, begun, apart>>

\* CommitAndPush writes the file, commits it and pushes what the work directory
\* holds.
Written(g) == [work EXCEPT ![sync[g].path] = sync[g].text]

CommitPending(g) ==
  /\ sync[g] # NoFile
  /\ work' = Written(g) /\ pending' = work'
  /\ sync' = [sync EXCEPT ![g] = NoFile]
  /\ UNCHANGED <<script, nextId, req, edited, born, begun, apart>>

\* An error is only printed.  One of the push leaves the commit, and the next
\* push of any file takes it along.
FailPending(g) ==
  /\ MayFail /\ sync[g] # NoFile
  /\ work' \in {work, Written(g)}
  /\ sync' = [sync EXCEPT ![g] = NoFile]
  /\ apart' = [apart EXCEPT ![sync[g].of] = FALSE]
  /\ UNCHANGED <<script, nextId, pending, req, edited, born, begun>>

\* The process stops, goroutines and all, and is started again.
Crash ==
  /\ MayFail
  /\ req' = [q \in Request |-> Idle] /\ sync' = [g \in Sync |-> NoFile]
  /\ apart' = [i \in Id |-> apart[i] /\ \A g \in Sync : sync[g] # NoFile => sync[g].of # i]
  /\ UNCHANGED <<script, nextId, work, pending, edited, born, begun>>

Next ==
  \/ \E g \in Sync, row \in Row : CreateScript(g, row)
  \/ \E q \in Request, i \in Id : BeginEdit(q, i) \/ BeginPush(q, i)
  \/ \E q \in Request, g \in Sync, p \in Project, t \in Title, c \in Text :
       SaveEdit(q, g, p, t, c)
  \/ \E q \in Request : MarkExecuted(q) \/ Leave(q)
  \/ \E i \in Id : MarkArchived(i) \/ DeleteScript(i)
  \/ \E g \in Sync : CommitPending(g) \/ FailPending(g)
  \/ Crash

Spec == Init /\ [][Next]_vars

-----------------------------------------------------------------------------
\* The file of script i: an edit gives it the id that its creation dropped.
FileOf(i) == PathOf(IF edited[i] THEN i ELSE 0, script[i])

\* README.md:40, "脚本创建/编辑即自动同步到 Git 仓库的 {项目编码}/pending/ 目录": a script
\* whose requests and syncs keep apart is shown by its file, under its own id after
\* an edit, and before under 0, unless another one was created with a title of that
\* name in its project.  Other scripts may do what they like.
ShownIfApart ==
  \A i \in Id :
    (/\ Exists(i) /\ apart[i] /\ ~Busy(i)
     /\ (edited[i] \/ \A j \in Id \ {i} : born[j] # born[i]))
    => pending[FileOf(i)] = script[i].text
=============================================================================
