--------------------------- MODULE ExecutionProofs ---------------------------
(* Theorems about Execution, for every value of its constants.             *)
EXTENDS Execution, TLAPS, FiniteSetTheorems

-----------------------------------------------------------------------------
(* Type correctness.                                                       *)

\* The place of a request tells the shape of its local state.
LEMMA Shapes ==
  ASSUME TypeOK, NEW q \in Request
  PROVE  /\ At(q, "create") => req[q] \in LoopLocal
         /\ req[q].at \in BodyAt => req[q] \in BodyLocal
         /\ At(q, "load") => req[q] \in [at : {"load"}, rec : RecordId]
         /\ At(q, "write") =>
              req[q] \in [at : {"write"}, row : Snapshot, release : Release]
         /\ At(q, "countLinks") => req[q] \in [at : {"countLinks"}, release : Release]
         /\ At(q, "countRecords") =>
              req[q] \in [at : {"countRecords"}, release : Release, total : Nat]
         /\ At(q, "promote") => req[q] \in [at : {"promote"}, release : Release]
         /\ At(q, "save") => req[q] \in EditLocal
         /\ At(q, "rename") => req[q] \in RenameLocal
         /\ At(q, "publish") => req[q] \in PublishLocal
         /\ At(q, "archive") => req[q] \in ArchiveLocal
  <1>1. req[q] \in Local
    BY DEF TypeOK
  <1>2. QED
    BY <1>1 DEF At, Local, Idle, LoopLocal, BodyLocal, BodyAt, MarkLocal, EditLocal,
                RenameLocal, PublishLocal, ArchiveLocal

\* Moving a request to a well-formed local state keeps req well-formed.
LEMMA GotoType ==
  ASSUME TypeOK, NEW q \in Request, NEW local \in Local, Goto(q, local)
  PROVE  req' \in [Request -> Local]
  BY DEF TypeOK, Goto

\* A snapshot is taken from a well-formed row.
LEMMA LoadType ==
  ASSUME TypeOK, NEW s \in Script
  PROVE  Load(s) \in Snapshot
  BY DEF TypeOK, Load, Snapshot, ScriptRow

LEMMA ListScriptsType ==
  ASSUME TypeOK, NEW r \in Release
  PROVE  ListScripts(r) \subseteq Planned
  BY LoadType DEF TypeOK, ListScripts, LinksOf, Planned, LinkRow

\* Writing a snapshot back keeps the table well-formed.
LEMMA UpdateScriptType ==
  ASSUME TypeOK, NEW row \in Snapshot, NEW status \in ScriptStatus,
         UpdateScript(row, status)
  PROVE  script' \in [Script -> ScriptRow]
  BY DEF TypeOK, UpdateScript, Snapshot, ScriptRow

LEMMA SetReleaseType ==
  ASSUME TypeOK, NEW r \in Release, NEW status \in ReleaseStatus, SetRelease(r, status)
  PROVE  release' \in [Release -> ReleaseStatus]
  BY DEF TypeOK, SetRelease

LEMMA BeginPushType ==
  ASSUME TypeOK, NEW q \in Request, NEW r \in Release, NEW rows \in SUBSET Planned,
         BeginPush(q, r, rows)
  PROVE  TypeOK'
  <1>1. [at |-> "create", release |-> r, plan |-> rows, todo |-> rows, ok |-> TRUE]
          \in Local
    BY DEF Local, LoopLocal
  <1>2. req' \in [Request -> Local]
    BY <1>1, GotoType DEF BeginPush
  <1>3. QED
    BY <1>2 DEF BeginPush, TypeOK, db, history

\* The head of the loop of a push that has begun.
LEMMA LoopType ==
  ASSUME TypeOK, NEW q \in Request, req[q].at \in {"create"} \cup BodyAt,
         NEW todo \in SUBSET req[q].todo, NEW ok \in BOOLEAN
  PROVE  Loop(q, todo, ok) \in Local
  <1>1. req[q] \in LoopLocal \cup BodyLocal
    BY Shapes DEF At
  <1>2. Loop(q, todo, ok) \in LoopLocal
    BY <1>1 DEF Loop, LoopLocal, BodyLocal
  <1>3. QED
    BY <1>2 DEF Local

LEMMA PushStepType ==
  ASSUME TypeOK, NEW q \in Request, PushStep(q)
  PROVE  TypeOK'
  <1>1. CASE CreateRecord(q)
    <2>1. req[q] \in LoopLocal
      BY <1>1, Shapes DEF CreateRecord
    <2>2. PICK t \in req[q].todo :
            /\ record' = [record EXCEPT ![nextRecord] =
                            [release |-> req[q].release, script |-> t.row.script,
                             status |-> "pending", mark |-> "auto"]]
            /\ Goto(q, [at |-> "execute", release |-> req[q].release,
                        plan |-> req[q].plan, todo |-> req[q].todo \ {t},
                        ok |-> req[q].ok, row |-> t.row, rec |-> nextRecord,
                        success |-> FALSE])
      BY <1>1 DEF CreateRecord
    <2>3. t \in Planned /\ t.row \in Snapshot /\ t.row.script \in Script
      BY <2>1 DEF LoopLocal, Planned, Snapshot
    <2>4. nextRecord \in RecordId
      BY <1>1 DEF CreateRecord
    <2>5. record' \in [RecordId -> RecordRow \cup {NoRecord}]
      <3>1. [release |-> req[q].release, script |-> t.row.script,
             status |-> "pending", mark |-> "auto"] \in RecordRow
        BY <2>1, <2>3 DEF LoopLocal, RecordRow, ExecStatus, MarkMethod
      <3>2. QED
        BY <3>1, <2>2, <2>4 DEF TypeOK
    <2>6. [at |-> "execute", release |-> req[q].release, plan |-> req[q].plan,
           todo |-> req[q].todo \ {t}, ok |-> req[q].ok, row |-> t.row,
           rec |-> nextRecord, success |-> FALSE] \in Local
      BY <2>1, <2>3, <2>4 DEF LoopLocal, BodyLocal, BodyAt, Local
    <2>7. req' \in [Request -> Local]
      BY <2>2, <2>6, GotoType
    <2>8. QED
      BY <1>1, <2>5, <2>7 DEF CreateRecord, TypeOK, history
  <1>2. CASE SkipScript(q)
    <2>1. PICK t \in req[q].todo : Goto(q, Loop(q, req[q].todo \ {t}, FALSE))
      BY <1>2 DEF SkipScript
    <2>2. Loop(q, req[q].todo \ {t}, FALSE) \in Local
      BY <1>2, LoopType DEF SkipScript, At
    <2>3. req' \in [Request -> Local]
      BY <2>1, <2>2, GotoType
    <2>4. QED
      BY <1>2, <2>3 DEF SkipScript, TypeOK, db, history
  <1>3. CASE ExecuteScript(q)
    <2>1. req[q] \in BodyLocal
      BY <1>3, Shapes DEF ExecuteScript, At, BodyAt
    <2>2. PICK full, success \in BOOLEAN :
            /\ ran' = [ran EXCEPT ![req[q].rec] =
                         [release |-> req[q].release, script |-> req[q].row.script,
                          content |-> req[q].row.content, full |-> full]]
            /\ Goto(q, [req[q] EXCEPT !.at = "result", !.success = success])
      BY <1>3 DEF ExecuteScript
    <2>3. [release |-> req[q].release, script |-> req[q].row.script,
           content |-> req[q].row.content, full |-> full] \in Run
      BY <2>1 DEF BodyLocal, Snapshot, Run
    <2>4. ran' \in [RecordId -> Run \cup {NotRun}]
      BY <2>2, <2>3 DEF TypeOK
    <2>5. [req[q] EXCEPT !.at = "result", !.success = success] \in Local
      BY <2>1 DEF BodyLocal, BodyAt, Local
    <2>6. req' \in [Request -> Local]
      BY <2>2, <2>5, GotoType
    <2>7. QED
      BY <1>3, <2>4, <2>6 DEF ExecuteScript, TypeOK, db
  <1>4. CASE RecordResult(q)
    <2>1. req[q] \in BodyLocal
      BY <1>4, Shapes DEF RecordResult, At, BodyAt
    <2>2. record' \in [RecordId -> RecordRow \cup {NoRecord}]
      BY <1>4, <2>1 DEF RecordResult, TypeOK, BodyLocal, RecordRow, ExecStatus
    <2>3. [req[q] EXCEPT !.at = "script"] \in Local
      BY <2>1 DEF BodyLocal, BodyAt, Local
    <2>4. Loop(q, req[q].todo, FALSE) \in Local
      BY <1>4, LoopType DEF RecordResult, At, BodyAt
    <2>5. req' \in [Request -> Local]
      BY <1>4, <2>3, <2>4, GotoType DEF RecordResult
    <2>6. QED
      BY <1>4, <2>2, <2>5 DEF RecordResult, TypeOK, history
  <1>5. CASE MarkExecuted(q)
    <2>1. req[q] \in BodyLocal
      BY <1>5, Shapes DEF MarkExecuted, At, BodyAt
    <2>2. script' \in [Script -> ScriptRow]
      BY <1>5, <2>1, UpdateScriptType DEF MarkExecuted, BodyLocal, ScriptStatus, TypeOK
    <2>3. Loop(q, req[q].todo, req[q].ok) \in Local
      BY <1>5, <2>1, LoopType DEF MarkExecuted, At, BodyAt, BodyLocal
    <2>4. req' \in [Request -> Local]
      BY <1>5, <2>3, GotoType DEF MarkExecuted
    <2>5. QED
      BY <1>5, <2>2, <2>4 DEF MarkExecuted, TypeOK, history
  <1>6. CASE EndPush(q)
    <2>1. req[q] \in LoopLocal
      BY <1>6, Shapes DEF EndPush
    <2>2. release' \in [Release -> ReleaseStatus]
      BY <1>6, <2>1, SetReleaseType DEF EndPush, LoopLocal, ReleaseStatus, TypeOK
    <2>3. req' \in [Request -> Local]
      BY <1>6, GotoType DEF EndPush, Local
    <2>4. QED
      BY <1>6, <2>2, <2>3 DEF EndPush, TypeOK, history
  <1>7. QED
    BY <1>1, <1>2, <1>3, <1>4, <1>5, <1>6 DEF PushStep

LEMMA MarkStepType ==
  ASSUME TypeOK, NEW q \in Request, MarkStep(q)
  PROVE  TypeOK'
  <1>1. CASE LoadMarked(q)
    <2>1. req[q].rec \in RecordId
      BY <1>1, Shapes DEF LoadMarked
    <2>2. ASSUME record[req[q].rec] # NoRecord
          PROVE  /\ record[req[q].rec].script \in Script
                 /\ record[req[q].rec].release \in Release
      BY <2>1, <2>2 DEF TypeOK, RecordRow
    <2>3. ASSUME record[req[q].rec] # NoRecord
          PROVE  /\ [at |-> "write", row |-> Load(record[req[q].rec].script),
                     release |-> record[req[q].rec].release] \in Local
                 /\ [at |-> "countLinks", release |-> record[req[q].rec].release]
                      \in Local
      BY <2>2, <2>3, LoadType DEF Local, MarkLocal
    <2>4. Idle \in Local
      BY DEF Local
    <2>5. req' \in [Request -> Local]
      BY <1>1, <2>3, <2>4, GotoType DEF LoadMarked
    <2>6. QED
      BY <1>1, <2>5 DEF LoadMarked, TypeOK, db, history
  <1>2. CASE WriteMarked(q)
    <2>1. req[q] \in [at : {"write"}, row : Snapshot, release : Release]
      BY <1>2, Shapes DEF WriteMarked
    <2>2. script' \in [Script -> ScriptRow]
      BY <1>2, <2>1, UpdateScriptType DEF WriteMarked, ScriptStatus, TypeOK
    <2>3. [at |-> "countLinks", release |-> req[q].release] \in Local
      BY <2>1 DEF Local, MarkLocal
    <2>4. req' \in [Request -> Local]
      BY <1>2, <2>3, GotoType DEF WriteMarked
    <2>5. QED
      BY <1>2, <2>2, <2>4 DEF WriteMarked, TypeOK, history
  <1>3. CASE CountLinks(q)
    <2>1. req[q].release \in Release
      BY <1>3, Shapes DEF CountLinks
    <2>2. req' \in [Request -> Local]
      <3> DEFINE total == Cardinality(LinksOf(req[q].release))
      <3>1. total \in Nat
        BY FS_Subset, FS_CardinalityType DEF TypeOK, LinksOf
      <3>2. /\ [at |-> "countRecords", release |-> req[q].release, total |-> total]
                \in Local
            /\ Idle \in Local
        BY <2>1, <3>1 DEF Local, MarkLocal
      <3>3. QED
        BY <1>3, <3>2, GotoType DEF CountLinks
    <2>3. QED
      BY <1>3, <2>2 DEF CountLinks, TypeOK, db, history
  <1>4. CASE CountRecords(q)
    <2>1. req[q].release \in Release
      BY <1>4, Shapes DEF CountRecords
    <2>2. [at |-> "promote", release |-> req[q].release] \in Local /\ Idle \in Local
      BY <2>1 DEF Local, MarkLocal
    <2>3. req' \in [Request -> Local]
      BY <1>4, <2>2, GotoType DEF CountRecords
    <2>4. QED
      BY <1>4, <2>3 DEF CountRecords, TypeOK, db, history
  <1>5. CASE Promote(q)
    <2>1. req[q].release \in Release
      BY <1>5, Shapes DEF Promote
    <2>2. release' \in [Release -> ReleaseStatus]
      BY <1>5, <2>1, SetReleaseType DEF Promote, ReleaseStatus
    <2>3. req' \in [Request -> Local]
      BY <1>5, GotoType DEF Promote, Local
    <2>4. QED
      BY <1>5, <2>2, <2>3 DEF Promote, TypeOK, history
  <1>6. QED
    BY <1>1, <1>2, <1>3, <1>4, <1>5 DEF MarkStep

LEMMA OtherStepType ==
  ASSUME TypeOK, NEW q \in Request, OtherStep(q)
  PROVE  TypeOK'
  <1> Idle \in Local
    BY DEF Local
  <1>1. ASSUME NEW c \in Content, SaveEdit(q, c)
        PROVE  TypeOK'
    <2>1. req[q].row \in Snapshot
      BY <1>1, Shapes DEF SaveEdit, EditLocal
    <2>2. [req[q].row EXCEPT !.content = c] \in Snapshot
           /\ req[q].row.status \in ScriptStatus
      BY <2>1 DEF Snapshot
    <2>3. script' \in [Script -> ScriptRow]
      BY <1>1, <2>2, UpdateScriptType DEF SaveEdit, TypeOK
    <2>4. req' \in [Request -> Local]
      BY <1>1, GotoType DEF SaveEdit
    <2>5. QED
      BY <1>1, <2>3, <2>4 DEF SaveEdit, TypeOK, history
  <1>2. CASE AutoPublish(q)
    <2>1. req[q].release \in Release
      BY <1>2, Shapes DEF AutoPublish, PublishLocal
    <2>2. release' \in [Release -> ReleaseStatus]
      BY <1>2, <2>1, SetReleaseType DEF AutoPublish, ReleaseStatus, TypeOK
    <2>3. req' \in [Request -> Local]
      BY <1>2, GotoType DEF AutoPublish
    <2>4. QED
      BY <1>2, <2>2, <2>3 DEF AutoPublish, TypeOK, history
  <1>3. CASE SaveRelease(q)
    <2>1. req[q].release \in Release /\ req[q].status \in ReleaseStatus
      BY <1>3, Shapes DEF SaveRelease, RenameLocal
    <2>2. release' \in [Release -> ReleaseStatus]
      BY <1>3, <2>1, SetReleaseType DEF SaveRelease
    <2>3. req' \in [Request -> Local]
      BY <1>3, GotoType DEF SaveRelease
    <2>4. QED
      BY <1>3, <2>2, <2>3 DEF SaveRelease, TypeOK, history
  <1>4. CASE CommitArchive(q)
    <2>1. req[q].release \in Release
      BY <1>4, Shapes DEF CommitArchive, ArchiveLocal
    <2>2. release' \in [Release -> ReleaseStatus]
      BY <1>4, <2>1 DEF CommitArchive, TypeOK, ReleaseStatus
    <2>3. script' \in [Script -> ScriptRow]
      BY <1>4 DEF CommitArchive, TypeOK, ScriptRow, ScriptStatus
    <2>4. req' \in [Request -> Local]
      BY <1>4, GotoType DEF CommitArchive
    <2>5. QED
      BY <1>4, <2>2, <2>3, <2>4 DEF CommitArchive, TypeOK, history
  <1>5. CASE RollbackArchive(q)
    <2>1. req' \in [Request -> Local]
      BY <1>5, GotoType DEF RollbackArchive
    <2>2. QED
      BY <1>5, <2>1 DEF RollbackArchive, TypeOK, db, history
  <1>6. QED
    BY <1>1, <1>2, <1>3, <1>4, <1>5 DEF OtherStep

LEMMA RequestType ==
  ASSUME TypeOK, NEW q \in Request,
         PushRequest(q) \/ EditRequest(q) \/ ReleaseRequest(q)
  PROVE  TypeOK'
  <1>1. ASSUME NEW r \in Release, PushExecute(q, r)
        PROVE  TypeOK'
    BY <1>1, ListScriptsType, BeginPushType DEF PushExecute
  <1>2. ASSUME NEW r \in Release, NEW ids \in SUBSET Script, AjaxPushExecute(q, r, ids)
        PROVE  TypeOK'
    <2>1. FilterScripts(ListScripts(r), ids) \subseteq Planned
      BY ListScriptsType DEF FilterScripts
    <2>2. QED
      BY <1>2, <2>1, BeginPushType DEF AjaxPushExecute
  <1>3. ASSUME NEW s \in Script, BeginEdit(q, s)
        PROVE  TypeOK'
    <2>1. [at |-> "save", row |-> Load(s)] \in Local
      BY LoadType DEF Local, EditLocal
    <2>2. req' \in [Request -> Local]
      BY <1>3, <2>1, GotoType DEF BeginEdit
    <2>3. QED
      BY <1>3, <2>2 DEF BeginEdit, TypeOK, db, history
  <1>4. ASSUME NEW r \in Release, BeginUpdateRelease(q, r)
        PROVE  TypeOK'
    <2>1. [at |-> "rename", release |-> r, status |-> release[r]] \in Local
      BY DEF Local, RenameLocal, TypeOK
    <2>2. req' \in [Request -> Local]
      BY <1>4, <2>1, GotoType DEF BeginUpdateRelease
    <2>3. QED
      BY <1>4, <2>2 DEF BeginUpdateRelease, TypeOK, db, history
  <1>5. ASSUME NEW r \in Release, BeginArchive(q, r)
        PROVE  TypeOK'
    <2>1. {t.row.script : t \in ListScripts(r)} \subseteq Script
      BY ListScriptsType DEF Planned, Snapshot
    <2>2. [at |-> "archive", release |-> r,
           scripts |-> {t.row.script : t \in ListScripts(r)}] \in Local
      BY <2>1 DEF Local, ArchiveLocal
    <2>3. req' \in [Request -> Local]
      BY <1>5, <2>2, GotoType DEF BeginArchive
    <2>4. QED
      BY <1>5, <2>3 DEF BeginArchive, TypeOK, db, history
  <1>6. QED
    BY <1>1, <1>2, <1>3, <1>4, <1>5 DEF PushRequest, EditRequest, ReleaseRequest

LEMMA MarkRequestType ==
  ASSUME TypeOK, MarkRequest
  PROVE  TypeOK'
  <1>1. ASSUME NEW i \in RecordId, record[i] # NoRecord, NEW status \in {"success", "failed"},
               MarkManual(i, status), Vouch(i, status)
        PROVE  /\ record' \in [RecordId -> RecordRow \cup {NoRecord}]
               /\ vouched' \subseteq Release \X Script
    <2>1. record[i] \in RecordRow
      BY <1>1 DEF TypeOK
    <2>2. [record[i] EXCEPT !.status = status, !.mark = "manual"] \in RecordRow
      BY <2>1 DEF RecordRow, ExecStatus, MarkMethod
    <2>3. record' = [record EXCEPT ![i] =
                       [record[i] EXCEPT !.status = status, !.mark = "manual"]]
      BY <1>1, <2>1 DEF MarkManual, TypeOK, RecordRow
    <2>4. record' \in [RecordId -> RecordRow \cup {NoRecord}]
      BY <2>2, <2>3 DEF TypeOK
    <2>5. vouched' \subseteq Release \X Script
      BY <1>1, <2>1 DEF Vouch, TypeOK, RecordRow
    <2>6. QED
      BY <2>4, <2>5
  <1>2. ASSUME NEW i \in RecordId, NEW status \in {"success", "failed"},
               ManualMark(i, status)
        PROVE  TypeOK'
    BY <1>1, <1>2 DEF ManualMark, TypeOK
  <1>3. ASSUME NEW i \in RecordId, NEW q \in Request, AjaxManualMark(q, i)
        PROVE  TypeOK'
    <2>1. [at |-> "load", rec |-> i] \in Local
      BY DEF Local, MarkLocal
    <2>2. req' \in [Request -> Local]
      BY <1>3, <2>1, GotoType DEF AjaxManualMark
    <2>3. QED
      BY <1>1, <1>3, <2>2 DEF AjaxManualMark, TypeOK
  <1>4. ASSUME NEW i \in RecordId, DeleteExecution(i)
        PROVE  TypeOK'
    BY <1>4 DEF DeleteExecution, TypeOK, history
  <1>5. QED
    BY <1>2, <1>3, <1>4 DEF MarkRequest

LEMMA LinkRequestType ==
  ASSUME TypeOK, LinkRequest
  PROVE  TypeOK'
  <1>1. ASSUME NEW r \in Release, NEW s \in Script, InsertLink(r, s)
        PROVE  /\ link' \subseteq LinkRow /\ IsFiniteSet(link')
               /\ nextLink' \in Nat
    <2>1. IsFiniteSet(link \cup {[id |-> nextLink, release |-> r, script |-> s]})
      BY FS_AddElement DEF TypeOK
    <2>2. [id |-> nextLink, release |-> r, script |-> s] \in LinkRow
      BY DEF TypeOK, LinkRow
    <2>3. QED
      BY <1>1, <2>1, <2>2 DEF InsertLink, TypeOK
  <1>2. ASSUME NEW r \in Release, NEW s \in Script, AddReleaseScript(r, s)
        PROVE  TypeOK'
    BY <1>1, <1>2 DEF AddReleaseScript, TypeOK, history
  <1>3. ASSUME NEW q \in Request, NEW r \in Release, NEW s \in Script,
               AjaxAddReleaseScript(q, r, s)
        PROVE  TypeOK'
    <2>1. [at |-> "publish", release |-> r] \in Local
      BY DEF Local, PublishLocal
    <2>2. req' \in [Request -> Local]
      BY <1>3, <2>1, GotoType DEF AjaxAddReleaseScript
    <2>3. QED
      BY <1>1, <1>3, <2>2 DEF AjaxAddReleaseScript, TypeOK, history
  <1>4. ASSUME NEW r \in Release, NEW s \in Script, RemoveReleaseScript(r, s)
        PROVE  TypeOK'
    <2>1. link' \subseteq link
      BY <1>4 DEF RemoveReleaseScript
    <2>2. QED
      BY <1>4, <2>1, FS_Subset DEF RemoveReleaseScript, TypeOK, history
  <1>5. ASSUME NEW r \in Release, ClearAllScripts(r)
        PROVE  TypeOK'
    <2>1. link' \subseteq link
      BY <1>5 DEF ClearAllScripts
    <2>2. QED
      BY <1>5, <2>1, FS_Subset DEF ClearAllScripts, TypeOK, history
  <1>6. QED
    BY <1>2, <1>3, <1>4, <1>5 DEF LinkRequest

LEMMA NextType ==
  ASSUME TypeOK, [Next]_vars
  PROVE  TypeOK'
  <1>1. CASE Crash
    BY <1>1 DEF Crash, TypeOK, Local, db, history
  <1>2. CASE UNCHANGED vars
    BY <1>2 DEF vars, TypeOK
  <1>3. QED
    BY <1>1, <1>2, PushStepType, MarkStepType, OtherStepType, RequestType,
       MarkRequestType, LinkRequestType DEF Next

LEMMA InitType == Init => TypeOK
  BY BoundAssumption, FS_EmptySet
     DEF Init, TypeOK, ScriptRow, ScriptStatus, ReleaseStatus, RecordId, Local

\* Every table and every local state of a handler is well-formed, however many
\* requests, scripts and releases there are.
THEOREM TypeCorrect == Spec => []TypeOK
  BY InitType, NextType, PTL DEF Spec

-----------------------------------------------------------------------------
(* The inductive invariant.                                                *)

\* Histories only grow: a record is run once, a mark is never forgotten.
LEMMA HistoryGrows ==
  ASSUME IInv, [Next]_vars
  PROVE  /\ \A i \in RecordId : ran[i] # NotRun => ran'[i] = ran[i]
         /\ vouched \subseteq vouched'
  <1>1. ASSUME NEW q \in Request, ExecuteScript(q)
        PROVE  /\ \A i \in RecordId : ran[i] # NotRun => ran'[i] = ran[i]
               /\ vouched \subseteq vouched'
    <2>1. req[q].rec \in RecordId /\ ran[req[q].rec] = NotRun
      BY <1>1, Shapes DEF ExecuteScript, At, BodyAt, BodyLocal, IInv, Verdict
    <2>2. QED
      BY <1>1, <2>1 DEF ExecuteScript, IInv, TypeOK
  <1>2. ASSUME NEW q \in Request, PushStep(q), ~ExecuteScript(q)
        PROVE  UNCHANGED <<ran, vouched>>
    BY <1>2 DEF PushStep, CreateRecord, SkipScript, RecordResult, MarkExecuted, EndPush,
                history
  <1>3. ASSUME NEW q \in Request, MarkStep(q)
        PROVE  UNCHANGED <<ran, vouched>>
    BY <1>3 DEF MarkStep, LoadMarked, WriteMarked, CountLinks, CountRecords, Promote,
                history
  <1>4. ASSUME NEW q \in Request, OtherStep(q)
        PROVE  UNCHANGED <<ran, vouched>>
    BY <1>4 DEF OtherStep, SaveEdit, AutoPublish, SaveRelease, CommitArchive,
                RollbackArchive, history
  <1>5. ASSUME NEW q \in Request, PushRequest(q) \/ EditRequest(q) \/ ReleaseRequest(q)
        PROVE  UNCHANGED <<ran, vouched>>
    BY <1>5 DEF PushRequest, PushExecute, AjaxPushExecute, BeginPush, EditRequest,
                BeginEdit, ReleaseRequest, BeginUpdateRelease, BeginArchive, history
  <1>6. MarkRequest => UNCHANGED ran /\ vouched \subseteq vouched'
    BY DEF MarkRequest, ManualMark, AjaxManualMark, DeleteExecution, Vouch, history
  <1>7. LinkRequest => UNCHANGED <<ran, vouched>>
    BY DEF LinkRequest, AddReleaseScript, AjaxAddReleaseScript, RemoveReleaseScript,
           ClearAllScripts, history
  <1>8. Crash \/ UNCHANGED vars => UNCHANGED <<ran, vouched>>
    BY DEF Crash, vars, history
  <1>9. QED
    BY <1>1, <1>2, <1>3, <1>4, <1>5, <1>6, <1>7, <1>8 DEF Next

\* What was applied or vouched for stays so.
LEMMA ReasonsStay ==
  ASSUME IInv, [Next]_vars
  PROVE  /\ \A r \in Release, s \in Script, c \in Content :
              Applied(r, s, c) => Applied(r, s, c)'
         /\ \A s \in Script : VouchedFor(s) => VouchedFor(s)'
         /\ \A r \in Release : Justified(r) => Justified(r)'
  <1>1. ASSUME NEW r \in Release, NEW s \in Script, NEW c \in Content, Applied(r, s, c)
        PROVE  Applied(r, s, c)'
    <2>1. PICK i \in RecordId :
            ran[i] = [release |-> r, script |-> s, content |-> c, full |-> TRUE]
      BY <1>1 DEF Applied
    <2>2. ran[i] # NotRun
      <3>1. [release |-> r, script |-> s, content |-> c, full |-> TRUE] \in Run
        BY DEF Run
      <3>2. QED
        BY <2>1, <3>1, NotRunAssumption
    <2>3. ran'[i] = ran[i]
      BY <2>2, HistoryGrows
    <2>4. QED
      BY <2>1, <2>3 DEF Applied
  <1>2. \A s \in Script : VouchedFor(s) => VouchedFor(s)'
    BY HistoryGrows DEF VouchedFor
  <1>3. \A r \in Release : Justified(r) => Justified(r)'
    BY <1>1, HistoryGrows DEF Justified
  <1>4. QED
    BY <1>1, <1>2, <1>3

\* Records keep their release and script as long as they exist.
SameRecords == \A i \in RecordId :
  i < nextRecord /\ record'[i] # NoRecord =>
    /\ record[i] # NoRecord
    /\ record'[i].release = record[i].release
    /\ record'[i].script = record[i].script

\* A request that did not move keeps its reason.
LEMMA ReasonStays ==
  ASSUME IInv, [Next]_vars, NEW p \in Request, req'[p] = req[p],
         nextRecord' \in Nat, nextRecord <= nextRecord', SameRecords
  PROVE  HasReason(req[p])'
  <1>1. HasReason(req[p]) /\ TypeOK /\ nextRecord \in Nat
    BY DEF IInv, Reason, TypeOK
  <1>2. CASE At(p, "create")
    <2>1. req[p].release \in Release
      BY <1>1, <1>2, Shapes DEF LoopLocal
    <2>2. QED
      BY <1>1, <1>2, <2>1, ReasonsStay DEF HasReason, At
  <1>3. CASE At(p, "load")
    <2>1. req[p].rec \in RecordId
      BY <1>1, <1>3, Shapes
    <2>2. req[p].rec < nextRecord'
      BY <1>1, <1>3, <2>1 DEF HasReason, At, RecordId
    <2>3. QED
      BY <1>1, <1>3, <2>1, <2>2, HistoryGrows DEF HasReason, At, SameRecords
  <1>4. CASE At(p, "write")
    <2>1. req[p].release \in Release /\ req[p].row.script \in Script
      BY <1>1, <1>4, Shapes DEF Snapshot
    <2>2. QED
      BY <1>1, <1>4, <2>1, ReasonsStay DEF HasReason, At
  <1>5. CASE req[p].at \in {"countLinks", "countRecords", "promote"}
    <2>1. req[p].release \in Release
      BY <1>1, <1>5, Shapes DEF At
    <2>2. QED
      BY <1>1, <1>5, <2>1, ReasonsStay DEF HasReason
  <1>6. CASE At(p, "rename")
    <2>1. req[p].release \in Release
      BY <1>1, <1>6, Shapes DEF RenameLocal
    <2>2. QED
      BY <1>1, <1>6, <2>1, ReasonsStay DEF HasReason, At
  <1>7. CASE req[p].at \notin {"create", "load", "write", "countLinks", "countRecords",
                               "promote", "rename"}
    BY <1>1, <1>7 DEF HasReason
  <1>8. QED
    BY <1>2, <1>3, <1>4, <1>5, <1>6, <1>7 DEF At

\* A step that neither creates, changes nor runs a record keeps the invariant
\* if it leaves the request outside a loop body, with a reason for what it
\* will write, and writes only justified statuses.
LEMMA MoveKeepsInvariant ==
  ASSUME IInv, [Next]_vars, NEW q \in Request, NEW local \in Local,
         Goto(q, local), local.at \notin BodyAt, HasReason(local)',
         UNCHANGED <<record, nextRecord, ran>>,
         ExecutedTextRan', ExecutingJustified'
  PROVE  IInv'
  <1>1. TypeOK'
    BY NextType DEF IInv
  <1>2. /\ req'[q] = local
        /\ \A p \in Request \ {q} : req'[p] = req[p]
    BY DEF Goto, IInv, TypeOK
  <1>3. Fresh'
    BY DEF IInv, Fresh
  <1>4. Owned'
    BY <1>2 DEF IInv, Owned
  <1>5. Verdict'
    BY <1>2 DEF IInv, Verdict, At, BodyAt, Applied
  <1>6. Reason'
    <2> SameRecords /\ nextRecord' \in Nat /\ nextRecord <= nextRecord'
      BY DEF SameRecords, IInv, TypeOK
    <2>1. ASSUME NEW p \in Request \ {q}
          PROVE  HasReason(req[p])'
      BY <1>2, ReasonStays
    <2>2. QED
      BY <1>2, <2>1 DEF Reason
  <1>7. AutoResultTruthful'
    BY DEF IInv, AutoResultTruthful
  <1>8. QED
    BY <1>1, <1>3, <1>4, <1>5, <1>6, <1>7 DEF IInv

\* A script nobody wrote keeps its reason to be executed, and so does a release.
LEMMA TextStays ==
  ASSUME IInv, [Next]_vars, NEW s \in Script, script'[s] = script[s],
         script[s].status = "executed"
  PROVE  VouchedFor(s)' \/ \E r \in Release : Applied(r, s, script[s].content)'
  <1>1. script[s].content \in Content
    BY DEF IInv, TypeOK, ScriptRow
  <1>2. VouchedFor(s) \/ \E r \in Release : Applied(r, s, script[s].content)
    BY DEF IInv, ExecutedTextRan
  <1>3. QED
    BY <1>1, <1>2, ReasonsStay DEF Applied

LEMMA AllTextsStay ==
  ASSUME IInv, [Next]_vars, UNCHANGED script
  PROVE  ExecutedTextRan'
  BY TextStays DEF ExecutedTextRan

LEMMA AllReleasesStay ==
  ASSUME IInv, [Next]_vars, UNCHANGED release
  PROVE  ExecutingJustified'
  BY ReasonsStay DEF IInv, ExecutingJustified

\* Writing a snapshot back as executed needs a reason, another status does not.
LEMMA WrittenTextRan ==
  ASSUME IInv, [Next]_vars, NEW row \in Snapshot, NEW status \in ScriptStatus,
         UpdateScript(row, status),
         status = "executed" =>
           \/ VouchedFor(row.script)
           \/ \E r \in Release : Applied(r, row.script, row.content)
  PROVE  ExecutedTextRan'
  <1>1. row.script \in Script /\ row.content \in Content
    BY DEF Snapshot
  <1>2. /\ script'[row.script] = [status |-> status, content |-> row.content]
        /\ \A s \in Script \ {row.script} : script'[s] = script[s]
    BY <1>1 DEF UpdateScript, IInv, TypeOK
  <1>3. ASSUME status = "executed"
        PROVE  \/ VouchedFor(row.script)'
               \/ \E r \in Release : Applied(r, row.script, script[row.script].content)'
    BY <1>1, <1>2, <1>3, ReasonsStay DEF Applied
  <1>4. QED
    BY <1>2, <1>3, TextStays DEF ExecutedTextRan

LEMMA SetReleaseJustified ==
  ASSUME IInv, [Next]_vars, NEW r \in Release, NEW status \in ReleaseStatus,
         SetRelease(r, status), status = "executing" => Justified(r)
  PROVE  ExecutingJustified'
  <1>1. \A p \in Release : release'[p] = "executing" => Justified(p)
    BY DEF SetRelease, IInv, TypeOK, ExecutingJustified
  <1>2. QED
    BY <1>1, ReasonsStay DEF ExecutingJustified

\* Beginning a request: it has read what it will write.
LEMMA RequestKeepsInvariant ==
  ASSUME IInv, [Next]_vars, NEW q \in Request,
         PushRequest(q) \/ EditRequest(q) \/ ReleaseRequest(q)
  PROVE  IInv'
  <1> TypeOK
    BY DEF IInv
  <1>1. ASSUME NEW r \in Release, NEW rows \in SUBSET Planned, BeginPush(q, r, rows)
        PROVE  IInv'
    <2> DEFINE local == [at |-> "create", release |-> r, plan |-> rows, todo |-> rows,
                         ok |-> TRUE]
    <2>1. local \in Local
      BY DEF Local, LoopLocal
    <2>2. HasReason(local)'
      BY <1>1 DEF BeginPush, HasReason
    <2>3. ExecutedTextRan' /\ ExecutingJustified'
      BY <1>1, AllTextsStay, AllReleasesStay DEF BeginPush, db
    <2>4. Goto(q, local) /\ UNCHANGED <<record, nextRecord, ran>>
      BY <1>1 DEF BeginPush, db, history
    <2>5. QED
      BY <2>1, <2>2, <2>3, <2>4, MoveKeepsInvariant DEF BodyAt
  <1>2. ASSUME NEW r \in Release, PushExecute(q, r)
        PROVE  IInv'
    BY <1>1, <1>2, ListScriptsType DEF PushExecute
  <1>3. ASSUME NEW r \in Release, NEW ids \in SUBSET Script, AjaxPushExecute(q, r, ids)
        PROVE  IInv'
    <2>1. FilterScripts(ListScripts(r), ids) \subseteq Planned
      BY ListScriptsType DEF FilterScripts
    <2>2. QED
      BY <1>1, <1>3, <2>1 DEF AjaxPushExecute
  <1>4. ASSUME NEW s \in Script, BeginEdit(q, s)
        PROVE  IInv'
    <2>1. PICK local \in Local : local = [at |-> "save", row |-> Load(s)]
      BY LoadType DEF Local, EditLocal
    <2>2. HasReason(local)'
      BY <1>4, <2>1 DEF BeginEdit, HasReason, Load
    <2>3. ExecutedTextRan' /\ ExecutingJustified'
      BY <1>4, AllTextsStay, AllReleasesStay DEF BeginEdit, db
    <2>4. Goto(q, local) /\ UNCHANGED <<record, nextRecord, ran>>
      BY <1>4, <2>1 DEF BeginEdit, db, history
    <2>5. QED
      BY <2>1, <2>2, <2>3, <2>4, MoveKeepsInvariant DEF BodyAt
  <1>5. ASSUME NEW r \in Release, BeginUpdateRelease(q, r)
        PROVE  IInv'
    <2>1. PICK local \in Local :
            local = [at |-> "rename", release |-> r, status |-> release[r]]
      BY DEF Local, RenameLocal, TypeOK
    <2>2. HasReason(local)'
      BY <2>1, ReasonsStay DEF HasReason, IInv, ExecutingJustified
    <2>3. ExecutedTextRan' /\ ExecutingJustified'
      BY <1>5, AllTextsStay, AllReleasesStay DEF BeginUpdateRelease, db
    <2>4. Goto(q, local) /\ UNCHANGED <<record, nextRecord, ran>>
      BY <1>5, <2>1 DEF BeginUpdateRelease, db, history
    <2>5. QED
      BY <2>1, <2>2, <2>3, <2>4, MoveKeepsInvariant DEF BodyAt
  <1>6. ASSUME NEW r \in Release, BeginArchive(q, r)
        PROVE  IInv'
    <2>1. PICK local \in Local :
            local = [at |-> "archive", release |-> r,
                     scripts |-> {t.row.script : t \in ListScripts(r)}]
      <3>1. {t.row.script : t \in ListScripts(r)} \subseteq Script
        BY ListScriptsType DEF Planned, Snapshot
      <3>2. QED
        BY <3>1 DEF Local, ArchiveLocal
    <2>2. HasReason(local)'
      BY <2>1 DEF HasReason
    <2>3. ExecutedTextRan' /\ ExecutingJustified'
      BY <1>6, AllTextsStay, AllReleasesStay DEF BeginArchive, db
    <2>4. Goto(q, local) /\ UNCHANGED <<record, nextRecord, ran>>
      BY <1>6, <2>1 DEF BeginArchive, db, history
    <2>5. QED
      BY <2>1, <2>2, <2>3, <2>4, MoveKeepsInvariant DEF BodyAt
  <1>7. QED
    BY <1>2, <1>3, <1>4, <1>5, <1>6 DEF PushRequest, EditRequest, ReleaseRequest

LEMMA MarkStepKeepsInvariant ==
  ASSUME IInv, [Next]_vars, NEW q \in Request, MarkStep(q)
  PROVE  IInv'
  <1> TypeOK /\ HasReason(req[q]) /\ Idle \in Local /\ Idle.at \notin BodyAt
      /\ HasReason(Idle)'
    BY DEF IInv, Reason, Local, HasReason, Idle, BodyAt
  <1>1. CASE LoadMarked(q)
    <2>1. req[q].rec \in RecordId
      BY <1>1, Shapes DEF LoadMarked
    <2>2. ExecutedTextRan' /\ ExecutingJustified'
      BY <1>1, AllTextsStay, AllReleasesStay DEF LoadMarked, db
    <2>3. UNCHANGED <<record, nextRecord, ran>>
      BY <1>1 DEF LoadMarked, db, history
    <2>4. CASE Goto(q, Idle)
      BY <2>2, <2>3, <2>4, MoveKeepsInvariant
    <2>5. CASE record[req[q].rec] # NoRecord /\ ~Goto(q, Idle)
      <3>1. PICK rec \in RecordRow : rec = record[req[q].rec]
        BY <2>1, <2>5 DEF TypeOK
      <3>2. rec.script \in Script /\ rec.release \in Release
        BY DEF RecordRow
      <3>3. <<rec.release, rec.script>> \in vouched
        BY <1>1, <2>5, <3>1 DEF LoadMarked, At, HasReason
      <3>4. VouchedFor(rec.script)' /\ Justified(rec.release)'
        BY <3>2, <3>3, HistoryGrows DEF VouchedFor, Justified
      <3>5. PICK local \in Local :
              local = [at |-> "write", row |-> Load(rec.script), release |-> rec.release]
        BY <3>2, LoadType DEF Local, MarkLocal
      <3>6. PICK next \in Local : next = [at |-> "countLinks", release |-> rec.release]
        BY <3>2 DEF Local, MarkLocal
      <3>7. /\ HasReason(local)' /\ local.at \notin BodyAt
            /\ HasReason(next)' /\ next.at \notin BodyAt
        BY <3>4, <3>5, <3>6 DEF HasReason, Load, BodyAt
      <3>8. Goto(q, local) \/ Goto(q, next)
        BY <1>1, <2>5, <3>1, <3>5, <3>6 DEF LoadMarked
      <3>9. QED
        BY <2>2, <2>3, <3>7, <3>8, MoveKeepsInvariant
    <2>6. QED
      BY <1>1, <2>4, <2>5 DEF LoadMarked
  <1>2. CASE WriteMarked(q)
    <2>1. req[q].row \in Snapshot /\ req[q].release \in Release
      BY <1>2, Shapes DEF WriteMarked
    <2>2. VouchedFor(req[q].row.script) /\ Justified(req[q].release)
      BY <1>2 DEF WriteMarked, At, HasReason
    <2>3. ExecutedTextRan'
      BY <1>2, <2>1, <2>2, AllTextsStay, WrittenTextRan DEF WriteMarked, ScriptStatus
    <2>4. ExecutingJustified'
      BY <1>2, AllReleasesStay DEF WriteMarked
    <2>5. PICK local \in Local : local = [at |-> "countLinks", release |-> req[q].release]
      BY <2>1 DEF Local, MarkLocal
    <2>6. HasReason(local)' /\ local.at \notin BodyAt
      BY <2>1, <2>2, <2>5, ReasonsStay DEF HasReason, BodyAt
    <2>7. Goto(q, local) /\ UNCHANGED <<record, nextRecord, ran>>
      BY <1>2, <2>5 DEF WriteMarked, history
    <2>8. QED
      BY <2>3, <2>4, <2>6, <2>7, MoveKeepsInvariant
  <1>3. CASE CountLinks(q)
    <2>1. PICK r \in Release : r = req[q].release
      BY <1>3, Shapes DEF CountLinks
    <2>2. Justified(r)'
      BY <1>3, <2>1, ReasonsStay DEF CountLinks, At, HasReason
    <2>3. ExecutedTextRan' /\ ExecutingJustified' /\ UNCHANGED <<record, nextRecord, ran>>
      BY <1>3, AllTextsStay, AllReleasesStay DEF CountLinks, db, history
    <2>4. CASE Goto(q, Idle)
      BY <2>3, <2>4, MoveKeepsInvariant
    <2>5. CASE ~Goto(q, Idle)
      <3>1. Cardinality(LinksOf(req[q].release)) \in Nat
        BY FS_Subset, FS_CardinalityType DEF TypeOK, LinksOf
      <3>2. PICK local \in Local :
              local = [at |-> "countRecords", release |-> req[q].release,
                       total |-> Cardinality(LinksOf(req[q].release))]
        BY <2>1, <3>1 DEF Local, MarkLocal
      <3>3. HasReason(local)' /\ local.at \notin BodyAt
        BY <2>1, <2>2, <3>2 DEF HasReason, BodyAt
      <3>4. Goto(q, local)
        BY <1>3, <2>5, <3>2 DEF CountLinks
      <3>5. QED
        BY <2>3, <3>3, <3>4, MoveKeepsInvariant
    <2>6. QED
      BY <2>4, <2>5
  <1>4. CASE CountRecords(q)
    <2>1. PICK r \in Release : r = req[q].release
      BY <1>4, Shapes DEF CountRecords
    <2>2. Justified(r)'
      BY <1>4, <2>1, ReasonsStay DEF CountRecords, At, HasReason
    <2>3. ExecutedTextRan' /\ ExecutingJustified' /\ UNCHANGED <<record, nextRecord, ran>>
      BY <1>4, AllTextsStay, AllReleasesStay DEF CountRecords, db, history
    <2>4. PICK local \in Local : local = [at |-> "promote", release |-> req[q].release]
      BY <2>1 DEF Local, MarkLocal
    <2>5. HasReason(local)' /\ local.at \notin BodyAt
      BY <2>1, <2>2, <2>4 DEF HasReason, BodyAt
    <2>6. Goto(q, local) \/ Goto(q, Idle)
      BY <1>4, <2>4 DEF CountRecords
    <2>7. QED
      BY <2>3, <2>5, <2>6, MoveKeepsInvariant
  <1>5. CASE Promote(q)
    <2>1. req[q].release \in Release
      BY <1>5, Shapes DEF Promote
    <2>2. ExecutingJustified'
      BY <1>5, <2>1, SetReleaseJustified DEF Promote, At, HasReason, ReleaseStatus
    <2>3. ExecutedTextRan' /\ UNCHANGED <<record, nextRecord, ran>> /\ Goto(q, Idle)
      BY <1>5, AllTextsStay DEF Promote, history
    <2>4. QED
      BY <2>2, <2>3, MoveKeepsInvariant
  <1>6. QED
    BY <1>1, <1>2, <1>3, <1>4, <1>5 DEF MarkStep

LEMMA OtherStepKeepsInvariant ==
  ASSUME IInv, [Next]_vars, NEW q \in Request, OtherStep(q)
  PROVE  IInv'
  <1> TypeOK /\ HasReason(req[q]) /\ Idle \in Local /\ Idle.at \notin BodyAt
      /\ HasReason(Idle)'
    BY DEF IInv, Reason, Local, HasReason, Idle, BodyAt
  <1>1. ASSUME NEW c \in Content, SaveEdit(q, c)
        PROVE  IInv'
    <2>1. req[q].row \in Snapshot
      BY <1>1, Shapes DEF SaveEdit, EditLocal
    <2>2. req[q].row.status = "draft"
      BY <1>1 DEF SaveEdit, At, HasReason
    <2>3. [req[q].row EXCEPT !.content = c] \in Snapshot
      BY <2>1 DEF Snapshot
    <2>4. ExecutedTextRan'
      BY <1>1, <2>2, <2>3, AllTextsStay, WrittenTextRan DEF SaveEdit, ScriptStatus
    <2>5. ExecutingJustified' /\ UNCHANGED <<record, nextRecord, ran>> /\ Goto(q, Idle)
      BY <1>1, AllReleasesStay DEF SaveEdit, history
    <2>6. QED
      BY <2>4, <2>5, MoveKeepsInvariant
  <1>2. CASE AutoPublish(q)
    <2>1. req[q].release \in Release
      BY <1>2, Shapes DEF AutoPublish, PublishLocal
    <2>2. ExecutingJustified'
      BY <1>2, <2>1, AllReleasesStay, SetReleaseJustified DEF AutoPublish, ReleaseStatus
    <2>3. ExecutedTextRan' /\ UNCHANGED <<record, nextRecord, ran>> /\ Goto(q, Idle)
      BY <1>2, AllTextsStay DEF AutoPublish, history
    <2>4. QED
      BY <2>2, <2>3, MoveKeepsInvariant
  <1>3. CASE SaveRelease(q)
    <2>1. req[q].release \in Release /\ req[q].status \in ReleaseStatus
      BY <1>3, Shapes DEF SaveRelease, RenameLocal
    <2>2. ExecutingJustified'
      BY <1>3, <2>1, SetReleaseJustified DEF SaveRelease, At, HasReason
    <2>3. ExecutedTextRan' /\ UNCHANGED <<record, nextRecord, ran>> /\ Goto(q, Idle)
      BY <1>3, AllTextsStay DEF SaveRelease, history
    <2>4. QED
      BY <2>2, <2>3, MoveKeepsInvariant
  <1>4. CASE CommitArchive(q)
    <2>1. ExecutedTextRan'
      <3>1. ASSUME NEW s \in Script, script'[s].status = "executed"
            PROVE  script'[s] = script[s]
        BY <1>4, <3>1 DEF CommitArchive, TypeOK, ScriptRow
      <3>2. QED
        BY <3>1, TextStays DEF ExecutedTextRan
    <2>2. ExecutingJustified'
      <3>1. \A r \in Release : release'[r] = "executing" => release[r] = "executing"
        BY <1>4 DEF CommitArchive, TypeOK
      <3>2. QED
        BY <3>1, ReasonsStay DEF IInv, ExecutingJustified
    <2>3. UNCHANGED <<record, nextRecord, ran>> /\ Goto(q, Idle)
      BY <1>4 DEF CommitArchive, history
    <2>4. QED
      BY <2>1, <2>2, <2>3, MoveKeepsInvariant
  <1>5. CASE RollbackArchive(q)
    <2>1. ExecutedTextRan' /\ ExecutingJustified'
      BY <1>5, AllTextsStay, AllReleasesStay DEF RollbackArchive, db
    <2>2. UNCHANGED <<record, nextRecord, ran>> /\ Goto(q, Idle)
      BY <1>5 DEF RollbackArchive, db, history
    <2>3. QED
      BY <2>1, <2>2, MoveKeepsInvariant
  <1>6. QED
    BY <1>1, <1>2, <1>3, <1>4, <1>5 DEF OtherStep

\* What another step's bookkeeping must respect for the requests that did not
\* take the step.
LEMMA OthersKeepReason ==
  ASSUME IInv, [Next]_vars, NEW q \in Request, NEW local \in Local, Goto(q, local),
         HasReason(local)', SameRecords, nextRecord' \in Nat, nextRecord <= nextRecord'
  PROVE  Reason'
  <1>1. /\ req'[q] = local
        /\ \A p \in Request \ {q} : req'[p] = req[p]
    BY DEF Goto, IInv, TypeOK
  <1>2. ASSUME NEW p \in Request \ {q}
        PROVE  HasReason(req[p])'
    BY <1>1, ReasonStays
  <1>3. QED
    BY <1>1, <1>2 DEF Reason

LEMMA CreateRecordKeepsInvariant ==
  ASSUME IInv, [Next]_vars, NEW q \in Request, CreateRecord(q)
  PROVE  IInv'
  <1> TypeOK /\ TypeOK' /\ nextRecord \in RecordId /\ nextRecord' = nextRecord + 1
    BY NextType DEF IInv, CreateRecord
  <1>1. req[q] \in LoopLocal
    BY Shapes DEF CreateRecord
  <1>2. PICK t \in req[q].todo :
          /\ record' = [record EXCEPT ![nextRecord] =
                          [release |-> req[q].release, script |-> t.row.script,
                           status |-> "pending", mark |-> "auto"]]
          /\ Goto(q, [at |-> "execute", release |-> req[q].release,
                      plan |-> req[q].plan, todo |-> req[q].todo \ {t},
                      ok |-> req[q].ok, row |-> t.row, rec |-> nextRecord,
                      success |-> FALSE])
    BY DEF CreateRecord
  <1>3. t \in Planned /\ t.row \in Snapshot /\ t.row.script \in Script
    BY <1>1 DEF LoopLocal, Planned, Snapshot
  <1>4. PICK row \in RecordRow :
          row = [release |-> req[q].release, script |-> t.row.script,
                 status |-> "pending", mark |-> "auto"]
    BY <1>1, <1>3 DEF LoopLocal, RecordRow, ExecStatus, MarkMethod
  <1>5. PICK local \in BodyLocal :
          local = [at |-> "execute", release |-> req[q].release, plan |-> req[q].plan,
                   todo |-> req[q].todo \ {t}, ok |-> req[q].ok, row |-> t.row,
                   rec |-> nextRecord, success |-> FALSE]
    BY <1>1, <1>3 DEF LoopLocal, BodyLocal, BodyAt
  <1>6. /\ req'[q] = local
        /\ \A p \in Request \ {q} : req'[p] = req[p]
        /\ record'[nextRecord] = row
        /\ \A i \in RecordId \ {nextRecord} : record'[i] = record[i]
        /\ ran' = ran
    BY <1>2, <1>4, <1>5 DEF Goto, TypeOK, CreateRecord, history
  <1>7. Fresh'
    BY <1>6 DEF IInv, Fresh, RecordId
  <1>8. \A p \in Request \ {q} :
          req[p].at \in BodyAt => req[p].rec \in RecordId /\ req[p].rec < nextRecord
    BY Shapes DEF IInv, Owned, BodyLocal
  <1>9. Owned'
    <2>1. ASSUME NEW p \in Request, p # q, req'[p].at \in BodyAt
          PROVE  /\ req[p].rec < nextRecord'
                 /\ req[p].rec # nextRecord
                 /\ record'[req[p].rec] = record[req[p].rec]
      BY <2>1, <1>6, <1>8 DEF RecordId
    <2>2. QED
      BY <1>4, <1>5, <1>6, <2>1 DEF IInv, Owned, RecordId
  <1>10. Verdict'
    <2>1. ASSUME NEW p \in Request, p # q, req'[p].at \in BodyAt
          PROVE  record'[req[p].rec] = record[req[p].rec]
      BY <2>1, <1>6, <1>8 DEF RecordId
    <2>2. ran[nextRecord] = NotRun
      BY DEF IInv, Fresh, RecordId
    <2>3. QED
      BY <1>4, <1>5, <1>6, <2>1, <2>2 DEF IInv, Verdict, At, BodyAt, Applied
  <1>11. Reason'
    <2>1. SameRecords
      BY <1>6 DEF SameRecords, RecordId
    <2>2. HasReason(local)'
      BY <1>5 DEF HasReason
    <2>3. local \in Local /\ Goto(q, local)
      BY <1>2, <1>5 DEF Local
    <2>4. QED
      BY <2>1, <2>2, <2>3, OthersKeepReason DEF TypeOK
  <1>12. AutoResultTruthful'
    BY <1>4, <1>6 DEF IInv, AutoResultTruthful
  <1>13. ExecutedTextRan' /\ ExecutingJustified'
    BY AllTextsStay, AllReleasesStay DEF CreateRecord
  <1>14. QED
    BY <1>7, <1>9, <1>10, <1>11, <1>12, <1>13 DEF IInv

LEMMA ExecuteScriptKeepsInvariant ==
  ASSUME IInv, [Next]_vars, NEW q \in Request, ExecuteScript(q)
  PROVE  IInv'
  <1> TypeOK /\ TypeOK'
    BY NextType DEF IInv
  <1>1. req[q] \in BodyLocal /\ req[q].at \in BodyAt /\ req[q].rec \in RecordId
    BY Shapes DEF ExecuteScript, At, BodyAt, BodyLocal
  <1>2. PICK full, success \in BOOLEAN :
          /\ success => full
          /\ ran' = [ran EXCEPT ![req[q].rec] =
                       [release |-> req[q].release, script |-> req[q].row.script,
                        content |-> req[q].row.content, full |-> full]]
          /\ Goto(q, [req[q] EXCEPT !.at = "result", !.success = success])
    BY DEF ExecuteScript
  <1>3. PICK run \in Run :
          run = [release |-> req[q].release, script |-> req[q].row.script,
                 content |-> req[q].row.content, full |-> full]
    BY <1>1 DEF BodyLocal, Snapshot, Run
  <1>4. PICK local \in BodyLocal :
          local = [req[q] EXCEPT !.at = "result", !.success = success]
    BY <1>1 DEF BodyLocal, BodyAt
  <1>5. /\ local.at = "result" /\ local.rec = req[q].rec /\ local.success = success
        /\ local.release = req[q].release /\ local.row = req[q].row
    BY <1>1, <1>4 DEF BodyLocal
  <1>6. /\ req'[q] = local
        /\ \A p \in Request \ {q} : req'[p] = req[p]
        /\ ran'[req[q].rec] = run
        /\ \A i \in RecordId \ {req[q].rec} : ran'[i] = ran[i]
        /\ UNCHANGED <<record, nextRecord, script, release>>
    BY <1>1, <1>2, <1>3, <1>4 DEF Goto, TypeOK, ExecuteScript, db
  <1>7. req[q].rec < nextRecord
    BY <1>1 DEF IInv, Owned
  <1>8. Fresh'
    BY <1>1, <1>6, <1>7 DEF IInv, Fresh, RecordId, TypeOK
  <1>9. Owned'
    BY <1>1, <1>5, <1>6 DEF IInv, Owned
  <1>10. Verdict'
    <2>1. ASSUME NEW p \in Request \ {q}, req[p].at \in BodyAt
          PROVE  /\ ran'[req[p].rec] = ran[req[p].rec]
                 /\ req[p] \in BodyLocal
      <3>1. req[p].rec \in RecordId /\ req[p] \in BodyLocal
        BY <2>1, Shapes DEF BodyLocal
      <3>2. req[p].rec # req[q].rec
        BY <1>1, <2>1 DEF IInv, Owned
      <3>3. QED
        BY <1>6, <3>1, <3>2
    <2>2. ASSUME NEW p \in Request \ {q}, req[p].at = "script"
          PROVE  Applied(req[p].release, req[p].row.script, req[p].row.content)'
      <3>1. req[p] \in BodyLocal
        BY <2>1, <2>2 DEF BodyAt
      <3>2. PICK r \in Release, s \in Script, c \in Content :
              r = req[p].release /\ s = req[p].row.script /\ c = req[p].row.content
        BY <3>1 DEF BodyLocal, Snapshot
      <3>3. Applied(r, s, c)'
        BY <2>2, <3>2, ReasonsStay DEF IInv, Verdict, At
      <3>4. QED
        BY <1>6, <3>2, <3>3
    <2>3. ASSUME NEW p \in Request \ {q}
          PROVE  /\ req'[p].at = "execute" =>
                      /\ ran'[req'[p].rec] = NotRun
                      /\ record'[req'[p].rec] # NoRecord
                           /\ record'[req'[p].rec].mark = "auto" =>
                           record'[req'[p].rec].status = "pending"
                 /\ req'[p].at = "result" =>
                      /\ ran'[req'[p].rec] # NotRun
                      /\ ran'[req'[p].rec].release = req'[p].release
                      /\ ran'[req'[p].rec].script = req'[p].row.script
                      /\ ran'[req'[p].rec].content = req'[p].row.content
                      /\ req'[p].success => ran'[req'[p].rec].full
      BY <1>6, <2>1, <2>3 DEF IInv, Verdict, At, BodyAt
    <2>4. /\ run # NotRun
          /\ run.release = req[q].release /\ run.script = req[q].row.script
          /\ run.content = req[q].row.content
          /\ success => run.full
      BY <1>2, <1>3, NotRunAssumption
    <2>5. QED
      BY <1>5, <1>6, <2>2, <2>3, <2>4 DEF Verdict, At
  <1>11. Reason'
    <2>1. SameRecords
      BY <1>6 DEF SameRecords
    <2>2. HasReason(local)'
      BY <1>5 DEF HasReason
    <2>3. local \in Local /\ Goto(q, local)
      BY <1>2, <1>4 DEF Local
    <2>4. QED
      BY <1>6, <2>1, <2>2, <2>3, OthersKeepReason DEF TypeOK
  <1>12. AutoResultTruthful'
    <2>1. record[req[q].rec] # NoRecord /\ record[req[q].rec].mark = "auto" =>
            record[req[q].rec].status = "pending"
      BY DEF IInv, Verdict, ExecuteScript
    <2>2. QED
      BY <1>6, <2>1 DEF IInv, AutoResultTruthful
  <1>13. ExecutedTextRan' /\ ExecutingJustified'
    BY <1>6, AllTextsStay, AllReleasesStay
  <1>14. QED
    BY <1>8, <1>9, <1>10, <1>11, <1>12, <1>13 DEF IInv

LEMMA RecordResultKeepsInvariant ==
  ASSUME IInv, [Next]_vars, NEW q \in Request, RecordResult(q)
  PROVE  IInv'
  <1> TypeOK /\ TypeOK'
    BY NextType DEF IInv
  <1> DEFINE verdict == IF req[q].success THEN "success" ELSE "failed"
  <1>1. req[q] \in BodyLocal /\ req[q].at \in BodyAt /\ req[q].rec \in RecordId
    BY Shapes DEF RecordResult, At, BodyAt, BodyLocal
  <1>2. PICK rec \in RecordId : rec = req[q].rec
    BY <1>1
  <1>3. rec < nextRecord
    BY <1>1, <1>2 DEF IInv, Owned
  <1>4. /\ ran[rec] \in Run
        /\ ran[rec] # NotRun
        /\ ran[rec].release = req[q].release
        /\ ran[rec].script = req[q].row.script
        /\ ran[rec].content = req[q].row.content
        /\ req[q].success => ran[rec].full
    BY <1>2 DEF IInv, Verdict, RecordResult, TypeOK
  <1>5. /\ \A i \in RecordId \ {rec} : record'[i] = record[i]
        /\ record[rec] = NoRecord => record'[rec] = NoRecord
        /\ record[rec] # NoRecord =>
             /\ record'[rec].release = record[rec].release
             /\ record'[rec].script = record[rec].script
             /\ record'[rec].mark = record[rec].mark
             /\ record'[rec].status \in {record[rec].status, verdict}
        /\ UNCHANGED <<ran, nextRecord, script, release>>
    <2>1. record' = record
            \/ /\ record[rec] # NoRecord
               /\ record' = [record EXCEPT ![rec].status = verdict]
      BY <1>2 DEF RecordResult
    <2>2. record[rec] # NoRecord => record[rec] \in RecordRow
      BY DEF TypeOK
    <2>3. QED
      BY <2>1, <2>2 DEF RecordResult, history, TypeOK, RecordRow
  <1>6. PICK local \in Local :
          /\ Goto(q, local)
          /\ local = IF req[q].success THEN [req[q] EXCEPT !.at = "script"]
                                       ELSE Loop(q, req[q].todo, FALSE)
    <2>1. [req[q] EXCEPT !.at = "script"] \in Local
      BY <1>1 DEF BodyLocal, BodyAt, Local
    <2>2. Loop(q, req[q].todo, FALSE) \in Local
      BY <1>1, LoopType
    <2>3. QED
      BY <2>1, <2>2 DEF RecordResult
  <1>7. /\ req'[q] = local
        /\ \A p \in Request \ {q} : req'[p] = req[p]
    BY <1>6 DEF Goto, TypeOK
  <1>8. \/ /\ req[q].success
           /\ local.at = "script" /\ local.rec = rec
           /\ local.release = req[q].release /\ local.row = req[q].row
        \/ local.at = "create" /\ ~local.ok
    BY <1>1, <1>2, <1>6 DEF BodyLocal, Loop
  <1>9. Fresh'
    BY <1>3, <1>5 DEF IInv, Fresh, RecordId, TypeOK
  <1>10. Owned'
    <2>1. \A i \in RecordId : record'[i] # NoRecord =>
            /\ record[i] # NoRecord
            /\ record'[i].release = record[i].release
            /\ record'[i].script = record[i].script
      BY <1>5
    <2>2. \A p \in Request : req[p].at \in BodyAt => req[p].rec \in RecordId
      BY Shapes DEF BodyLocal
    <2>3. QED
      BY <1>1, <1>2, <1>5, <1>7, <1>8, <2>1, <2>2 DEF IInv, Owned, BodyAt
  <1>11. Verdict'
    <2>1. ASSUME NEW p \in Request \ {q}, req[p].at \in BodyAt
          PROVE  record'[req[p].rec] = record[req[p].rec]
      <3>1. req[p].rec \in RecordId
        BY <2>1, Shapes DEF BodyLocal
      <3>2. req[p].rec # rec
        BY <1>1, <1>2, <2>1 DEF IInv, Owned
      <3>3. QED
        BY <1>5, <3>1, <3>2
    <2>2. req[q].success =>
            Applied(req[q].release, req[q].row.script, req[q].row.content)
      BY <1>4 DEF Applied, Run
    <2>3. \A p \in Request \ {q} :
            req[p].at = "script" =>
              Applied(req[p].release, req[p].row.script, req[p].row.content)
      BY DEF IInv, Verdict, At
    <2>4. ASSUME NEW p \in Request, req'[p].at = "script"
          PROVE  Applied(req[p].release, req[p].row.script, req[p].row.content)'
      <3>1. CASE p = q
        BY <1>5, <1>7, <1>8, <2>2, <2>4, <3>1 DEF Applied
      <3>2. CASE p # q
        BY <1>5, <1>7, <2>3, <2>4, <3>2 DEF Applied
      <3>3. QED
        BY <3>1, <3>2
    <2>5. ASSUME NEW p \in Request, req'[p].at \in {"execute", "result"}
          PROVE  /\ req'[p] = req[p]
                 /\ record'[req[p].rec] = record[req[p].rec]
                 /\ ran' = ran
      BY <1>5, <1>7, <1>8, <2>1, <2>5 DEF BodyAt
    <2>6. QED
      BY <2>4, <2>5 DEF IInv, Verdict, At
  <1>12. Reason'
    <2>1. SameRecords
      BY <1>5 DEF SameRecords
    <2>2. HasReason(local)'
      BY <1>8 DEF HasReason
    <2>3. nextRecord' \in Nat /\ nextRecord <= nextRecord'
      BY <1>5 DEF TypeOK
    <2>4. Goto(q, local)
      BY <1>6
    <2>5. QED
      BY <2>1, <2>2, <2>3, <2>4, OthersKeepReason
  <1>13. AutoResultTruthful'
    <2>1. record[rec] # NoRecord => /\ record[rec].release = req[q].release
                                    /\ record[rec].script = req[q].row.script
      BY <1>1, <1>2 DEF IInv, Owned
    <2>2. QED
      BY <1>4, <1>5, <2>1 DEF IInv, AutoResultTruthful
  <1>14. ExecutedTextRan' /\ ExecutingJustified'
    BY <1>5, AllTextsStay, AllReleasesStay
  <1>15. QED
    BY <1>9, <1>10, <1>11, <1>12, <1>13, <1>14 DEF IInv

LEMMA PushStepKeepsInvariant ==
  ASSUME IInv, [Next]_vars, NEW q \in Request, PushStep(q)
  PROVE  IInv'
  <1> TypeOK /\ HasReason(req[q])
    BY DEF IInv, Reason
  <1>1. CASE SkipScript(q)
    <2>1. PICK t \in req[q].todo : Goto(q, Loop(q, req[q].todo \ {t}, FALSE))
      BY <1>1 DEF SkipScript
    <2>2. PICK local \in Local : local = Loop(q, req[q].todo \ {t}, FALSE)
      BY <1>1, LoopType DEF SkipScript, At
    <2>3. HasReason(local)' /\ local.at \notin BodyAt
      BY <2>2 DEF Loop, HasReason, BodyAt
    <2>4. ExecutedTextRan' /\ ExecutingJustified' /\ UNCHANGED <<record, nextRecord, ran>>
      BY <1>1, AllTextsStay, AllReleasesStay DEF SkipScript, db, history
    <2>5. QED
      BY <2>1, <2>2, <2>3, <2>4, MoveKeepsInvariant
  <1>2. CASE MarkExecuted(q)
    <2>1. req[q] \in BodyLocal
      BY <1>2, Shapes DEF MarkExecuted, At, BodyAt
    <2>2. PICK r \in Release, row \in Snapshot : r = req[q].release /\ row = req[q].row
      BY <2>1 DEF BodyLocal
    <2>3. row.script \in Script /\ row.content \in Content
      BY DEF Snapshot
    <2>4. Applied(r, row.script, row.content)
      BY <1>2, <2>2 DEF MarkExecuted, IInv, Verdict
    <2>5. ExecutedTextRan'
      BY <1>2, <2>2, <2>4, AllTextsStay, WrittenTextRan DEF MarkExecuted, ScriptStatus
    <2>6. ExecutingJustified' /\ UNCHANGED <<record, nextRecord, ran>>
      BY <1>2, AllReleasesStay DEF MarkExecuted, history
    <2>7. PICK local \in Local : local = Loop(q, req[q].todo, req[q].ok)
      BY <1>2, <2>1, LoopType DEF MarkExecuted, At, BodyAt, BodyLocal
    <2>8. Justified(r)'
      BY <2>3, <2>4, ReasonsStay DEF Justified
    <2>9. HasReason(local)' /\ local.at \notin BodyAt
      BY <2>2, <2>7, <2>8 DEF Loop, HasReason, BodyAt
    <2>10. QED
      BY <1>2, <2>5, <2>6, <2>7, <2>9, MoveKeepsInvariant DEF MarkExecuted
  <1>3. CASE EndPush(q)
    <2>1. req[q] \in LoopLocal
      BY <1>3, Shapes DEF EndPush
    <2>2. req[q].ok => Justified(req[q].release)
      BY <1>3 DEF EndPush, At, HasReason
    <2>3. ExecutingJustified'
      BY <1>3, <2>1, <2>2, AllReleasesStay, SetReleaseJustified
         DEF EndPush, LoopLocal, ReleaseStatus
    <2>4. ExecutedTextRan' /\ UNCHANGED <<record, nextRecord, ran>> /\ Goto(q, Idle)
      BY <1>3, AllTextsStay DEF EndPush, history
    <2>5. Idle \in Local /\ Idle.at \notin BodyAt /\ HasReason(Idle)'
      BY DEF Local, Idle, BodyAt, HasReason
    <2>6. QED
      BY <2>3, <2>4, <2>5, MoveKeepsInvariant
  <1>4. QED
    BY <1>1, <1>2, <1>3, CreateRecordKeepsInvariant, ExecuteScriptKeepsInvariant,
       RecordResultKeepsInvariant DEF PushStep

\* Requests answered by one step, and links, leave the handlers' state alone.
LEMMA MarkRequestKeepsInvariant ==
  ASSUME IInv, [Next]_vars, MarkRequest
  PROVE  IInv'
  <1> TypeOK /\ TypeOK'
    BY NextType DEF IInv
  <1>1. UNCHANGED <<script, release, nextRecord, ran>>
    BY DEF MarkRequest, ManualMark, AjaxManualMark, DeleteExecution, history
  <1>2. ExecutedTextRan' /\ ExecutingJustified'
    BY <1>1, AllTextsStay, AllReleasesStay
  <1>3. ASSUME NEW i \in RecordId, record[i] # NoRecord, NEW status \in ExecStatus,
               MarkManual(i, status)
        PROVE  /\ \A j \in RecordId \ {i} : record'[j] = record[j]
               /\ record'[i].release = record[i].release
               /\ record'[i].script = record[i].script
               /\ record'[i].mark = "manual"
    <2>1. record[i] \in RecordRow
      BY <1>3 DEF TypeOK
    <2>2. QED
      BY <1>3, <2>1 DEF MarkManual, TypeOK, RecordRow
  <1>4. ASSUME NEW i \in RecordId, record[i] # NoRecord,
               \A j \in RecordId \ {i} : record'[j] = record[j],
               record'[i] = NoRecord \/ /\ record'[i].release = record[i].release
                                        /\ record'[i].script = record[i].script
                                        /\ record'[i].mark = "manual"
        PROVE  /\ SameRecords
               /\ Fresh' /\ AutoResultTruthful'
               /\ req' = req => Owned' /\ Verdict'
    <2>1. SameRecords
      BY <1>4 DEF SameRecords
    <2>2. Fresh'
      BY <1>1, <1>4 DEF IInv, Fresh
    <2>3. AutoResultTruthful'
      BY <1>1, <1>4 DEF IInv, AutoResultTruthful
    <2>4. \A q \in Request : req[q].at \in BodyAt => req[q].rec \in RecordId
      BY Shapes DEF BodyLocal
    <2>5. req' = req => Owned'
      BY <1>1, <1>4, <2>4 DEF IInv, Owned
    <2>6. req' = req => Verdict'
      BY <1>1, <1>4, <2>4 DEF IInv, Verdict, At, BodyAt, Applied
    <2>7. QED
      BY <2>1, <2>2, <2>3, <2>5, <2>6
  <1>5. ASSUME SameRecords, req' = req
        PROVE  Reason'
    BY <1>1, <1>5, ReasonStays DEF Reason, TypeOK
  <1>6. ASSUME NEW i \in RecordId, NEW status \in {"success", "failed"},
               ManualMark(i, status)
        PROVE  IInv'
    BY <1>2, <1>3, <1>4, <1>5, <1>6 DEF ManualMark, ExecStatus, IInv
  <1>7. ASSUME NEW i \in RecordId, DeleteExecution(i)
        PROVE  IInv'
    <2>1. record'[i] = NoRecord /\ \A j \in RecordId \ {i} : record'[j] = record[j]
      BY <1>7 DEF DeleteExecution, TypeOK
    <2>2. QED
      BY <1>2, <1>4, <1>5, <1>7, <2>1 DEF DeleteExecution, IInv
  <1>8. ASSUME NEW i \in RecordId, NEW q \in Request, AjaxManualMark(q, i)
        PROVE  IInv'
    <2>1. PICK local \in Local : local = [at |-> "load", rec |-> i]
      BY DEF Local, MarkLocal
    <2>2. /\ record[i] # NoRecord
          /\ \A j \in RecordId \ {i} : record'[j] = record[j]
          /\ record'[i].release = record[i].release
          /\ record'[i].script = record[i].script
          /\ record'[i].mark = "manual"
      BY <1>3, <1>8 DEF AjaxManualMark, ExecStatus
    <2>3. SameRecords /\ Fresh' /\ AutoResultTruthful'
      BY <1>4, <2>2
    <2>4. /\ req'[q] = local
          /\ \A p \in Request \ {q} : req'[p] = req[p]
      BY <1>8, <2>1 DEF AjaxManualMark, Goto, TypeOK
    <2>5. \A p \in Request : req'[p].at \in BodyAt =>
            req'[p] = req[p] /\ req[p].rec \in RecordId
      BY <2>1, <2>4, Shapes DEF BodyAt, BodyLocal
    <2>6. Owned'
      BY <1>1, <2>2, <2>5 DEF IInv, Owned
    <2>7. Verdict'
      BY <1>1, <2>2, <2>5 DEF IInv, Verdict, At, BodyAt, Applied
    <2>8. HasReason(local)'
      <3>1. i < nextRecord
        BY <2>2 DEF IInv, Fresh, TypeOK, RecordId
      <3>2. <<record'[i].release, record'[i].script>> \in vouched'
        BY <1>8, <2>2 DEF AjaxManualMark, Vouch
      <3>3. QED
        BY <1>1, <2>1, <3>1, <3>2 DEF HasReason
    <2>9. Reason'
      BY <1>1, <1>8, <2>1, <2>3, <2>8, OthersKeepReason DEF AjaxManualMark, TypeOK
    <2>10. QED
      BY <1>2, <2>3, <2>6, <2>7, <2>9 DEF IInv
  <1>9. QED
    BY <1>6, <1>7, <1>8 DEF MarkRequest

LEMMA LinkRequestKeepsInvariant ==
  ASSUME IInv, [Next]_vars, LinkRequest
  PROVE  IInv'
  <1> TypeOK /\ TypeOK'
    BY NextType DEF IInv
  <1>1. UNCHANGED <<script, release, record, nextRecord, ran>>
    BY DEF LinkRequest, AddReleaseScript, AjaxAddReleaseScript, RemoveReleaseScript,
           ClearAllScripts, history
  <1>2. ExecutedTextRan' /\ ExecutingJustified'
    BY <1>1, AllTextsStay, AllReleasesStay
  <1>3. CASE req' = req
    <2>1. Fresh' /\ Owned' /\ Verdict' /\ AutoResultTruthful'
      BY <1>1, <1>3 DEF IInv, Fresh, Owned, Verdict, AutoResultTruthful, At, Applied
    <2>2. SameRecords
      BY <1>1 DEF SameRecords
    <2>3. Reason'
      BY <1>1, <1>3, <2>2, ReasonStays DEF Reason, TypeOK
    <2>4. QED
      BY <1>2, <2>1, <2>3 DEF IInv
  <1>4. ASSUME NEW q \in Request, NEW r \in Release, NEW s \in Script,
               AjaxAddReleaseScript(q, r, s)
        PROVE  IInv'
    <2>1. PICK local \in Local : local = [at |-> "publish", release |-> r]
      BY DEF Local, PublishLocal
    <2>2. HasReason(local)' /\ local.at \notin BodyAt
      BY <2>1 DEF HasReason, BodyAt
    <2>3. QED
      BY <1>1, <1>2, <1>4, <2>1, <2>2, MoveKeepsInvariant DEF AjaxAddReleaseScript
  <1>5. QED
    BY <1>3, <1>4 DEF LinkRequest, AddReleaseScript, RemoveReleaseScript, ClearAllScripts

LEMMA NextKeepsInvariant ==
  ASSUME IInv, [Next]_vars
  PROVE  IInv'
  <1>1. CASE Crash
    <2>1. TypeOK' /\ UNCHANGED <<script, release, record, nextRecord, ran>>
          /\ \A q \in Request : req'[q] = Idle
      BY <1>1, NextType DEF IInv, Crash, db, history
    <2>2. Owned' /\ Verdict' /\ Reason'
      BY <2>1 DEF Owned, Verdict, Reason, HasReason, At, BodyAt, Idle
    <2>3. Fresh' /\ AutoResultTruthful'
      BY <2>1 DEF IInv, Fresh, AutoResultTruthful
    <2>4. ExecutedTextRan' /\ ExecutingJustified'
      BY <2>1, AllTextsStay, AllReleasesStay
    <2>5. QED
      BY <2>1, <2>2, <2>3, <2>4 DEF IInv
  <1>2. CASE UNCHANGED vars
    <2>1. TypeOK' /\ Fresh' /\ Owned' /\ Verdict' /\ AutoResultTruthful'
      BY <1>2, NextType
         DEF IInv, vars, Fresh, Owned, Verdict, AutoResultTruthful, At, Applied
    <2>2. SameRecords /\ nextRecord' \in Nat /\ nextRecord <= nextRecord'
      BY <1>2 DEF vars, SameRecords, IInv, TypeOK
    <2>3. Reason'
      BY <1>2, <2>2, ReasonStays DEF vars, Reason
    <2>4. ExecutedTextRan' /\ ExecutingJustified'
      BY <1>2, AllTextsStay, AllReleasesStay DEF vars
    <2>5. QED
      BY <2>1, <2>3, <2>4 DEF IInv
  <1>3. QED
    BY <1>1, <1>2, PushStepKeepsInvariant, MarkStepKeepsInvariant,
       OtherStepKeepsInvariant, RequestKeepsInvariant, MarkRequestKeepsInvariant,
       LinkRequestKeepsInvariant DEF Next

LEMMA InitInvariant == Init => IInv
  <1> SUFFICES ASSUME Init PROVE IInv
    OBVIOUS
  <1>1. TypeOK
    BY InitType
  <1>2. Fresh /\ Owned /\ Verdict /\ Reason /\ AutoResultTruthful
    BY DEF Init, Fresh, Owned, Verdict, Reason, HasReason, AutoResultTruthful, At,
           BodyAt, Idle
  <1>3. ExecutedTextRan /\ ExecutingJustified
    BY DEF Init, ExecutedTextRan, ExecutingJustified
  <1>4. QED
    BY <1>1, <1>2, <1>3 DEF IInv

\* The inductive invariant holds of every behaviour.
THEOREM Invariance == Spec => []IInv
  BY InitInvariant, NextKeepsInvariant, PTL DEF Spec

-----------------------------------------------------------------------------
(* The safety properties, for every value of the constants.                *)

\* Whatever requests race and whenever the process dies: a record no person
\* marked reports what the executor did under that very record.
THEOREM AutoResultsAreTruthful == Spec => []AutoResultTruthful
  <1>1. IInv => AutoResultTruthful
    BY DEF IInv
  <1>2. QED
    BY <1>1, Invariance, PTL

\* A script shown as executed carries a text that ran, or was vouched for.
THEOREM ExecutedTextsRan == Spec => []ExecutedTextRan
  <1>1. IInv => ExecutedTextRan
    BY DEF IInv
  <1>2. QED
    BY <1>1, Invariance, PTL

\* No handler moves a release to executing without a script of it that was
\* applied or vouched for.
THEOREM ExecutingIsJustified == Spec => []ExecutingJustified
  <1>1. IInv => ExecutingJustified
    BY DEF IInv
  <1>2. QED
    BY <1>1, Invariance, PTL

\* A record is run at most once.
THEOREM RecordsRunOnce == Spec => OneRunPerRecord
  <1>1. IInv /\ [Next]_vars => [\A i \in RecordId : ran[i] # NotRun => ran'[i] = ran[i]]_vars
    BY HistoryGrows
  <1>2. QED
    BY <1>1, Invariance, PTL DEF Spec, OneRunPerRecord

-----------------------------------------------------------------------------
(* The promotion of a release, by a push and by a mark.                    *)

\* What PushOkSound says of the push q.
PlanRan(q) ==
  Pushing(q) /\ req[q].ok =>
    \A t \in req[q].plan \ req[q].todo :
      \/ req[q].at \in {"execute", "result"} /\ t.row = req[q].row
      \/ Applied(req[q].release, t.row.script, t.row.content)

\* A step of a push moves that push from one of its places, and no other request.
LEMMA PushStepMoves ==
  ASSUME TypeOK, NEW q \in Request, PushStep(q)
  PROVE  Pushing(q) /\ \A p \in Request \ {q} : req'[p] = req[p]
  <1>1. ASSUME NEW local, Goto(q, local)
        PROVE  \A p \in Request \ {q} : req'[p] = req[p]
    BY <1>1 DEF Goto, TypeOK
  <1>2. CASE CreateRecord(q)
    BY <1>1, <1>2 DEF CreateRecord, Pushing, At
  <1>3. CASE SkipScript(q)
    BY <1>1, <1>3 DEF SkipScript, Pushing, At
  <1>4. CASE ExecuteScript(q)
    BY <1>1, <1>4 DEF ExecuteScript, Pushing, At, BodyAt
  <1>5. CASE RecordResult(q)
    <2>1. PICK local : Goto(q, local)
      BY <1>5 DEF RecordResult
    <2>2. QED
      BY <1>1, <1>5, <2>1 DEF RecordResult, Pushing, At, BodyAt
  <1>6. CASE MarkExecuted(q)
    BY <1>1, <1>6 DEF MarkExecuted, Pushing, At, BodyAt
  <1>7. CASE EndPush(q)
    BY <1>1, <1>7 DEF EndPush, Pushing, At
  <1>8. QED
    BY <1>2, <1>3, <1>4, <1>5, <1>6, <1>7 DEF PushStep

\* A push moves by its own steps, or it begins with its whole plan ahead.
LEMMA PushMoves ==
  ASSUME TypeOK, [Next]_vars, NEW p \in Request
  PROVE  \/ req'[p] = req[p] \/ ~Pushing(p)' \/ PushStep(p)
         \/ req'[p].plan = req'[p].todo
  <1> DEFINE Done == req'[p] = req[p] \/ ~Pushing(p)' \/ PushStep(p)
                    \/ req'[p].plan = req'[p].todo
  <1>2. ASSUME NEW q \in Request, NEW local, Goto(q, local)
        PROVE  req'[p] = IF p = q THEN local ELSE req[p]
    BY <1>2 DEF Goto, TypeOK
  <1>3. ASSUME NEW q \in Request, NEW local, Goto(q, local),
               local.at \notin {"create"} \cup BodyAt
        PROVE  Done
    BY <1>2, <1>3 DEF Pushing
  <1>4. ASSUME NEW q \in Request, PushStep(q)
        PROVE  Done
    <2>1. q # p => req'[p] = req[p]
      BY <1>4, PushStepMoves
    <2>2. QED
      BY <1>4, <2>1
  <1>5. ASSUME NEW q \in Request, MarkStep(q) \/ OtherStep(q)
        PROVE  Done
    BY <1>3, <1>5 DEF MarkStep, LoadMarked, WriteMarked, CountLinks, CountRecords, Promote,
                      OtherStep, SaveEdit, AutoPublish, SaveRelease, CommitArchive,
                      RollbackArchive, Idle, BodyAt
  <1>6. ASSUME NEW q \in Request, NEW r, NEW rows, BeginPush(q, r, rows)
        PROVE  Done
    BY <1>2, <1>6 DEF BeginPush
  <1>7. ASSUME NEW q \in Request, PushRequest(q) \/ EditRequest(q) \/ ReleaseRequest(q)
        PROVE  Done
    BY <1>3, <1>6, <1>7 DEF PushRequest, PushExecute, AjaxPushExecute, EditRequest, BeginEdit,
                            ReleaseRequest, BeginUpdateRelease, BeginArchive, BodyAt
  <1>8. MarkRequest \/ LinkRequest => Done
    BY <1>3 DEF MarkRequest, ManualMark, AjaxManualMark, DeleteExecution, LinkRequest,
                AddReleaseScript, AjaxAddReleaseScript, RemoveReleaseScript,
                ClearAllScripts, BodyAt
  <1>9. Crash \/ UNCHANGED vars => Done
    BY DEF Crash, vars, Pushing, Idle, BodyAt
  <1>10. QED
    BY <1>4, <1>5, <1>7, <1>8, <1>9 DEF Next

\* What was applied for a script of a plan stays so.
LEMMA PlannedStays ==
  ASSUME IInv, [Next]_vars, NEW r \in Release, NEW t \in Planned,
         Applied(r, t.row.script, t.row.content)
  PROVE  Applied(r, t.row.script, t.row.content)'
  <1>1. t.row.script \in Script /\ t.row.content \in Content
    BY DEF Planned, Snapshot
  <1>2. QED
    BY <1>1, ReasonsStay

\* A step of the push itself.
LEMMA PushStepRan ==
  ASSUME IInv, [Next]_vars, NEW p \in Request, PushStep(p), PlanRan(p)
  PROVE  PlanRan(p)'
  <1> TypeOK
    BY DEF IInv
  <1> Pushing(p)
    BY PushStepMoves
  <1>1. /\ req[p].release \in Release /\ req[p].plan \subseteq Planned
        /\ req[p].todo \subseteq Planned
    BY Shapes DEF Pushing, At, LoopLocal, BodyLocal
  <1>2. ASSUME NEW local, Goto(p, local)
        PROVE  req'[p] = local
    BY <1>2 DEF Goto, TypeOK
  <1>3. PICK r \in Release : r = req[p].release
    BY <1>1
  <1>4. ASSUME NEW t \in req[p].plan, Applied(r, t.row.script, t.row.content)
        PROVE  Applied(r, t.row.script, t.row.content)'
    BY <1>1, <1>4, PlannedStays
  <1>5. CASE CreateRecord(p)
    <2>1. PICK t \in req[p].todo :
            Goto(p, [at |-> "execute", release |-> r, plan |-> req[p].plan,
                     todo |-> req[p].todo \ {t}, ok |-> req[p].ok, row |-> t.row,
                     rec |-> nextRecord, success |-> FALSE])
      BY <1>3, <1>5 DEF CreateRecord
    <2>2. req'[p] = [at |-> "execute", release |-> r, plan |-> req[p].plan,
                     todo |-> req[p].todo \ {t}, ok |-> req[p].ok, row |-> t.row,
                     rec |-> nextRecord, success |-> FALSE]
      BY <1>2, <2>1
    <2>3. req[p].ok => \A u \in req[p].plan \ req[p].todo :
                         Applied(r, u.row.script, u.row.content)
      BY <1>3, <1>5 DEF CreateRecord, At, PlanRan
    <2>4. QED
      BY <1>4, <2>2, <2>3 DEF PlanRan
  <1>6. CASE SkipScript(p)
    <2>1. PICK t \in req[p].todo : Goto(p, Loop(p, req[p].todo \ {t}, FALSE))
      BY <1>6 DEF SkipScript
    <2>2. ~req'[p].ok
      BY <1>2, <2>1 DEF Loop
    <2>3. QED
      BY <2>2 DEF PlanRan
  <1>7. CASE ExecuteScript(p)
    <2>1. PICK success \in BOOLEAN :
            Goto(p, [req[p] EXCEPT !.at = "result", !.success = success])
      BY <1>7, Zenon DEF ExecuteScript
    <2>2. req[p] \in BodyLocal /\ At(p, "execute")
      BY <1>7, Shapes DEF ExecuteScript, At, BodyAt
    <2>3. /\ req'[p].at = "result" /\ req'[p].ok = req[p].ok
          /\ req'[p].plan = req[p].plan /\ req'[p].todo = req[p].todo
          /\ req'[p].row = req[p].row /\ req'[p].release = r
      BY <1>2, <1>3, <2>1, <2>2 DEF BodyLocal
    <2>4. req[p].ok => \A u \in req[p].plan \ req[p].todo :
                         u.row = req[p].row \/ Applied(r, u.row.script, u.row.content)
      BY <1>3 DEF PlanRan
    <2>5. QED
      BY <1>4, <2>3, <2>4 DEF PlanRan
  <1>8. CASE RecordResult(p)
    <2>1. req[p] \in BodyLocal /\ req[p].rec \in RecordId
      BY <1>8, Shapes DEF RecordResult, At, BodyAt, BodyLocal
    <2>2. CASE ~req[p].success
      <3>1. ~req'[p].ok
        BY <1>2, <1>8, <2>2 DEF RecordResult, Loop
      <3>2. QED
        BY <3>1 DEF PlanRan
    <2>3. CASE req[p].success
      <3>1. /\ req'[p].at = "script" /\ req'[p].ok = req[p].ok
            /\ req'[p].plan = req[p].plan /\ req'[p].todo = req[p].todo
            /\ req'[p].release = r
        BY <1>2, <1>3, <1>8, <2>1, <2>3 DEF RecordResult, BodyLocal
      <3>2. Applied(r, req[p].row.script, req[p].row.content)
        <4>1. /\ ran[req[p].rec] \in Run
              /\ ran[req[p].rec].release = r /\ ran[req[p].rec].full
              /\ ran[req[p].rec].script = req[p].row.script
              /\ ran[req[p].rec].content = req[p].row.content
          BY <1>3, <1>8, <2>1, <2>3 DEF IInv, Verdict, RecordResult, TypeOK
        <4>2. QED
          BY <2>1, <4>1 DEF Applied, Run
      <3>3. req[p].ok => \A u \in req[p].plan \ req[p].todo :
                           Applied(r, u.row.script, u.row.content)
        BY <1>3, <3>2 DEF PlanRan
      <3>4. QED
        BY <1>4, <3>1, <3>3 DEF PlanRan
    <2>4. QED
      BY <2>2, <2>3
  <1>9. CASE MarkExecuted(p)
    <2>1. req'[p] = [at |-> "create", release |-> r, plan |-> req[p].plan,
                     todo |-> req[p].todo, ok |-> req[p].ok]
      BY <1>2, <1>3, <1>9 DEF MarkExecuted, Loop
    <2>2. req[p].ok => \A u \in req[p].plan \ req[p].todo :
                         Applied(r, u.row.script, u.row.content)
      BY <1>3, <1>9 DEF MarkExecuted, At, PlanRan
    <2>3. QED
      BY <1>4, <2>1, <2>2 DEF PlanRan
  <1>10. CASE EndPush(p)
    <2>1. req'[p] = Idle
      BY <1>2, <1>10 DEF EndPush
    <2>2. QED
      BY <2>1 DEF PlanRan, Pushing, Idle, BodyAt
  <1>11. QED
    BY <1>5, <1>6, <1>7, <1>8, <1>9, <1>10 DEF PushStep

LEMMA PlanRanStays ==
  ASSUME IInv, [Next]_vars, NEW p \in Request, PlanRan(p)
  PROVE  PlanRan(p)'
  <1>1. CASE req'[p] = req[p] /\ Pushing(p)
    <2>1. req[p].release \in Release /\ req[p].plan \subseteq Planned
      BY <1>1, Shapes DEF Pushing, At, LoopLocal, BodyLocal, IInv
    <2>2. PICK r \in Release : r = req[p].release
      BY <2>1
    <2>3. ASSUME NEW t \in req[p].plan, Applied(r, t.row.script, t.row.content)
          PROVE  Applied(r, t.row.script, t.row.content)'
      BY <2>1, <2>3, PlannedStays
    <2>4. req[p].ok =>
            \A t \in req[p].plan \ req[p].todo :
              \/ req[p].at \in {"execute", "result"} /\ t.row = req[p].row
              \/ Applied(r, t.row.script, t.row.content)
      BY <1>1, <2>2 DEF PlanRan
    <2>5. QED
      BY <1>1, <2>2, <2>3, <2>4 DEF PlanRan
  <1>2. CASE ~Pushing(p)' \/ (req'[p] = req[p] /\ ~Pushing(p))
    BY <1>2 DEF PlanRan, Pushing
  <1>3. CASE req'[p].plan = req'[p].todo
    BY <1>3 DEF PlanRan
  <1>4. QED
    BY <1>1, <1>2, <1>3, PushMoves, PushStepRan DEF IInv

\* Whatever is lost, and whoever interferes: a push that still counts on all to
\* have succeeded has left behind scripts only that were applied in full.
THEOREM PushesAreSound == Spec => []PushOkSound
  <1>1. Init => PushOkSound
    BY DEF Init, PushOkSound, Pushing, Idle, BodyAt
  <1>2. IInv /\ PushOkSound /\ [Next]_vars => PushOkSound'
    <2>1. PushOkSound <=> \A q \in Request : PlanRan(q)
      BY DEF PushOkSound, PlanRan
    <2>2. PushOkSound' <=> \A q \in Request : PlanRan(q)'
      BY DEF PushOkSound, PlanRan
    <2>3. QED
      BY <2>1, <2>2, PlanRanStays
  <1>3. QED
    BY <1>1, <1>2, Invariance, PTL DEF Spec

\* Who is about to promote a release after a mark has just counted its records.
LEMMA PromoteAfterCount ==
  ASSUME TypeOK, [Next]_vars, NEW q \in Request, At(q, "countRecords"), At(q, "promote")'
  PROVE  CountRecords(q)
  <1>1. req[q].at = "countRecords" /\ req'[q].at = "promote"
    BY DEF At
  <1>2. ASSUME NEW p \in Request, NEW local, Goto(p, local), local.at # "promote" \/ p # q
        PROVE  FALSE
    <2>1. req'[q] = IF p = q THEN local ELSE req[q]
      BY <1>2 DEF Goto, TypeOK
    <2>2. QED
      BY <1>1, <1>2, <2>1
  <1>3. ASSUME NEW p \in Request, PushStep(p)
        PROVE  FALSE
    <2>1. Pushing(p) /\ \A u \in Request \ {p} : req'[u] = req[u]
      BY <1>3, PushStepMoves
    <2>2. QED
      BY <1>1, <2>1 DEF Pushing, BodyAt
  <1>4. ASSUME NEW p \in Request, MarkStep(p)
        PROVE  CountRecords(q)
    <2>1. ~LoadMarked(p) /\ ~WriteMarked(p) /\ ~CountLinks(p) /\ ~Promote(p)
      BY <1>2 DEF LoadMarked, WriteMarked, CountLinks, Promote, Idle
    <2>2. CountRecords(p)
      BY <1>4, <2>1 DEF MarkStep
    <2>3. p = q
      BY <1>2, <2>2 DEF CountRecords
    <2>4. QED
      BY <2>2, <2>3
  <1>5. ASSUME NEW p \in Request, OtherStep(p)
        PROVE  FALSE
    BY <1>2, <1>5 DEF OtherStep, SaveEdit, AutoPublish, SaveRelease, CommitArchive,
                      RollbackArchive, Idle
  <1>6. ASSUME NEW p \in Request, PushRequest(p) \/ EditRequest(p) \/ ReleaseRequest(p)
        PROVE  FALSE
    BY <1>2, <1>6 DEF PushRequest, PushExecute, AjaxPushExecute, BeginPush, EditRequest,
                      BeginEdit, ReleaseRequest, BeginUpdateRelease, BeginArchive
  <1>7. ~MarkRequest /\ ~LinkRequest
    BY <1>1, <1>2 DEF MarkRequest, ManualMark, AjaxManualMark, DeleteExecution, LinkRequest,
                AddReleaseScript, AjaxAddReleaseScript, RemoveReleaseScript, ClearAllScripts
  <1>8. ~Crash /\ ~UNCHANGED vars
    BY <1>1 DEF Crash, vars, Idle
  <1>9. QED
    BY <1>3, <1>4, <1>5, <1>6, <1>7, <1>8 DEF Next

\* A release has no more scripts than links.
LEMMA LinkedScripts ==
  ASSUME TypeOK, NEW r \in Release
  PROVE  LET linked == {l.script : l \in LinksOf(r)}
         IN  /\ IsFiniteSet(LinksOf(r)) /\ IsFiniteSet(linked)
             /\ Cardinality(LinksOf(r)) \in Nat /\ Cardinality(linked) \in Nat
             /\ Cardinality(linked) <= Cardinality(LinksOf(r))
  <1> DEFINE linked == {l.script : l \in LinksOf(r)}
             f == [l \in LinksOf(r) |-> l.script]
  <1>1. IsFiniteSet(LinksOf(r))
    BY FS_Subset DEF LinksOf, TypeOK
  <1>2. f \in Surjection(LinksOf(r), linked)
    BY DEF Surjection
  <1>3. IsFiniteSet(linked) /\ Cardinality(linked) <= Cardinality(LinksOf(r))
    BY <1>1, <1>2, FS_Surjection
  <1>4. QED
    BY <1>1, <1>3, FS_CardinalityType

\* However requests race: as long as no link changed between the two counts and no
\* removed script left a successful record, equal counts mean equal scripts.
THEOREM PromotionsFollowRuns == Spec => PromotesOnlyAllExecuted
  <1> DEFINE Promoted ==
        \A q \in Request :
          LET linked == {l.script : l \in LinksOf(req[q].release)} IN
          /\ At(q, "countRecords")
          /\ Cardinality(LinksOf(req[q].release)) = req[q].total
          /\ Succeeded(req[q].release) \subseteq linked
          /\ At(q, "promote")'
          => linked = Succeeded(req[q].release)
  <1>1. TypeOK /\ [Next]_vars => Promoted
    <2> SUFFICES ASSUME TypeOK, [Next]_vars, NEW q \in Request,
                        At(q, "countRecords"), At(q, "promote")',
                        Cardinality(LinksOf(req[q].release)) = req[q].total,
                        Succeeded(req[q].release)
                          \subseteq {l.script : l \in LinksOf(req[q].release)}
                 PROVE  {l.script : l \in LinksOf(req[q].release)}
                          = Succeeded(req[q].release)
      OBVIOUS
    <2>1. PICK r \in Release : r = req[q].release
      BY Shapes
    <2> DEFINE linked == {l.script : l \in LinksOf(r)}
               succeeded == Succeeded(r)
    <2>2. /\ IsFiniteSet(linked)
          /\ Cardinality(LinksOf(r)) \in Nat /\ Cardinality(linked) \in Nat
          /\ Cardinality(linked) <= Cardinality(LinksOf(r))
      BY LinkedScripts
    <2>3. Cardinality(succeeded) >= Cardinality(LinksOf(r))
      <3>1. CountRecords(q)
        BY PromoteAfterCount
      <3>2. req'[q].at = "promote" /\ req'[q] # Idle
        BY DEF At, Idle
      <3>3. ~Goto(q, Idle)
        BY <3>2 DEF Goto, TypeOK
      <3>4. QED
        BY <2>1, <3>1, <3>3 DEF CountRecords
    <2> HIDE DEF linked, succeeded
    <2>4. succeeded \subseteq linked
      BY <2>1 DEF linked, succeeded
    <2>5. Cardinality(succeeded) <= Cardinality(linked)
          /\ (Cardinality(linked) = Cardinality(succeeded) => linked = succeeded)
      BY <2>2, <2>4, FS_Subset
    <2>6. Cardinality(succeeded) \in Nat
      BY <2>2, <2>4, FS_Subset, FS_CardinalityType
    <2>7. linked = succeeded
      BY <2>2, <2>3, <2>5, <2>6
    <2>8. QED
      BY <2>1, <2>7 DEF linked, succeeded
  <1>2. QED
    BY <1>1, TypeCorrect, PTL DEF Spec, PromotesOnlyAllExecuted

-----------------------------------------------------------------------------
(* Edits that keep apart from pushes, marks and archives.                  *)

\* A step of a push keeps its plan and takes the next script from it.
LEMMA PushKeepsPlan ==
  ASSUME TypeOK, NEW q \in Request, PushStep(q), Pushing(q)'
  PROVE  /\ req'[q].plan = req[q].plan /\ req'[q].todo \subseteq req[q].todo
         /\ req'[q].at \in BodyAt =>
              \/ req[q].at \in BodyAt /\ req'[q].row = req[q].row
              \/ \E t \in req[q].todo : req'[q].row = t.row
  <1>1. ASSUME NEW local, Goto(q, local)
        PROVE  req'[q] = local
    BY <1>1 DEF Goto, TypeOK
  <1>2. CASE CreateRecord(q)
    <2>1. PICK t \in req[q].todo :
            Goto(q, [at |-> "execute", release |-> req[q].release, plan |-> req[q].plan,
                     todo |-> req[q].todo \ {t}, ok |-> req[q].ok, row |-> t.row,
                     rec |-> nextRecord, success |-> FALSE])
      BY <1>2 DEF CreateRecord
    <2>2. /\ req'[q].plan = req[q].plan /\ req'[q].todo = req[q].todo \ {t}
          /\ req'[q].row = t.row
      BY <1>1, <2>1
    <2>3. QED
      BY <2>2
  <1>3. CASE SkipScript(q)
    <2>1. PICK t \in req[q].todo : Goto(q, Loop(q, req[q].todo \ {t}, FALSE))
      BY <1>3 DEF SkipScript
    <2>2. /\ req'[q].plan = req[q].plan /\ req'[q].todo = req[q].todo \ {t}
          /\ req'[q].at = "create"
      BY <1>1, <2>1 DEF Loop
    <2>3. QED
      BY <2>2 DEF BodyAt
  <1>4. CASE ExecuteScript(q)
    <2>1. PICK success \in BOOLEAN :
            Goto(q, [req[q] EXCEPT !.at = "result", !.success = success])
      BY <1>4, Zenon DEF ExecuteScript
    <2>2. req[q] \in BodyLocal /\ req[q].at \in BodyAt
      BY <1>4, Shapes DEF ExecuteScript, At, BodyAt
    <2>3. /\ req'[q].plan = req[q].plan /\ req'[q].todo = req[q].todo
          /\ req'[q].row = req[q].row
      BY <1>1, <2>1, <2>2 DEF BodyLocal
    <2>4. QED
      BY <2>2, <2>3
  <1>5. CASE RecordResult(q)
    <2>1. req[q] \in BodyLocal /\ req[q].at \in BodyAt
      BY <1>5, Shapes DEF RecordResult, At, BodyAt
    <2>2. CASE req[q].success
      <3>1. /\ req'[q].plan = req[q].plan /\ req'[q].todo = req[q].todo
            /\ req'[q].row = req[q].row
        BY <1>1, <1>5, <2>1, <2>2 DEF RecordResult, BodyLocal
      <3>2. QED
        BY <2>1, <3>1
    <2>3. CASE ~req[q].success
      <3>1. /\ req'[q].plan = req[q].plan /\ req'[q].todo = req[q].todo
            /\ req'[q].at = "create"
        BY <1>1, <1>5, <2>3 DEF RecordResult, Loop
      <3>2. QED
        BY <3>1 DEF BodyAt
    <2>4. QED
      BY <2>2, <2>3
  <1>6. CASE MarkExecuted(q)
    <2>1. /\ req'[q].plan = req[q].plan /\ req'[q].todo = req[q].todo
          /\ req'[q].at = "create"
      BY <1>1, <1>6 DEF MarkExecuted, Loop
    <2>2. QED
      BY <2>1 DEF BodyAt
  <1>7. ~EndPush(q)
    <2>1. Idle.at \notin {"create"} \cup BodyAt
      BY DEF Idle, BodyAt
    <2>2. EndPush(q) => req'[q] = Idle
      BY <1>1 DEF EndPush
    <2>3. QED
      BY <2>1, <2>2 DEF Pushing
  <1>8. QED
    BY <1>2, <1>3, <1>4, <1>5, <1>6, <1>7 DEF PushStep

\* How a request gets a text in hand: from a row, which the step leaves alone.
LEMMA TextsAreRead ==
  ASSUME TypeOK, [Next]_vars, NEW p \in Request
  PROVE  \/ req'[p] = req[p]
         \/ ~Pushing(p)' /\ req'[p].at \notin {"write", "save"}
         \/ PushStep(p)
         \/ /\ UNCHANGED script /\ req'[p].at = "create" /\ req'[p].todo = req'[p].plan
            /\ \A t \in req'[p].plan : \E s \in Script : t.row = Load(s)
         \/ /\ UNCHANGED script /\ req'[p].at = "write"
            /\ \E s \in Script : req'[p].row = Load(s)
         \/ /\ UNCHANGED script /\ req'[p].at = "save"
            /\ \E s \in Script : req'[p].row = Load(s) /\ script[s].status = "draft"
  <1> DEFINE Elsewhere(l) == l.at \notin {"create", "write", "save"} \cup BodyAt
             Read == \/ /\ UNCHANGED script /\ req'[p].at = "create"
                        /\ req'[p].todo = req'[p].plan
                        /\ \A t \in req'[p].plan : \E s \in Script : t.row = Load(s)
                     \/ /\ UNCHANGED script /\ req'[p].at = "write"
                        /\ \E s \in Script : req'[p].row = Load(s)
                     \/ /\ UNCHANGED script /\ req'[p].at = "save"
                        /\ \E s \in Script : req'[p].row = Load(s) /\ script[s].status = "draft"
             Done == req'[p] = req[p] \/ Elsewhere(req'[p]) \/ PushStep(p) \/ Read
  <1>1. ASSUME NEW q \in Request, NEW local, Goto(q, local)
        PROVE  req'[p] = IF p = q THEN local ELSE req[p]
    BY <1>1 DEF Goto, TypeOK
  <1>2. ASSUME NEW q \in Request, NEW local, Goto(q, local), Elsewhere(local)
        PROVE  Done
    BY <1>1, <1>2
  <1>3. ASSUME NEW q \in Request, PushStep(q)
        PROVE  Done
    <2>1. q # p => req'[p] = req[p]
      BY <1>3, PushStepMoves
    <2>2. QED
      BY <1>3, <2>1
  <1>4. ASSUME NEW q \in Request, LoadMarked(q)
        PROVE  Done
    <2>1. CASE Goto(q, Idle)
      BY <1>2, <2>1 DEF Idle, BodyAt
    <2>2. ASSUME NEW r, Goto(q, [at |-> "countLinks", release |-> r]) PROVE Done
      BY <1>2, <2>2 DEF BodyAt
    <2>3. ASSUME NEW s \in Script, NEW r, Goto(q, [at |-> "write", row |-> Load(s), release |-> r])
          PROVE  Done
      <3>1. req'[p] = req[p] \/ (req'[p].at = "write" /\ req'[p].row = Load(s))
        BY <1>1, <2>3
      <3>2. UNCHANGED script
        BY <1>4 DEF LoadMarked, db
      <3>3. QED
        BY <3>1, <3>2
    <2>4. record[req[q].rec] # NoRecord => record[req[q].rec].script \in Script
      <3>1. req[q].rec \in RecordId
        BY <1>4, Shapes DEF LoadMarked
      <3>2. QED
        BY <3>1 DEF TypeOK, RecordRow
    <2> HIDE DEF Done
    <2>5. QED
      BY <1>4, <2>1, <2>2, <2>3, <2>4 DEF LoadMarked
  <1>5. ASSUME NEW q \in Request, MarkStep(q) \/ OtherStep(q), ~LoadMarked(q)
        PROVE  Done
    <2> HIDE DEF Done
    <2>1. QED
      BY <1>2, <1>5 DEF MarkStep, WriteMarked, CountLinks, CountRecords, Promote, OtherStep,
                        SaveEdit, AutoPublish, SaveRelease, CommitArchive, RollbackArchive,
                        Idle, BodyAt
  <1>6. ASSUME NEW q \in Request, NEW r, NEW rows, BeginPush(q, r, rows),
               \A t \in rows : \E s \in Script : t.row = Load(s)
        PROVE  Done
    <2>1. UNCHANGED script
      BY <1>6 DEF BeginPush, db
    <2>2. \/ req'[p] = req[p]
          \/ req'[p].at = "create" /\ req'[p].plan = rows /\ req'[p].todo = rows
      BY <1>1, <1>6 DEF BeginPush
    <2>3. QED
      BY <1>6, <2>1, <2>2
  <1>7. ASSUME NEW q \in Request, PushRequest(q)
        PROVE  Done
    <2>1. \A r \in Release : \A t \in ListScripts(r) : \E s \in Script : t.row = Load(s)
      BY DEF ListScripts, LinksOf, TypeOK, LinkRow
    <2>2. \A r \in Release : \A ids : \A t \in FilterScripts(ListScripts(r), ids) :
            \E s \in Script : t.row = Load(s)
      BY <2>1 DEF FilterScripts
    <2> HIDE DEF Done
    <2>3. QED
      BY <1>6, <1>7, <2>1, <2>2 DEF PushRequest, PushExecute, AjaxPushExecute
  <1>8. ASSUME NEW q \in Request, NEW s \in Script, BeginEdit(q, s)
        PROVE  Done
    <2>1. UNCHANGED script /\ script[s].status = "draft"
      BY <1>8 DEF BeginEdit, db
    <2>2. req'[p] = req[p] \/ (req'[p].at = "save" /\ req'[p].row = Load(s))
      BY <1>1, <1>8 DEF BeginEdit
    <2>3. QED
      BY <2>1, <2>2
  <1>9. ASSUME NEW q \in Request, ReleaseRequest(q)
        PROVE  Done
    <2>1. PICK local : Goto(q, local) /\ Elsewhere(local)
      BY <1>9 DEF ReleaseRequest, BeginUpdateRelease, BeginArchive, BodyAt
    <2>2. QED
      BY <1>2, <2>1
  <1>10. ASSUME MarkRequest \/ LinkRequest
         PROVE  Done
    <2>1. UNCHANGED req => Done
      OBVIOUS
    <2> HIDE DEF Done
    <2>2. QED
      BY <1>2, <1>10, <2>1
         DEF MarkRequest, ManualMark, AjaxManualMark, DeleteExecution, LinkRequest,
             AddReleaseScript, AjaxAddReleaseScript, RemoveReleaseScript, ClearAllScripts, BodyAt
  <1>11. Crash \/ UNCHANGED vars => Done
    BY DEF Crash, vars, Idle, BodyAt
  <1> HIDE DEF Read, Elsewhere
  <1>12. Done
    BY <1>3, <1>4, <1>5, <1>7, <1>8, <1>9, <1>10, <1>11 DEF Next, EditRequest
  <1>13. Elsewhere(req'[p]) => ~Pushing(p)' /\ req'[p].at \notin {"write", "save"}
    BY DEF Elsewhere, Pushing
  <1>14. QED
    BY <1>12, <1>13 DEF Read

\* What a step may do to the row of a script.
LEMMA ScriptMoves ==
  ASSUME TypeOK, Reason, Current, [Next]_vars, NEW s \in Script
  PROVE  \/ script'[s] = script[s]
         \/ \E p \in Request : /\ At(p, "save") /\ req[p].row.script = s
                               /\ script[s].status = "draft" /\ script'[s].status = "draft"
         \/ \E p \in Request : /\ Busy(p, s) /\ script'[s].content = script[s].content
                               /\ script'[s].status # "draft"
  <1> DEFINE Done ==
         \/ script'[s] = script[s]
         \/ \E p \in Request : /\ At(p, "save") /\ req[p].row.script = s
                               /\ script[s].status = "draft" /\ script'[s].status = "draft"
         \/ \E p \in Request : /\ Busy(p, s) /\ script'[s].content = script[s].content
                               /\ script'[s].status # "draft"
  <1>1. ASSUME UNCHANGED script PROVE Done
    BY <1>1
  <1>2. ASSUME NEW row \in Snapshot, NEW status, UpdateScript(row, status)
        PROVE  /\ row.script # s => script'[s] = script[s]
               /\ row.script = s => script'[s] = [status |-> status, content |-> row.content]
    BY <1>2 DEF UpdateScript, TypeOK, Snapshot
  <1>3. ASSUME NEW q \in Request, MarkExecuted(q) PROVE Done
    <2>1. req[q] \in BodyLocal /\ req[q].at \in BodyAt
      BY <1>3, Shapes DEF MarkExecuted, At, BodyAt
    <2>2. PICK t \in req[q].plan : t.row = req[q].row
      BY <2>1 DEF Current, UpToDate
    <2>3. req[q].row \in Snapshot /\ Pushing(q)
      BY <2>1 DEF BodyLocal, Pushing
    <2>4. t.row.content = script[t.row.script].content
      BY <2>3 DEF Current, UpToDate
    <2>5. CASE UNCHANGED script
      BY <1>1, <2>5
    <2>6. CASE UpdateScript(req[q].row, "executed")
      <3>1. CASE req[q].row.script # s
        BY <1>2, <2>3, <2>6, <3>1
      <3>2. CASE req[q].row.script = s
        <4>1. script'[s] = [status |-> "executed", content |-> req[q].row.content]
          BY <1>2, <2>3, <2>6, <3>2
        <4>2. Busy(q, s)
          BY <2>2, <2>3, <3>2 DEF Busy
        <4>3. QED
          BY <2>2, <2>4, <3>2, <4>1, <4>2
      <3>3. QED
        BY <3>1, <3>2
    <2> HIDE DEF Done
    <2>7. QED
      BY <1>3, <2>5, <2>6 DEF MarkExecuted
  <1>4. ASSUME NEW q \in Request, WriteMarked(q) PROVE Done
    <2>1. At(q, "write") /\ req[q].row \in Snapshot
      BY <1>4, Shapes DEF WriteMarked
    <2>2. req[q].row.content = script[req[q].row.script].content
      BY <2>1 DEF Current, UpToDate
    <2>3. CASE UNCHANGED script
      BY <1>1, <2>3
    <2>4. CASE UpdateScript(req[q].row, "executed")
      <3>1. CASE req[q].row.script # s
        BY <1>2, <2>1, <2>4, <3>1
      <3>2. CASE req[q].row.script = s
        <4>1. script'[s] = [status |-> "executed", content |-> req[q].row.content]
          BY <1>2, <2>1, <2>4, <3>2
        <4>2. Busy(q, s)
          BY <2>1, <3>2 DEF Busy
        <4>3. QED
          BY <2>2, <3>2, <4>1, <4>2
      <3>3. QED
        BY <3>1, <3>2
    <2> HIDE DEF Done
    <2>5. QED
      BY <1>4, <2>3, <2>4 DEF WriteMarked
  <1>5. ASSUME NEW q \in Request, NEW c \in Content, SaveEdit(q, c) PROVE Done
    <2>1. At(q, "save") /\ req[q].row \in Snapshot
      BY <1>5, Shapes DEF SaveEdit, EditLocal
    <2>2. script[req[q].row.script].status = "draft" /\ req[q].row.status = "draft"
      BY <2>1 DEF Current, UpToDate, Reason, HasReason, At
    <2>3. PICK row : row = [req[q].row EXCEPT !.content = c]
      OBVIOUS
    <2>4. row \in Snapshot /\ row.script = req[q].row.script
      BY <2>1, <2>3 DEF Snapshot
    <2>5. CASE UNCHANGED script
      BY <1>1, <2>5
    <2>6. CASE UpdateScript(row, "draft")
      <3>1. CASE row.script # s
        BY <1>2, <2>4, <2>6, <3>1
      <3>2. CASE row.script = s
        <4>1. script'[s] = [status |-> "draft", content |-> row.content]
          BY <1>2, <2>4, <2>6, <3>2
        <4>2. script[s].status = "draft" /\ script'[s].status = "draft"
          BY <2>2, <2>4, <3>2, <4>1
        <4>3. req[q].row.script = s
          BY <2>4, <3>2
        <4>4. QED
          BY <2>1, <4>2, <4>3
      <3>3. QED
        BY <3>1, <3>2
    <2> HIDE DEF Done
    <2>7. QED
      BY <1>5, <2>2, <2>3, <2>5, <2>6 DEF SaveEdit
  <1>6. ASSUME NEW q \in Request, CommitArchive(q) PROVE Done
    <2>1. At(q, "archive")
      BY <1>6 DEF CommitArchive
    <2>2. script[s] \in ScriptRow
      BY DEF TypeOK
    <2>3. CASE s \in req[q].scripts
      <3>1. script'[s] = [script[s] EXCEPT !.status = "archived"]
        BY <1>6, <2>3 DEF CommitArchive
      <3>2. script'[s].status = "archived" /\ script'[s].content = script[s].content
        BY <2>2, <3>1 DEF ScriptRow
      <3>3. Busy(q, s)
        BY <2>1, <2>3 DEF Busy
      <3>4. QED
        BY <3>2, <3>3
    <2>4. CASE s \notin req[q].scripts
      BY <1>6, <2>4 DEF CommitArchive
    <2>5. QED
      BY <2>3, <2>4
  <1> HIDE DEF Done
  <1>7. ASSUME NEW q \in Request, PushStep(q) PROVE Done
    BY <1>1, <1>3, <1>7 DEF PushStep, CreateRecord, SkipScript, ExecuteScript, RecordResult,
                            EndPush, db
  <1>8. ASSUME NEW q \in Request, MarkStep(q) PROVE Done
    BY <1>1, <1>4, <1>8 DEF MarkStep, LoadMarked, CountLinks, CountRecords, Promote, db
  <1>9. ASSUME NEW q \in Request, OtherStep(q) PROVE Done
    BY <1>1, <1>5, <1>6, <1>9 DEF OtherStep, AutoPublish, SaveRelease, RollbackArchive, db
  <1>10. ASSUME NEW q \in Request, PushRequest(q) \/ EditRequest(q) \/ ReleaseRequest(q)
         PROVE  Done
    BY <1>1, <1>10 DEF PushRequest, PushExecute, AjaxPushExecute, BeginPush, EditRequest,
                       BeginEdit, ReleaseRequest, BeginUpdateRelease, BeginArchive, db
  <1>11. MarkRequest \/ LinkRequest \/ Crash \/ UNCHANGED vars => Done
    BY <1>1 DEF MarkRequest, ManualMark, AjaxManualMark, DeleteExecution, LinkRequest,
                AddReleaseScript, AjaxAddReleaseScript, RemoveReleaseScript, ClearAllScripts,
                Crash, vars, db
  <1>12. Done
    BY <1>7, <1>8, <1>9, <1>10, <1>11 DEF Next
  <1>13. QED
    BY <1>12 DEF Done

\* If edits keep apart, the texts in hand stay those of the rows.
LEMMA CurrentStays ==
  ASSUME TypeOK, Reason, Current, EditsApart, [Next]_vars
  PROVE  Current'
  <1> SUFFICES ASSUME NEW q \in Request PROVE UpToDate(q)'
    BY DEF Current
  <1>1. UpToDate(q)
    BY DEF Current
  <1>2. ASSUME NEW s \in Script, Busy(q, s) PROVE script'[s].content = script[s].content
    BY <1>2, ScriptMoves DEF EditsApart
  <1>3. ASSUME Pushing(q), NEW t \in req[q].plan
        PROVE  t.row.content = script'[t.row.script].content
    <2>1. t.row.script \in Script
      <3>1. req[q].plan \subseteq Planned
        BY <1>3, Shapes DEF Pushing, At, LoopLocal, BodyLocal
      <3>2. QED
        BY <3>1 DEF Planned, Snapshot
    <2>2. Busy(q, t.row.script)
      BY <1>3 DEF Busy
    <2>3. QED
      BY <1>1, <1>2, <1>3, <2>1, <2>2 DEF UpToDate
  <1>4. CASE req'[q] = req[q]
    <2>1. At(q, "write") => req[q].row.content = script'[req[q].row.script].content
      <3>1. ASSUME At(q, "write") PROVE req[q].row.script \in Script /\ Busy(q, req[q].row.script)
        BY <3>1, Shapes DEF Snapshot, Busy
      <3>2. QED
        BY <1>1, <1>2, <3>1 DEF UpToDate
    <2>2. At(q, "save") => script'[req[q].row.script].status = "draft"
      <3>1. SUFFICES ASSUME At(q, "save") PROVE script'[req[q].row.script].status = "draft"
        OBVIOUS
      <3>2. req[q].row.script \in Script
        BY <3>1, Shapes DEF EditLocal, Snapshot
      <3>3. \A p \in Request : ~Busy(p, req[q].row.script)
        BY <3>1 DEF EditsApart
      <3>4. QED
        BY <1>1, <3>1, <3>2, <3>3, ScriptMoves DEF UpToDate
    <2>3. QED
      BY <1>1, <1>3, <1>4, <2>1, <2>2 DEF UpToDate, Pushing, At
  <1>5. CASE ~Pushing(q)' /\ req'[q].at \notin {"write", "save"}
    BY <1>5 DEF UpToDate, Pushing, At
  <1>6. CASE PushStep(q) /\ Pushing(q)'
    <2>1. /\ req'[q].plan = req[q].plan /\ req'[q].todo \subseteq req[q].todo
          /\ req'[q].at \in BodyAt =>
               \/ req[q].at \in BodyAt /\ req'[q].row = req[q].row
               \/ \E t \in req[q].todo : req'[q].row = t.row
      BY <1>6, PushKeepsPlan
    <2>2. Pushing(q)
      BY <1>6, PushStepMoves
    <2>3. req'[q].at \in BodyAt => \E t \in req'[q].plan : t.row = req'[q].row
      BY <1>1, <2>1, <2>2 DEF UpToDate
    <2>4. req'[q].at \notin {"write", "save"}
      BY <1>6 DEF Pushing, BodyAt
    <2>5. QED
      BY <1>1, <1>3, <2>1, <2>2, <2>3, <2>4 DEF UpToDate, At
  <1>7. ASSUME UNCHANGED script, NEW s \in Script, NEW row, row = Load(s)
        PROVE  /\ row.content = script'[row.script].content
               /\ script[s].status = "draft" => script'[row.script].status = "draft"
    BY <1>7 DEF Load
  <1>8. CASE /\ UNCHANGED script /\ req'[q].at = "create" /\ req'[q].todo = req'[q].plan
             /\ \A t \in req'[q].plan : \E s \in Script : t.row = Load(s)
    <2>1. \A t \in req'[q].plan : t.row.content = script'[t.row.script].content
      BY <1>7, <1>8
    <2>2. QED
      BY <1>8, <2>1 DEF UpToDate, At, BodyAt
  <1>9. CASE /\ UNCHANGED script /\ req'[q].at = "write"
             /\ \E s \in Script : req'[q].row = Load(s)
    <2>1. req'[q].row.content = script'[req'[q].row.script].content
      BY <1>7, <1>9
    <2>2. QED
      BY <1>9, <2>1 DEF UpToDate, At, Pushing, BodyAt
  <1>10. CASE /\ UNCHANGED script /\ req'[q].at = "save"
              /\ \E s \in Script : req'[q].row = Load(s) /\ script[s].status = "draft"
    <2>1. script'[req'[q].row.script].status = "draft"
      BY <1>7, <1>10
    <2>2. QED
      BY <1>10, <2>1 DEF UpToDate, At, Pushing, BodyAt
  <1>11. PushStep(q) /\ ~Pushing(q)' => req'[q] = Idle
    <2>1. ASSUME NEW local, Goto(q, local) PROVE req'[q] = local
      BY <2>1 DEF Goto, TypeOK
    <2>2. EndPush(q) => req'[q] = Idle
      BY <2>1 DEF EndPush
    <2>3. CreateRecord(q) => req'[q].at = "execute"
      BY <2>1 DEF CreateRecord
    <2>4. SkipScript(q) => req'[q].at = "create"
      BY <2>1 DEF SkipScript, Loop
    <2>5. MarkExecuted(q) => req'[q].at = "create"
      BY <2>1 DEF MarkExecuted, Loop
    <2>6. ASSUME ExecuteScript(q) PROVE req'[q].at = "result"
      <3>1. req[q] \in BodyLocal
        BY <2>6, Shapes DEF ExecuteScript, At, BodyAt
      <3>2. PICK b \in BOOLEAN : Goto(q, [req[q] EXCEPT !.at = "result", !.success = b])
        BY <2>6, Zenon DEF ExecuteScript
      <3>3. QED
        BY <2>1, <3>1, <3>2 DEF BodyLocal
    <2>7. ASSUME RecordResult(q) PROVE req'[q].at \in {"create", "script"}
      <3>1. req[q] \in BodyLocal
        BY <2>7, Shapes DEF RecordResult, At, BodyAt
      <3>2. CASE req[q].success
        BY <2>1, <2>7, <3>1, <3>2 DEF RecordResult, BodyLocal
      <3>3. CASE ~req[q].success
        BY <2>1, <2>7, <3>3 DEF RecordResult, Loop
      <3>4. QED
        BY <3>2, <3>3
    <2>8. QED
      BY <2>2, <2>3, <2>4, <2>5, <2>6, <2>7 DEF PushStep, Pushing, BodyAt
  <1>12. req'[q] = Idle => ~Pushing(q)' /\ req'[q].at \notin {"write", "save"}
    BY DEF Idle, Pushing, BodyAt
  <1>13. QED
    BY <1>4, <1>5, <1>6, <1>8, <1>9, <1>10, <1>11, <1>12, TextsAreRead

\* A record comes to report a success, with no help by hand, only from the
\* push that is then about to mark its script.
LEMMA RecordMoves ==
  ASSUME TypeOK, [Next]_vars, NEW i \in RecordId,
         record'[i] # NoRecord, record'[i].mark = "auto", record'[i].status = "success"
  PROVE  \/ record'[i] = record[i]
         \/ \E q \in Request : req'[q].at = "script" /\ req'[q].rec = i
  <1> DEFINE Done == \/ record'[i] = record[i]
                     \/ \E q \in Request : req'[q].at = "script" /\ req'[q].rec = i
  <1>1. ASSUME UNCHANGED record PROVE Done
    BY <1>1
  <1>2. record \in [RecordId -> RecordRow \cup {NoRecord}]
    BY DEF TypeOK
  <1>3. ASSUME NEW q \in Request, CreateRecord(q) PROVE Done
    <2>1. PICK t \in req[q].todo :
            record' = [record EXCEPT ![nextRecord] =
                         [release |-> req[q].release, script |-> t.row.script,
                          status |-> "pending", mark |-> "auto"]]
      BY <1>3 DEF CreateRecord
    <2>2. i = nextRecord => record'[i].status = "pending"
      BY <1>2, <2>1
    <2>3. i # nextRecord => record'[i] = record[i]
      BY <1>2, <2>1
    <2>4. QED
      BY <2>2, <2>3
  <1>4. ASSUME NEW q \in Request, RecordResult(q) PROVE Done
    <2>1. req[q] \in BodyLocal
      BY <1>4, Shapes DEF RecordResult, At, BodyAt
    <2>2. CASE record' = [record EXCEPT ![req[q].rec].status = "success"] /\ req[q].success
      <3>1. req'[q] = [req[q] EXCEPT !.at = "script"]
        BY <1>4, <2>2 DEF RecordResult, Goto, TypeOK
      <3>2. req'[q].at = "script" /\ req'[q].rec = req[q].rec
        BY <2>1, <3>1 DEF BodyLocal
      <3>3. i # req[q].rec => record'[i] = record[i]
        BY <1>2, <2>2
      <3>4. QED
        BY <3>2, <3>3
    <2>3. CASE /\ record' = [record EXCEPT ![req[q].rec].status = "failed"]
               /\ record[req[q].rec] # NoRecord
      <3>1. req[q].rec \in RecordId /\ record[req[q].rec] \in RecordRow
        BY <1>2, <2>1, <2>3 DEF BodyLocal
      <3>2. record'[req[q].rec].status = "failed"
        BY <1>2, <2>3, <3>1 DEF RecordRow
      <3>3. QED
        BY <1>2, <2>3, <3>1, <3>2
    <2> HIDE DEF Done
    <2>4. QED
      BY <1>1, <1>4, <2>2, <2>3 DEF RecordResult
  <1>5. ASSUME NEW j \in RecordId, NEW status, record[j] # NoRecord, MarkManual(j, status)
        PROVE  Done
    <2>1. record'[j] = [record[j] EXCEPT !.status = status, !.mark = "manual"]
      BY <1>2, <1>5 DEF MarkManual
    <2>2. record'[j].mark = "manual"
      BY <1>2, <1>5, <2>1 DEF RecordRow
    <2>3. i # j => record'[i] = record[i]
      BY <1>2, <1>5 DEF MarkManual
    <2>4. QED
      BY <2>2, <2>3
  <1>6. ASSUME NEW j \in RecordId, DeleteExecution(j) PROVE Done
    BY <1>2, <1>6 DEF DeleteExecution
  <1> HIDE DEF Done
  <1>7. ASSUME NEW q \in Request, PushStep(q) PROVE Done
    BY <1>1, <1>3, <1>4, <1>7 DEF PushStep, SkipScript, ExecuteScript, MarkExecuted,
                                  EndPush, db
  <1>8. ASSUME NEW q \in Request, MarkStep(q) \/ OtherStep(q) PROVE Done
    BY <1>1, <1>8 DEF MarkStep, LoadMarked, WriteMarked, CountLinks, CountRecords, Promote,
                      OtherStep, SaveEdit, AutoPublish, SaveRelease, CommitArchive,
                      RollbackArchive, db
  <1>9. ASSUME NEW q \in Request, PushRequest(q) \/ EditRequest(q) \/ ReleaseRequest(q)
        PROVE  Done
    BY <1>1, <1>9 DEF PushRequest, PushExecute, AjaxPushExecute, BeginPush, EditRequest,
                      BeginEdit, ReleaseRequest, BeginUpdateRelease, BeginArchive, db
  <1>10. MarkRequest => Done
    BY <1>5, <1>6 DEF MarkRequest, ManualMark, AjaxManualMark
  <1>11. LinkRequest \/ Crash \/ UNCHANGED vars => Done
    BY <1>1 DEF LinkRequest, AddReleaseScript, AjaxAddReleaseScript, RemoveReleaseScript,
                ClearAllScripts, Crash, vars, db
  <1>12. QED
    BY <1>7, <1>8, <1>9, <1>10, <1>11 DEF Next, Done

\* A push that is about to mark a script does that next, unless the process dies.
LEMMA MarksNext ==
  ASSUME TypeOK, ~MayCrash, [Next]_vars, NEW q \in Request, At(q, "script")
  PROVE  req'[q] = req[q] \/ MarkExecuted(q)
  <1> DEFINE Done == req'[q] = req[q] \/ MarkExecuted(q)
  <1>1. ASSUME NEW p \in Request, NEW local, Goto(p, local), p # q PROVE Done
    BY <1>1 DEF Goto, TypeOK
  <1>2. ASSUME UNCHANGED req PROVE Done
    BY <1>2
  <1>3. ASSUME NEW p \in Request, PushStep(p) PROVE Done
    <2>1. CASE p = q
      BY <1>3, <2>1 DEF PushStep, CreateRecord, SkipScript, ExecuteScript, RecordResult,
                        EndPush, At
    <2>2. CASE p # q
      BY <1>3, <2>2, PushStepMoves
    <2>3. QED
      BY <2>1, <2>2
  <1>4. ASSUME NEW p \in Request, NEW at, At(p, at), at # "script" PROVE p # q
    BY <1>4 DEF At
  <1> HIDE DEF Done
  <1>5. ASSUME NEW p \in Request, MarkStep(p) PROVE Done
    BY <1>1, <1>4, <1>5 DEF MarkStep, LoadMarked, WriteMarked, CountLinks, CountRecords, Promote
  <1>6. ASSUME NEW p \in Request, OtherStep(p) PROVE Done
    BY <1>1, <1>4, <1>6 DEF OtherStep, SaveEdit, AutoPublish, SaveRelease, CommitArchive,
                            RollbackArchive
  <1>7. ASSUME NEW p \in Request, PushRequest(p) \/ EditRequest(p) \/ ReleaseRequest(p)
        PROVE  Done
    BY <1>1, <1>4, <1>7 DEF PushRequest, PushExecute, AjaxPushExecute, BeginPush, EditRequest,
                            BeginEdit, ReleaseRequest, BeginUpdateRelease, BeginArchive
  <1>8. MarkRequest => Done
    BY <1>1, <1>2, <1>4 DEF MarkRequest, ManualMark, AjaxManualMark, DeleteExecution
  <1>9. LinkRequest => Done
    BY <1>1, <1>2, <1>4 DEF LinkRequest, AddReleaseScript, AjaxAddReleaseScript,
                            RemoveReleaseScript, ClearAllScripts
  <1>10. ~Crash /\ (UNCHANGED vars => Done)
    BY <1>2 DEF Crash, vars
  <1>11. QED
    BY <1>3, <1>5, <1>6, <1>7, <1>8, <1>9, <1>10 DEF Next, Done

\* Where no write is lost, a script that ran does not escape its mark.
LEMMA MarkedStays ==
  ASSUME IInv, Current, Marked, Stored = {TRUE}, ~MayCrash, [Next]_vars
  PROVE  Marked'
  <1> TypeOK /\ Owned /\ Reason
    BY DEF IInv
  <1> SUFFICES ASSUME NEW i \in RecordId, record'[i] # NoRecord, record'[i].mark = "auto",
                      record'[i].status = "success"
               PROVE  \/ script'[record'[i].script].status # "draft"
                      \/ \E q \in Request : req'[q].at = "script" /\ req'[q].rec = i
    BY DEF Marked, At
  <1>1. CASE \E q \in Request : req'[q].at = "script" /\ req'[q].rec = i
    BY <1>1
  <1>2. CASE record'[i] = record[i]
    <2>1. record[i].script \in Script
      BY <1>2 DEF TypeOK, RecordRow
    <2>2. CASE script[record[i].script].status # "draft"
      BY <1>2, <2>1, <2>2, ScriptMoves
    <2>3. ASSUME NEW q \in Request, At(q, "script"), req[q].rec = i
          PROVE  \/ script'[record[i].script].status # "draft"
                 \/ req'[q].at = "script" /\ req'[q].rec = i
      <3>1. CASE req'[q] = req[q]
        BY <2>3, <3>1 DEF At
      <3>2. CASE MarkExecuted(q)
        <4>1. UpdateScript(req[q].row, "executed")
          BY <3>2 DEF MarkExecuted
        <4>2. req[q].row.script = record[i].script
          BY <1>2, <2>3 DEF Owned, At, BodyAt
        <4>3. script'[record[i].script].status = "executed"
          BY <2>1, <4>1, <4>2 DEF UpdateScript, TypeOK
        <4>4. QED
          BY <4>3
      <3>3. QED
        BY <2>3, <3>1, <3>2, MarksNext
    <2>4. QED
      BY <1>2, <2>2, <2>3 DEF Marked
  <1>3. QED
    BY <1>1, <1>2, RecordMoves

\* What keeps apart begins so and stays so.
LEMMA ApartInvariance == ApartSpec => Spec /\ [](EditsApart /\ Current)
  <1>1. Init => IInv /\ EditsApart /\ Current
    <2> SUFFICES ASSUME Init PROVE EditsApart /\ Current
      BY InitInvariant
    <2>1. \A q \in Request : req[q].at = "idle"
      BY DEF Init, Idle
    <2>2. QED
      BY <2>1 DEF EditsApart, Current, UpToDate, Pushing, At, BodyAt
  <1>2. IInv /\ EditsApart /\ Current /\ [Next /\ EditsApart']_vars =>
          (IInv /\ EditsApart /\ Current)'
    <2> SUFFICES ASSUME IInv, EditsApart, Current, [Next /\ EditsApart']_vars
                 PROVE  (IInv /\ EditsApart /\ Current)'
      OBVIOUS
    <2>1. [Next]_vars /\ TypeOK /\ Reason
      BY DEF IInv
    <2>2. IInv'
      BY <2>1, NextKeepsInvariant
    <2>3. Current'
      BY <2>1, CurrentStays
    <2>4. UNCHANGED vars => EditsApart'
      BY DEF vars, EditsApart, Busy, Pushing, At
    <2>5. QED
      BY <2>2, <2>3, <2>4
  <1>3. [Next /\ EditsApart']_vars => [Next]_vars
    OBVIOUS
  <1>4. QED
    BY <1>1, <1>2, <1>3, PTL DEF ApartSpec, Spec

\* The text of a script is locked once it was executed or archived, as long as
\* no edit overlaps with a push, a mark or an archive of that script; pushes,
\* marks and archives may overlap with each other, writes may be lost and the
\* process may die.
THEOREM LockedIfApart == ApartSpec => LockedAfterExecution
  <1>1. IInv /\ EditsApart /\ Current /\ [Next]_vars =>
          [\A s \in Script : script[s].status # "draft" =>
             script'[s].content = script[s].content]_vars
    BY ScriptMoves DEF IInv
  <1>2. QED
    BY <1>1, ApartInvariance, Invariance, PTL DEF Spec, LockedAfterExecution

\* A push marks every script it ran, under the same separation, if the database
\* takes every write and the process does not die: no other push, mark or
\* archive in flight undoes the mark.
THEOREM SuccessIsMarked ==
  Stored = {TRUE} /\ ~MayCrash => (ApartSpec => []SuccessMarksScript)
  <1> SUFFICES ASSUME Stored = {TRUE}, ~MayCrash PROVE ApartSpec => []SuccessMarksScript
    OBVIOUS
  <1>1. Init => Marked
    BY DEF Init, Marked
  <1>2. IInv /\ Current /\ Marked /\ [Next]_vars => Marked'
    BY MarkedStays
  <1>3. Marked => SuccessMarksScript
    BY DEF Marked, SuccessMarksScript, At
  <1>4. QED
    BY <1>1, <1>2, <1>3, ApartInvariance, Invariance, PTL DEF Spec
=============================================================================
