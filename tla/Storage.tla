------------------------------- MODULE Storage -------------------------------
(***************************************************************************)
(* The rows of the SQLite file and what they refer to: the foreign keys of *)
(* migrations/0001_init.sql, the creations and deletions of the            *)
(* repositories (internal/repo), and the clean-ups of internal/web/clean.go.*)
(*                                                                         *)
(* db.Open (internal/db/db.go) sets its pragmas on one connection of the   *)
(* pool; database/sql opens more when requests overlap.  SQLite checks     *)
(* foreign keys, at the end of each statement, on the connections that     *)
(* were told to.  A row is its id and the ids it refers to; a form may     *)
(* name any row that was ever there, for it was loaded earlier.            *)
(***************************************************************************)
EXTENDS Integers, Sequences

CONSTANTS
  Bound,     \* Bound[t]: rows of table t ever created
  Enforced   \* whether the connection of a statement checks: {TRUE, FALSE}

VARIABLES
  db,        \* db[t]: the rows of table t
  last,      \* last[t]: the greatest id table t has given (AUTOINCREMENT)
  deleting   \* releases whose links are deleted and whose row is to be

vars == <<db, last, deleting>>

Table == {"project", "project_version", "environment", "datasource", "sql_script",
          "sql_release", "release_script", "execution_record", "archive_log"}

\* REFERENCES of the schema; no table refers to another twice.
References ==
  [t \in Table |->
    CASE t = "project"          -> {}
      [] t = "project_version"  -> {"project"}
      [] t = "environment"      -> {}
      [] t = "datasource"       -> {"project", "environment"}
      [] t = "sql_script"       -> {"project"}
      [] t = "sql_release"      -> {"project", "project_version"}
      [] t = "release_script"   -> {"sql_release", "sql_script"}
      [] t = "execution_record" -> {"sql_release", "sql_script", "datasource",
                                    "environment"}
      [] t = "archive_log"      -> {"sql_release", "project"}]

Null == 0
Nullable(t, p) == t = "sql_release" /\ p = "project_version"
Lowest(t, p) == IF Nullable(t, p) THEN Null ELSE 1

ASSUME BoundAssumption    == Bound \in [Table -> Nat]
ASSUME EnforcedAssumption == Enforced \subseteq BOOLEAN

Row(t) == [id : 1 .. Bound[t], to : [References[t] -> Nat]]

\* A row of table t refers to rows created before, and to one where it must.
RowOK(t, r, given) ==
  /\ r \in Row(t)
  /\ r.id <= given[t]
  /\ \A p \in References[t] : r.to[p] \in Lowest(t, p) .. given[p]

TypeOK ==
  /\ last \in [Table -> Nat]
  /\ deleting \subseteq 1 .. last["sql_release"]
  /\ DOMAIN db = Table
  /\ \A t \in Table : \A r \in db[t] : RowOK(t, r, last)
  /\ \A t \in Table : \A r, s \in db[t] : r.id = s.id => r = s

Init ==
  /\ db = [t \in Table |-> {}]
  /\ last = [t \in Table |-> 0]
  /\ deleting = {}

-----------------------------------------------------------------------------
(* References.                                                             *)

Ids(d, t) == {r.id : r \in d[t]}

\* The references of database d to rows that are not there: table, id, table.
Dangling(d) ==
  UNION {UNION {{<<t, r.id, p>> : p \in {q \in References[t] :
                                          r.to[q] # Null /\ r.to[q] \notin Ids(d, q)}} :
                r \in d[t]} : t \in Table}

\* What a form may say that a row of table t refers to.
Form(t) ==
  {f \in [References[t] -> UNION {0 .. last[p] : p \in References[t]}] :
     \A p \in References[t] : f[p] \in Lowest(t, p) .. last[p]}

\* The check of an INSERT or UPDATE, and that of a DELETE.
Resolves(d, f) == \A p \in DOMAIN f : f[p] = Null \/ f[p] \in Ids(d, p)
NewlyDangling(d, e) == ~(Dangling(e) \subseteq Dangling(d))

-----------------------------------------------------------------------------
(* One statement on a connection; check says whether it checks.            *)

\* Fault: an id that is free again is given again.
InsertAnyId(t, check) ==
  /\ last[t] < Bound[t]
  /\ \E f \in Form(t), i \in (1 .. Bound[t]) \ Ids(db, t) :
       /\ check => Resolves(db, f)
       /\ db' = [db EXCEPT ![t] = @ \cup {[id |-> i, to |-> f]}]
  /\ last' = [last EXCEPT ![t] = @ + 1]
  /\ UNCHANGED deleting

Insert(t, check) ==
  /\ last[t] < Bound[t]
  /\ \E f \in Form(t) :
       /\ check => Resolves(db, f)
       /\ db' = [db EXCEPT ![t] = @ \cup {[id |-> last[t] + 1, to |-> f]}]
  /\ last' = [last EXCEPT ![t] = @ + 1]
  /\ UNCHANGED deleting

Update(t, check) ==
  /\ \E r \in db[t], f \in Form(t) :
       /\ check => Resolves(db, f)
       /\ db' = [db EXCEPT ![t] = (@ \ {r}) \cup {[r EXCEPT !.to = f]}]
  /\ UNCHANGED <<last, deleting>>

Without(t, rows) == [db EXCEPT ![t] = @ \ rows]

Delete(t, check) ==
  /\ \E r \in db[t] :
       /\ ~(check /\ NewlyDangling(db, Without(t, {r})))
       /\ db' = Without(t, {r})
  /\ UNCHANGED <<last, deleting>>

-----------------------------------------------------------------------------
(* What the handlers and the repositories do.                              *)

CreateProject(check)     == Insert("project", check)
DeleteProject(check)     == Delete("project", check)
CreateVersion(check)     == Insert("project_version", check)
CreateEnvironment(check) == Insert("environment", check)
DeleteEnvironment(check) == Delete("environment", check)
CreateDatasource(check)  == Insert("datasource", check)
UpdateDatasource(check)  == Update("datasource", check)
DeleteDatasource(check)  == Delete("datasource", check)
CreateScript(check)      == Insert("sql_script", check)
UpdateScript(check)      == Update("sql_script", check)
DeleteScript(check)      == Delete("sql_script", check)
CreateRelease(check)     == Insert("sql_release", check)
UpdateRelease(check)     == Update("sql_release", check)
AddScript(check)         == Insert("release_script", check)

\* A push creates a record for a release, a script and a datasource that it
\* has read, in the environment that the datasource had then.
CreateRecord(check)      == Insert("execution_record", check)
DeleteExecution(check)   == Delete("execution_record", check)

LinksOf(release) == {l \in db["release_script"] : l.to["sql_release"] = release}

RemoveScript(release, script) ==
  /\ db' = Without("release_script",
                   {l \in LinksOf(release) : l.to["sql_script"] = script})
  /\ UNCHANGED <<last, deleting>>

ClearAllScripts(release) ==
  /\ db' = Without("release_script", LinksOf(release))
  /\ UNCHANGED <<last, deleting>>

\* ReleaseRepo.Delete is two statements, in no transaction and on a connection
\* each: the links, then the row.
BeginDeleteRelease(release) ==
  /\ db' = Without("release_script", LinksOf(release))
  /\ deleting' = deleting \cup {release}
  /\ UNCHANGED last

FinishDeleteRelease(release, check) ==
  /\ release \in deleting
  /\ LET rest == Without("sql_release", {r \in db["sql_release"] : r.id = release})
     IN  /\ ~(check /\ NewlyDangling(db, rest))
         /\ db' = rest
  /\ deleting' = deleting \ {release}
  /\ UNCHANGED last

\* The second statement is refused, or busy, or the process dies before it.
AbandonDeleteRelease(release) ==
  /\ release \in deleting
  /\ deleting' = deleting \ {release}
  /\ UNCHANGED <<db, last>>

\* The transaction of an archive: the row of the new version, if there is one,
\* and the row of the log.  It holds the write lock from the first to the last.
Archive(bump, check) ==
  /\ last["archive_log"] < Bound["archive_log"]
  /\ bump => last["project_version"] < Bound["project_version"]
  /\ \E f \in Form("archive_log") :
       LET new == [id |-> last["project_version"] + 1, to |-> [p \in {"project"} |-> f[p]]]
           row == [id |-> last["archive_log"] + 1, to |-> f]
       IN  /\ check => Resolves(db, f)
           /\ db' = [db EXCEPT !["archive_log"] = @ \cup {row},
                               !["project_version"] = IF bump THEN @ \cup {new} ELSE @]
  /\ last' = [last EXCEPT !["archive_log"] = @ + 1,
                          !["project_version"] = IF bump THEN @ + 1 ELSE @]
  /\ UNCHANGED deleting

-----------------------------------------------------------------------------
(* Clean-ups.  A statement <<t, p>> deletes the rows of table t that refer  *)
(* to a row of table p that is there, <<t, t>> all the rows of t.          *)

\* Fault: the scripts go before the links to them.
cleanProjectsInOrderOfSchema ==
  << <<"archive_log", "archive_log">>, <<"execution_record", "execution_record">>,
     <<"sql_script", "sql_script">>, <<"release_script", "release_script">>,
     <<"sql_release", "sql_release">>, <<"datasource", "datasource">>,
     <<"environment", "environment">>, <<"project_version", "project_version">>,
     <<"project", "project">> >>

cleanProjects ==
  << <<"archive_log", "archive_log">>, <<"execution_record", "execution_record">>,
     <<"release_script", "release_script">>, <<"sql_release", "sql_release">>,
     <<"sql_script", "sql_script">>, <<"datasource", "datasource">>,
     <<"environment", "environment">>, <<"project_version", "project_version">>,
     <<"project", "project">> >>

\* It first takes the version from every release, see Start.
cleanVersions == << <<"project_version", "project_version">> >>

cleanEnvironments ==
  << <<"execution_record", "environment">>, <<"datasource", "environment">>,
     <<"environment", "environment">> >>

cleanDatasources ==
  << <<"execution_record", "datasource">>, <<"datasource", "datasource">> >>

cleanScripts ==
  << <<"execution_record", "sql_script">>, <<"release_script", "sql_script">>,
     <<"sql_script", "sql_script">> >>

\* Fault: the archive log is forgotten.
cleanReleasesButLog ==
  << <<"execution_record", "sql_release">>, <<"release_script", "sql_release">>,
     <<"sql_release", "sql_release">> >>

cleanReleases ==
  << <<"archive_log", "sql_release">>, <<"execution_record", "sql_release">>,
     <<"release_script", "sql_release">>, <<"sql_release", "sql_release">> >>

cleanExecutions == << <<"execution_record", "execution_record">> >>
cleanArchives   == << <<"archive_log", "archive_log">> >>

CleanUps == {cleanProjects, cleanVersions, cleanEnvironments, cleanDatasources,
             cleanScripts, cleanReleases, cleanExecutions, cleanArchives}

Start(k, d) ==
  IF k = cleanVersions
    THEN [d EXCEPT !["sql_release"] = {[r EXCEPT !.to["project_version"] = Null] : r \in @}]
    ELSE d

\* The database after the first n statements of clean-up k.  A table that a
\* condition looks at is emptied last, so conditions may be read in d.
Cleaned(k, d, n) ==
  [t \in Table |->
     {r \in Start(k, d)[t] :
        \A i \in 1 .. n : k[i][1] = t => /\ k[i][2] # t
                                         /\ r.to[k[i][2]] \notin Ids(d, k[i][2])}]

\* A statement of the clean-up is refused, and with it the transaction.
Refused(k, d) == \E n \in 1 .. Len(k) : NewlyDangling(d, Cleaned(k, d, n))

\* A transaction that begins with a write: all of it at once.
Clean(k, check) ==
  /\ ~(check /\ Refused(k, db))
  /\ db' = Cleaned(k, db, Len(k))
  /\ UNCHANGED <<last, deleting>>

-----------------------------------------------------------------------------
Change(check) ==
  \/ CreateProject(check) \/ DeleteProject(check)
  \/ CreateVersion(check)
  \/ CreateEnvironment(check) \/ DeleteEnvironment(check)
  \/ CreateDatasource(check) \/ UpdateDatasource(check) \/ DeleteDatasource(check)
  \/ CreateScript(check) \/ UpdateScript(check) \/ DeleteScript(check)
  \/ CreateRelease(check) \/ UpdateRelease(check)
  \/ AddScript(check)
  \/ CreateRecord(check) \/ DeleteExecution(check)
  \/ \E bump \in BOOLEAN : Archive(bump, check)
  \/ \E k \in CleanUps : Clean(k, check)
  \/ \E release \in deleting : FinishDeleteRelease(release, check)

Next ==
  \/ \E check \in Enforced : Change(check)
  \/ \E release \in 1 .. last["sql_release"] :
       \/ \E script \in 1 .. last["sql_script"] : RemoveScript(release, script)
       \/ ClearAllScripts(release)
       \/ BeginDeleteRelease(release)
       \/ AbandonDeleteRelease(release)

Spec == Init /\ [][Next]_vars

-----------------------------------------------------------------------------
(* Safety.                                                                 *)

\* "foreign-key enforcement [is] enabled on every connection" (db.go:3): no row
\* ever refers to one that is gone.
NoDangling == Dangling(db) = {}

\* In a database without dangling references, no clean-up is ever refused, and
\* none leaves a dangling reference, on whichever connection it runs: the
\* statements of each clean.go handler take along, and in an order SQLite
\* allows, all that refers to what they delete.
CleanUpsAreSound ==
  Dangling(db) = {} =>
    \A k \in CleanUps : ~Refused(k, db) /\ Dangling(Cleaned(k, db, Len(k))) = {}

\* Whatever deletions on connections that do not check, or in two statements,
\* have left behind: clearing all projects is not refused and clears everything.
ProjectsCanBeCleared ==
  /\ ~Refused(cleanProjects, db)
  /\ \A t \in Table : Cleaned(cleanProjects, db, Len(cleanProjects))[t] = {}
=============================================================================
