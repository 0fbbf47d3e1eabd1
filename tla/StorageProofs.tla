---------------------------- MODULE StorageProofs ----------------------------
(* Theorems about Storage, for every bound and every pool of connections.   *)
EXTENDS Storage, TLAPS

-----------------------------------------------------------------------------
(* Lemmas about the operators.                                             *)

\* Row r of table t refers to a row of p that is not in d.
Lost(d, t, r, p) == r.to[p] # Null /\ r.to[p] \notin Ids(d, p)

\* Dangling finds the references to rows that are not there, and no other.
LEMMA DanglingIs ==
  ASSUME NEW d, NEW x
  PROVE  x \in Dangling(d) <=>
           \E t \in Table : \E r \in d[t] : \E p \in References[t] :
              Lost(d, t, r, p) /\ x = <<t, r.id, p>>
<1> DEFINE Of(t, r) == {<<t, r.id, p>> : p \in {q \in References[t] :
                                   r.to[q] # Null /\ r.to[q] \notin Ids(d, q)}}
           In(t) == UNION {Of(t, r) : r \in d[t]}
<1>1. \A t, r : x \in Of(t, r) <=>
         \E p \in References[t] : Lost(d, t, r, p) /\ x = <<t, r.id, p>>
  BY DEF Lost
<1> HIDE DEF Of
<1>2. \A t : x \in In(t) <=> \E r \in d[t] : x \in Of(t, r)
  BY Zenon
<1> HIDE DEF In
<1>3. x \in UNION {In(t) : t \in Table} <=> \E t \in Table : x \in In(t)
  BY Zenon
<1>4. Dangling(d) = UNION {In(t) : t \in Table}
  BY Zenon DEF Dangling, In, Of
<1> QED
  BY <1>1, <1>2, <1>3, <1>4, Zenon

LEMMA NoneDangling ==
  ASSUME NEW d
  PROVE  Dangling(d) = {} <=>
           \A t \in Table : \A r \in d[t] : \A p \in References[t] : ~Lost(d, t, r, p)
<1>1. ASSUME NEW t \in Table, NEW r \in d[t], NEW p \in References[t], Lost(d, t, r, p)
      PROVE  <<t, r.id, p>> \in Dangling(d)
  BY <1>1, DanglingIs
<1>2. ASSUME NEW x \in Dangling(d)
      PROVE  \E t \in Table : \E r \in d[t] : \E p \in References[t] : Lost(d, t, r, p)
  BY <1>2, DanglingIs
<1> QED
  BY <1>1, <1>2, Zenon

\* A statement that takes rows away makes references dangle only if rows that
\* stay refer to rows that go.
LEMMA NotNewly ==
  ASSUME NEW d, NEW e,
         \A t \in Table : \A r \in e[t] : \A p \in References[t] :
            Lost(e, t, r, p) => \E s \in d[t] : s.id = r.id /\ Lost(d, t, s, p)
  PROVE  ~NewlyDangling(d, e)
<1> SUFFICES ASSUME NEW x \in Dangling(e)
             PROVE  x \in Dangling(d)
  BY DEF NewlyDangling
<1>1. PICK t \in Table : \E r \in e[t] : \E p \in References[t] :
              Lost(e, t, r, p) /\ x = <<t, r.id, p>>
  BY DanglingIs
<1>2. PICK r \in e[t] : \E p \in References[t] :
              Lost(e, t, r, p) /\ x = <<t, r.id, p>>
  BY <1>1
<1>3. PICK p \in References[t] : Lost(e, t, r, p) /\ x = <<t, r.id, p>>
  BY <1>2
<1>4. PICK s \in d[t] : s.id = r.id /\ Lost(d, t, s, p)
  BY <1>3
<1> QED
  BY <1>3, <1>4, DanglingIs

\* What is left of a table after some statements of a clean-up.
LEMMA CleanedIs ==
  ASSUME NEW k, NEW d, NEW n, NEW t \in Table
  PROVE  Cleaned(k, d, n)[t] =
           {r \in Start(k, d)[t] :
              \A i \in 1 .. n : k[i][1] = t => /\ k[i][2] # t
                                               /\ r.to[k[i][2]] \notin Ids(d, k[i][2])}
BY DEF Cleaned

-----------------------------------------------------------------------------
(* Clean-ups.                                                              *)

\* One of the first n statements of clean-up k is about table t.
Visits(k, t, n) == \E i \in 1 .. n : k[i][1] = t

\* Every statement about a table comes after those about the tables that refer
\* to it.
Ordered(k) ==
  \A n \in 1 .. Len(k), t \in Table : \A p \in References[t] :
     Visits(k, p, n) => Visits(k, t, n)

\* Every statement about a table empties it.
Empties(k, d) ==
  \A n \in 1 .. Len(k), t \in Table :
     Cleaned(k, d, n)[t] = IF Visits(k, t, n) THEN {} ELSE d[t]

\* Then no statement makes a reference dangle.
LEMMA NoneRefused ==
  ASSUME NEW d, NEW k, Ordered(k), Empties(k, d)
  PROVE  ~Refused(k, d)
<1> SUFFICES ASSUME NEW n \in 1 .. Len(k)
             PROVE  ~NewlyDangling(d, Cleaned(k, d, n))
  BY DEF Refused
<1> DEFINE e == Cleaned(k, d, n)
<1>1. ASSUME NEW t \in Table, NEW r \in e[t], NEW p \in References[t], Lost(e, t, r, p)
      PROVE  \E s \in d[t] : s.id = r.id /\ Lost(d, t, s, p)
  <2>1. ~Visits(k, t, n) /\ r \in d[t]
    BY DEF Empties
  <2>2. p \in Table
    BY DEF Table, References
  <2>3. ~Visits(k, p, n)
    BY <2>1 DEF Ordered
  <2>4. Ids(e, p) = Ids(d, p)
    BY <2>2, <2>3 DEF Ids, Empties
  <2> QED
    BY <1>1, <2>1, <2>4 DEF Lost
<1> QED
  BY <1>1, NotNewly

\* Clearing the projects empties every table before those it refers to, so no
\* statement is refused, and nothing is left, whatever the rows refer to.
LEMMA ClearingProjects ==
  ASSUME NEW d
  PROVE  /\ ~Refused(cleanProjects, d)
         /\ \A t \in Table : Cleaned(cleanProjects, d, Len(cleanProjects))[t] = {}
<1> DEFINE k == cleanProjects
<1>1. Len(k) = 9 /\ \A i \in 1 .. 9 : k[i][2] = k[i][1]
  BY DEF cleanProjects
<1>2. \A t \in Table : Visits(k, t, 9)
  BY SMT DEF Table, cleanProjects, Visits
<1>3. Ordered(k)
  BY <1>1 DEF Table, References, cleanProjects, Ordered, Visits
<1>4. Start(k, d) = d
  <2>1. k # cleanVersions
    BY <1>1 DEF cleanVersions
  <2> QED
    BY <2>1, Zenon DEF Start
<1>5. Empties(k, d)
  <2> SUFFICES ASSUME NEW n \in 1 .. 9, NEW t \in Table
               PROVE  Cleaned(k, d, n)[t] = IF Visits(k, t, n) THEN {} ELSE d[t]
    BY <1>1 DEF Empties
  <2>1. Cleaned(k, d, n)[t] =
          {r \in d[t] : \A i \in 1 .. n : k[i][1] = t => /\ k[i][2] # t
                                               /\ r.to[k[i][2]] \notin Ids(d, k[i][2])}
    BY <1>4, CleanedIs
  <2>2. CASE Visits(k, t, n)
    <3>1. PICK i \in 1 .. n : k[i][1] = t
      BY <2>2 DEF Visits
    <3>2. k[i][2] = t
      BY <3>1, <1>1
    <3> QED
      BY <2>1, <2>2, <3>1, <3>2
  <2>3. CASE ~Visits(k, t, n)
    BY <2>1, <2>3 DEF Visits
  <2> QED
    BY <2>2, <2>3
<1>6. ~Refused(k, d)
  BY <1>3, <1>5, NoneRefused
<1>7. \A t \in Table : Cleaned(k, d, Len(k))[t] = {}
  BY <1>1, <1>2, <1>5 DEF Empties
<1> QED
  BY <1>6, <1>7

\* In a database without dangling references, where every row refers to what
\* it must, the other clean-ups empty the tables they visit, too.
Whole(d) ==
  /\ Dangling(d) = {}
  /\ DOMAIN d = Table
  /\ \A t \in Table : \A r \in d[t] :
       /\ r \in Row(t)
       /\ \A p \in References[t] : ~Nullable(t, p) => r.to[p] # Null

OtherCleanUps == CleanUps \ {cleanVersions}

LEMMA OrderOfCleanUps ==
  ASSUME NEW k \in OtherCleanUps
  PROVE  /\ k # cleanVersions
         /\ Ordered(k)
         /\ Len(k) \in Nat \ {0}
         /\ \A i \in 1 .. Len(k) : \/ k[i][2] = k[i][1]
                                   \/ /\ k[i][2] \in References[k[i][1]]
                                      /\ ~Nullable(k[i][1], k[i][2])
<1> USE DEF Ordered, Visits, Table, References, Nullable
<1>1. CASE k = cleanProjects
  BY <1>1 DEF cleanProjects, cleanVersions
<1>2. CASE k = cleanEnvironments
  BY <1>2 DEF cleanEnvironments, cleanVersions
<1>3. CASE k = cleanDatasources
  BY <1>3 DEF cleanDatasources, cleanVersions
<1>4. CASE k = cleanScripts
  BY <1>4 DEF cleanScripts, cleanVersions
<1>5. CASE k = cleanReleases
  BY <1>5 DEF cleanReleases, cleanVersions
<1>6. CASE k = cleanExecutions
  BY <1>6 DEF cleanExecutions, cleanVersions
<1>7. CASE k = cleanArchives
  BY <1>7 DEF cleanArchives, cleanVersions
<1> QED
  BY <1>1, <1>2, <1>3, <1>4, <1>5, <1>6, <1>7 DEF OtherCleanUps, CleanUps

LEMMA OtherCleanUpsEmpty ==
  ASSUME NEW d, Whole(d), NEW k \in OtherCleanUps
  PROVE  Empties(k, d)
<1> SUFFICES ASSUME NEW n \in 1 .. Len(k), NEW t \in Table
             PROVE  Cleaned(k, d, n)[t] = IF Visits(k, t, n) THEN {} ELSE d[t]
  BY DEF Empties
<1>1. Start(k, d) = d
  BY OrderOfCleanUps, Zenon DEF Start
<1>2. Cleaned(k, d, n)[t] =
        {r \in d[t] : \A i \in 1 .. n : k[i][1] = t => /\ k[i][2] # t
                                             /\ r.to[k[i][2]] \notin Ids(d, k[i][2])}
  BY <1>1, CleanedIs
<1>3. CASE Visits(k, t, n)
  <2>1. PICK i \in 1 .. n : k[i][1] = t
    BY <1>3 DEF Visits
  <2>2. i \in 1 .. Len(k)
    BY OrderOfCleanUps
  <2>3. \/ k[i][2] = t
        \/ k[i][2] \in References[t] /\ ~Nullable(t, k[i][2])
    BY <2>1, <2>2, OrderOfCleanUps
  <2>4. ASSUME NEW r \in d[t]
        PROVE  k[i][2] = t \/ r.to[k[i][2]] \in Ids(d, k[i][2])
    BY <2>3, NoneDangling DEF Whole, Lost
  <2> QED
    BY <1>2, <1>3, <2>1, <2>4
<1>4. CASE ~Visits(k, t, n)
  BY <1>2, <1>4 DEF Visits
<1> QED
  BY <1>3, <1>4

\* A release that loses its version keeps its id and its project.
LEMMA WithoutVersion ==
  ASSUME NEW r \in Row("sql_release")
  PROVE  LET q == [r EXCEPT !.to["project_version"] = Null]
         IN  /\ q.id = r.id
             /\ q.to["project_version"] = Null
             /\ q.to["project"] = r.to["project"]
             /\ q \in Row("sql_release")
<1>1. References["sql_release"] = {"project", "project_version"}
  BY DEF References, Table
<1> QED
  BY <1>1 DEF Row, Null

LEMMA CleaningVersions ==
  ASSUME NEW d, Whole(d)
  PROVE  ~Refused(cleanVersions, d)
<1> DEFINE k == cleanVersions
           e == Cleaned(k, d, 1)
           St == Start(k, d)
<1>1. Len(k) = 1 /\ k[1] = <<"project_version", "project_version">>
  BY DEF cleanVersions
<1>2. \A t \in Table : t # "sql_release" => St[t] = d[t]
  BY DEF Start, Whole
<1>3. "sql_release" \in Table
  BY DEF Table
<1>4. St["sql_release"] =
        {[r EXCEPT !.to["project_version"] = Null] : r \in d["sql_release"]}
  BY <1>3, Zenon DEF Start, Whole
<1> HIDE DEF St
<1>5. ASSUME NEW t \in Table
      PROVE  e[t] = IF t = "project_version" THEN {} ELSE St[t]
  <2>1. e[t] = {r \in St[t] : \A i \in 1 .. 1 : k[i][1] = t =>
                    /\ k[i][2] # t
                    /\ r.to[k[i][2]] \notin Ids(d, k[i][2])}
    BY CleanedIs DEF St
  <2>2. e[t] = {r \in St[t] : k[1][1] = t => /\ k[1][2] # t
                                             /\ r.to[k[1][2]] \notin Ids(d, k[1][2])}
    BY <2>1
  <2> QED
    BY <1>1, <2>2
<1> HIDE DEF e
<1>6. ASSUME NEW t \in Table, NEW r \in St[t]
      PROVE  \E s \in d[t] : /\ s.id = r.id
                             /\ \A p \in References[t] :
                                  \/ r.to[p] = s.to[p]
                                  \/ r.to[p] = Null /\ Nullable(t, p)
  <2>1. CASE t = "sql_release"
    <3>1. PICK s \in d[t] : r = [s EXCEPT !.to["project_version"] = Null]
      BY <1>4, <2>1
    <3>2. s \in Row("sql_release")
      BY <2>1 DEF Whole
    <3>3. References[t] = {"project", "project_version"}
      BY <2>1 DEF References, Table
    <3> QED
      BY <2>1, <3>1, <3>2, <3>3, WithoutVersion DEF Nullable
  <2>2. CASE t # "sql_release"
    BY <1>2, <2>2
  <2> QED
    BY <2>1, <2>2
<1>7. \A r \in St["sql_release"] : r.to["project_version"] = Null
  <2>1. ASSUME NEW r \in St["sql_release"]
        PROVE  r.to["project_version"] = Null
    <3>1. PICK s \in d["sql_release"] : r = [s EXCEPT !.to["project_version"] = Null]
      BY <1>4
    <3>2. s \in Row("sql_release")
      BY <1>3 DEF Whole
    <3> QED
      BY <3>1, <3>2, WithoutVersion
  <2> QED
    BY <2>1
<1>8. ASSUME NEW p \in Table, p # "project_version", NEW i \in Ids(d, p)
      PROVE  i \in Ids(e, p)
  <2>1. CASE p = "sql_release"
    <3>1. PICK s \in d[p] : i = s.id
      BY DEF Ids
    <3>2. s \in Row("sql_release")
      BY <2>1 DEF Whole
    <3>3. [s EXCEPT !.to["project_version"] = Null] \in e[p]
      BY <1>4, <1>5, <2>1, <3>1
    <3> QED
      BY <3>1, <3>2, <3>3, WithoutVersion DEF Ids
  <2>2. CASE p # "sql_release"
    BY <1>2, <1>5, <1>8, <2>2 DEF Ids
  <2> QED
    BY <2>1, <2>2
<1>9. ASSUME NEW t \in Table, NEW r \in e[t], NEW p \in References[t], Lost(e, t, r, p)
      PROVE  \E s \in d[t] : s.id = r.id /\ Lost(d, t, s, p)
  <2>1. r \in St[t] /\ p \in Table
    BY <1>5 DEF Table, References
  <2>2. CASE p = "project_version"
    <3>1. t = "sql_release"
      BY <2>2 DEF Table, References
    <3> QED
      BY <1>7, <1>9, <2>1, <2>2, <3>1 DEF Lost
  <2>3. CASE p # "project_version"
    <3>1. PICK s \in d[t] : s.id = r.id /\ r.to[p] = s.to[p]
      BY <1>6, <1>9, <2>1 DEF Lost
    <3> QED
      BY <1>8, <1>9, <2>1, <2>3, <3>1 DEF Lost
  <2> QED
    BY <2>2, <2>3
<1>10. ~NewlyDangling(d, e)
  BY <1>9, NotNewly
<1> QED
  BY <1>1, <1>10 DEF Refused, e

\* No clean-up of a whole database is refused, and none leaves a dangling
\* reference.
LEMMA CleanUpsOfWhole ==
  ASSUME NEW d, Whole(d), NEW k \in CleanUps
  PROVE  ~Refused(k, d) /\ Dangling(Cleaned(k, d, Len(k))) = {}
<1>1. ~Refused(k, d)
  <2>1. CASE k = cleanVersions
    BY <2>1, CleaningVersions
  <2>2. CASE k # cleanVersions
    BY <2>2, OrderOfCleanUps, OtherCleanUpsEmpty, NoneRefused DEF OtherCleanUps
  <2> QED
    BY <2>1, <2>2
<1>2. Len(k) \in Nat \ {0}
  <2>1. Len(cleanVersions) = 1
    BY DEF cleanVersions
  <2> QED
    BY <2>1, OrderOfCleanUps DEF OtherCleanUps
<1> QED
  BY <1>1, <1>2 DEF Refused, NewlyDangling, Whole

-----------------------------------------------------------------------------
(* Type correctness.                                                       *)

\* What the handlers do comes down to these statements and transactions.
LEMMA Statements ==
  ASSUME NEW check, Change(check)
  PROVE  \/ \E t \in Table : Insert(t, check)
         \/ \E t \in Table : Update(t, check)
         \/ \E t \in Table : Delete(t, check)
         \/ \E bump \in BOOLEAN : Archive(bump, check)
         \/ \E k \in CleanUps : Clean(k, check)
         \/ \E release \in deleting : FinishDeleteRelease(release, check)
<1>1. /\ "project" \in Table /\ "project_version" \in Table
      /\ "environment" \in Table /\ "datasource" \in Table /\ "sql_script" \in Table
      /\ "sql_release" \in Table /\ "release_script" \in Table
      /\ "execution_record" \in Table
  BY DEF Table
<1> QED
  BY <1>1, Zenon
     DEF Change, CreateProject, DeleteProject, CreateVersion, CreateEnvironment,
         DeleteEnvironment, CreateDatasource, UpdateDatasource, DeleteDatasource,
         CreateScript, UpdateScript, DeleteScript, CreateRelease, UpdateRelease,
         AddScript, CreateRecord, DeleteExecution

LEMMA RowStays ==
  ASSUME NEW l \in [Table -> Nat], NEW m \in [Table -> Nat],
         \A u \in Table : l[u] <= m[u],
         NEW t \in Table, NEW r, RowOK(t, r, l)
  PROVE  RowOK(t, r, m)
<1>1. \A p \in References[t] : p \in Table
  BY DEF References, Table
<1>2. \A p \in References[t] : Lowest(t, p) \in Nat
  BY DEF Lowest, Null
<1>3. r.id \in Nat
  BY BoundAssumption DEF RowOK, Row
<1> QED
  BY <1>1, <1>2, <1>3 DEF RowOK

\* Rows may go.
LEMMA Fewer ==
  ASSUME TypeOK, last' = last, DOMAIN db' = Table,
         \A t \in Table : db'[t] \subseteq db[t],
         deleting' \subseteq 1 .. last["sql_release"]
  PROVE  TypeOK'
BY DEF TypeOK, RowOK

\* A form names rows that were created.
LEMMA FormIs ==
  ASSUME TypeOK, NEW t \in Table, NEW f \in Form(t)
  PROVE  /\ f \in [References[t] -> Nat]
         /\ \A p \in References[t] : f[p] \in Lowest(t, p) .. last[p]
<1>1. \A p \in References[t] : p \in Table
  BY DEF References, Table
<1>2. \A p \in References[t] : Lowest(t, p) \in Nat /\ last[p] \in Nat
  BY <1>1 DEF Lowest, Null, TypeOK
<1>3. /\ f \in [References[t] -> UNION {0 .. last[p] : p \in References[t]}]
      /\ \A p \in References[t] : f[p] \in Lowest(t, p) .. last[p]
  BY DEF Form
<1> QED
  BY <1>2, <1>3

LEMMA InsertType ==
  ASSUME TypeOK, NEW t \in Table, NEW check, Insert(t, check)
  PROVE  TypeOK'
<1>1. PICK f \in Form(t) :
         db' = [db EXCEPT ![t] = @ \cup {[id |-> last[t] + 1, to |-> f]}]
  BY DEF Insert
<1> DEFINE new == [id |-> last[t] + 1, to |-> f]
<1>2. /\ last' = [last EXCEPT ![t] = @ + 1]
      /\ last[t] \in Nat /\ Bound[t] \in Nat /\ last[t] < Bound[t]
      /\ deleting' = deleting
  BY BoundAssumption DEF Insert, TypeOK
<1>3. last' \in [Table -> Nat] /\ \A u \in Table : last[u] <= last'[u]
  BY <1>2 DEF TypeOK
<1>4. RowOK(t, new, last')
  <2>1. new \in Row(t)
    BY <1>2, FormIs DEF Row
  <2>2. new.id <= last'[t]
    BY <1>2 DEF TypeOK
  <2>3. ASSUME NEW p \in References[t]
        PROVE  f[p] \in Lowest(t, p) .. last'[p]
    <3>1. p \in Table
      BY DEF References, Table
    <3>2. Lowest(t, p) \in Nat
      BY DEF Lowest, Null
    <3> QED
      BY <1>3, <3>1, <3>2, FormIs DEF TypeOK
  <2> QED
    BY <2>1, <2>2, <2>3 DEF RowOK
<1>5. ASSUME NEW u \in Table
      PROVE  db'[u] = IF u = t THEN db[u] \cup {new} ELSE db[u]
  BY <1>1 DEF TypeOK
<1>6. ASSUME NEW u \in Table, NEW r \in db'[u]
      PROVE  RowOK(u, r, last')
  <2>1. CASE r \in db[u]
    <3>1. RowOK(u, r, last)
      BY <2>1 DEF TypeOK
    <3>2. last \in [Table -> Nat]
      BY DEF TypeOK
    <3> QED
      BY <1>3, <3>1, <3>2, RowStays
  <2>2. CASE r \notin db[u]
    BY <1>4, <1>5, <2>2
  <2> QED
    BY <2>1, <2>2
<1>7. ASSUME NEW u \in Table, NEW r \in db'[u], NEW q \in db'[u], r.id = q.id
      PROVE  r = q
  <2>1. \A x \in db[t] : x.id \in Nat /\ x.id <= last[t]
    BY BoundAssumption DEF TypeOK, RowOK, Row
  <2>2. \A x \in db[t] : x.id # new.id
    BY <1>2, <2>1
  <2>3. \A v \in Table : \A x, y \in db[v] : x.id = y.id => x = y
    BY DEF TypeOK
  <2> HIDE DEF new
  <2>4. CASE u = t
    <3>1. r \in db[t] \cup {new} /\ q \in db[t] \cup {new}
      BY <1>5, <2>4
    <3> QED
      BY <1>7, <2>2, <2>3, <3>1
  <2>5. CASE u # t
    BY <1>5, <1>7, <2>3, <2>5
  <2> QED
    BY <2>4, <2>5
<1>8. DOMAIN db' = Table
  BY <1>1 DEF TypeOK
<1>9. deleting' \subseteq 1 .. last'["sql_release"]
  BY <1>2, <1>3 DEF TypeOK, Table
<1> QED
  BY <1>3, <1>6, <1>7, <1>8, <1>9 DEF TypeOK

LEMMA UpdateType ==
  ASSUME TypeOK, NEW t \in Table, NEW check, Update(t, check)
  PROVE  TypeOK'
<1>1. PICK r \in db[t], f \in Form(t) :
         db' = [db EXCEPT ![t] = (@ \ {r}) \cup {[r EXCEPT !.to = f]}]
  BY DEF Update
<1> DEFINE new == [r EXCEPT !.to = f]
<1>2. last' = last /\ deleting' = deleting
  BY DEF Update
<1>3. RowOK(t, r, last) /\ r \in Row(t)
  BY DEF TypeOK, RowOK
<1>4. new.id = r.id /\ new.to = f /\ new \in Row(t)
  BY <1>3, FormIs DEF Row
<1>5. RowOK(t, new, last)
  BY <1>3, <1>4, FormIs DEF RowOK
<1>6. \A u \in Table : db'[u] = IF u = t THEN (db[u] \ {r}) \cup {new} ELSE db[u]
  BY <1>1 DEF TypeOK
<1>7. ASSUME NEW u \in Table, NEW x \in db'[u]
      PROVE  RowOK(u, x, last)
  BY <1>5, <1>6 DEF TypeOK
<1>8. ASSUME NEW u \in Table, NEW x \in db'[u], NEW y \in db'[u], x.id = y.id
      PROVE  x = y
  <2>1. \A v \in Table : \A a, b \in db[v] : a.id = b.id => a = b
    BY DEF TypeOK
  <2> HIDE DEF new
  <2>2. CASE u = t
    <3>1. x \in (db[t] \ {r}) \cup {new} /\ y \in (db[t] \ {r}) \cup {new}
      BY <1>6, <2>2
    <3> QED
      BY <1>4, <1>8, <2>1, <3>1
  <2>3. CASE u # t
    BY <1>6, <1>8, <2>1, <2>3
  <2> QED
    BY <2>2, <2>3
<1>9. DOMAIN db' = Table
  BY <1>1 DEF TypeOK
<1> QED
  BY <1>2, <1>7, <1>8, <1>9 DEF TypeOK, RowOK

LEMMA WithoutType ==
  ASSUME TypeOK, NEW t \in Table, NEW rows, db' = Without(t, rows), last' = last,
         deleting' \subseteq 1 .. last["sql_release"]
  PROVE  TypeOK'
<1>1. /\ DOMAIN db' = Table
      /\ \A u \in Table : db'[u] \subseteq db[u]
  BY DEF Without, TypeOK
<1> QED
  BY <1>1, Fewer

\* The rows an archive adds.
LEMMA ArchiveType ==
  ASSUME TypeOK, NEW bump \in BOOLEAN, NEW check, Archive(bump, check)
  PROVE  TypeOK'
<1> DEFINE logs == "archive_log"
           versions == "project_version"
<1>1. PICK f \in Form(logs) :
         db' = [db EXCEPT ![logs] = @ \cup {[id |-> last[logs] + 1, to |-> f]},
                          ![versions] = IF bump
                             THEN @ \cup {[id |-> last[versions] + 1,
                                           to |-> [p \in {"project"} |-> f[p]]]}
                             ELSE @]
  BY DEF Archive
<1> DEFINE row == [id |-> last[logs] + 1, to |-> f]
           new == [id |-> last[versions] + 1, to |-> [p \in {"project"} |-> f[p]]]
<1>2. /\ logs \in Table /\ versions \in Table /\ "sql_release" \in Table
      /\ References[versions] = {"project"}
      /\ References[logs] = {"sql_release", "project"}
  BY DEF Table, References
<1>3. /\ last \in [Table -> Nat] /\ DOMAIN db = Table /\ Bound \in [Table -> Nat]
      /\ last' = [last EXCEPT ![logs] = @ + 1,
                              ![versions] = IF bump THEN @ + 1 ELSE @]
      /\ last[logs] < Bound[logs]
      /\ bump => last[versions] < Bound[versions]
      /\ deleting' = deleting
  BY BoundAssumption DEF Archive, TypeOK
<1>4. last' \in [Table -> Nat] /\ \A u \in Table : last[u] <= last'[u]
  BY <1>2, <1>3
<1>5. /\ f \in [References[logs] -> Nat]
      /\ \A p \in References[logs] : f[p] \in Lowest(logs, p) .. last[p]
  BY <1>2, FormIs
<1>6. RowOK(logs, row, last')
  <2>1. row \in Row(logs)
    BY <1>2, <1>3, <1>5 DEF Row
  <2>2. row.id <= last'[logs]
    BY <1>2, <1>3
  <2>3. ASSUME NEW p \in References[logs]
        PROVE  f[p] \in Lowest(logs, p) .. last'[p]
    <3>1. p \in Table
      BY DEF References, Table
    <3>2. Lowest(logs, p) \in Nat
      BY DEF Lowest, Null
    <3> QED
      BY <1>3, <1>4, <1>5, <3>1, <3>2
  <2> QED
    BY <2>1, <2>2, <2>3 DEF RowOK
<1>7. bump => RowOK(versions, new, last')
  <2> SUFFICES ASSUME bump PROVE RowOK(versions, new, last')
    OBVIOUS
  <2>1. new \in Row(versions)
    BY <1>2, <1>3, <1>5 DEF Row
  <2>2. new.id <= last'[versions]
    BY <1>2, <1>3
  <2>3. new.to["project"] \in Lowest(versions, "project") .. last'["project"]
    <3>1. "project" \in Table
      BY DEF Table
    <3>2. Lowest(logs, "project") = 1 /\ Lowest(versions, "project") = 1
      BY DEF Lowest, Nullable
    <3> QED
      BY <1>2, <1>3, <1>4, <1>5, <3>1, <3>2
  <2> QED
    BY <1>2, <2>1, <2>2, <2>3 DEF RowOK
<1> DEFINE Added(u) == IF u = logs THEN {row}
                       ELSE IF u = versions /\ bump THEN {new} ELSE {}
<1>8. \A u \in Table : db'[u] = db[u] \cup Added(u)
  BY <1>1, <1>3
<1>9. \A u \in Table : \A x \in Added(u) : RowOK(u, x, last') /\ x.id = last[u] + 1
  BY <1>6, <1>7
<1>10. \A u \in Table : \A x, y \in Added(u) : x = y
  OBVIOUS
<1>11. \A u \in Table : \A x \in db[u] :
          RowOK(u, x, last) /\ x.id \in Nat /\ x.id <= last[u]
  BY <1>3 DEF TypeOK, RowOK, Row
<1> HIDE DEF Added
<1>12. ASSUME NEW u \in Table, NEW x \in db'[u]
       PROVE  RowOK(u, x, last')
  <2>1. CASE x \in db[u]
    BY <1>3, <1>4, <1>11, <2>1, RowStays
  <2>2. CASE x \in Added(u)
    BY <1>9, <2>2
  <2> QED
    BY <1>8, <2>1, <2>2
<1>13. ASSUME NEW u \in Table, NEW x \in db'[u], NEW y \in db'[u], x.id = y.id
       PROVE  x = y
  <2>1. \A v \in Table : \A a, b \in db[v] : a.id = b.id => a = b
    BY DEF TypeOK
  <2>2. \A a \in db[u], b \in Added(u) : a.id # b.id
    BY <1>3, <1>9, <1>11
  <2> QED
    BY <1>8, <1>10, <1>13, <2>1, <2>2
<1>14. DOMAIN db' = Table
  BY <1>1, <1>3
<1>15. deleting' \subseteq 1 .. last'["sql_release"]
  BY <1>2, <1>3, <1>4 DEF TypeOK
<1> QED
  BY <1>4, <1>12, <1>13, <1>14, <1>15 DEF TypeOK

LEMMA CleanType ==
  ASSUME TypeOK, NEW k \in CleanUps, NEW check, Clean(k, check)
  PROVE  TypeOK'
<1>1. /\ db' = Cleaned(k, db, Len(k)) /\ last' = last /\ deleting' = deleting
      /\ DOMAIN db = Table
  BY DEF Clean, TypeOK
<1>2. DOMAIN db' = Table
  BY <1>1 DEF Cleaned
<1>3. \A t \in Table : db'[t] \subseteq Start(k, db)[t]
  BY <1>1, CleanedIs
<1>4. CASE k # cleanVersions
  <2>1. Start(k, db) = db
    BY <1>4, Zenon DEF Start
  <2> QED
    BY <1>1, <1>2, <1>3, <2>1, Fewer DEF TypeOK
<1>5. CASE k = cleanVersions
  <2> DEFINE St == Start(k, db)
  <2>1. "sql_release" \in Table
    BY DEF Table
  <2>2. St["sql_release"] =
          {[r EXCEPT !.to["project_version"] = Null] : r \in db["sql_release"]}
    BY <1>1, <1>5, <2>1, Zenon DEF Start
  <2>3. \A t \in Table : t # "sql_release" => St[t] = db[t]
    BY <1>1 DEF Start
  <2> HIDE DEF St
  <2>4. ASSUME NEW t \in Table, NEW x \in St[t]
        PROVE  \E r \in db[t] : x.id = r.id /\ RowOK(t, x, last)
               /\ (t = "sql_release" => x = [r EXCEPT !.to["project_version"] = Null])
               /\ (t # "sql_release" => x = r)
    <3>1. CASE t = "sql_release"
      <4>1. PICK r \in db[t] : x = [r EXCEPT !.to["project_version"] = Null]
        BY <2>2, <3>1
      <4>2. RowOK(t, r, last) /\ r \in Row("sql_release")
        BY <3>1 DEF TypeOK, RowOK
      <4>3. x.id = r.id /\ x \in Row("sql_release")
        BY <4>1, <4>2, WithoutVersion
      <4>4. References[t] = {"project", "project_version"}
        BY <3>1 DEF References, Table
      <4>5. x.to["project_version"] \in Lowest(t, "project_version")
                                          .. last["project_version"]
        <5>1. last["project_version"] \in Nat
          BY DEF TypeOK, Table
        <5> QED
          BY <3>1, <4>1, <4>2, <5>1, WithoutVersion DEF Lowest, Nullable, Null
      <4>6. x.to["project"] \in Lowest(t, "project") .. last["project"]
        BY <4>1, <4>2, <4>4, WithoutVersion DEF RowOK
      <4> QED
        BY <3>1, <4>1, <4>2, <4>3, <4>4, <4>5, <4>6 DEF RowOK
    <3>2. CASE t # "sql_release"
      BY <2>3, <3>2 DEF TypeOK
    <3> QED
      BY <3>1, <3>2
  <2>5. ASSUME NEW t \in Table, NEW x \in St[t], NEW y \in St[t], x.id = y.id
        PROVE  x = y
    <3>1. PICK r \in db[t] : x.id = r.id
               /\ (t = "sql_release" => x = [r EXCEPT !.to["project_version"] = Null])
               /\ (t # "sql_release" => x = r)
      BY <2>4
    <3>2. PICK s \in db[t] : y.id = s.id
               /\ (t = "sql_release" => y = [s EXCEPT !.to["project_version"] = Null])
               /\ (t # "sql_release" => y = s)
      BY <2>4
    <3>3. r = s
      BY <2>5, <3>1, <3>2 DEF TypeOK
    <3> QED
      BY <3>1, <3>2, <3>3
  <2>6. \A t \in Table : db'[t] \subseteq St[t]
    BY <1>3 DEF St
  <2> QED
    BY <1>1, <1>2, <2>4, <2>5, <2>6 DEF TypeOK
<1> QED
  BY <1>4, <1>5

LEMMA ChangeType ==
  ASSUME TypeOK, NEW check, Change(check)
  PROVE  TypeOK'
<1>1. ASSUME NEW t \in Table, Delete(t, check)
      PROVE  TypeOK'
  BY <1>1, WithoutType DEF Delete, TypeOK
<1>2. ASSUME NEW release \in deleting, FinishDeleteRelease(release, check)
      PROVE  TypeOK'
  <2>1. "sql_release" \in Table
    BY DEF Table
  <2> QED
    BY <1>2, <2>1, WithoutType DEF FinishDeleteRelease, TypeOK
<1>3. ASSUME NEW bump \in BOOLEAN, Archive(bump, check)
      PROVE  TypeOK'
  BY <1>3, ArchiveType
<1>4. ASSUME NEW k \in CleanUps, Clean(k, check)
      PROVE  TypeOK'
  BY <1>4, CleanType
<1>5. \/ \E t \in Table : Insert(t, check)
      \/ \E t \in Table : Update(t, check)
      \/ \E t \in Table : Delete(t, check)
      \/ \E bump \in BOOLEAN : Archive(bump, check)
      \/ \E k \in CleanUps : Clean(k, check)
      \/ \E release \in deleting : FinishDeleteRelease(release, check)
  BY Statements
<1> QED
  BY <1>1, <1>2, <1>3, <1>4, <1>5, InsertType, UpdateType

\* The statements that only take links away, and the end of a deletion.
LinkStep ==
  \E release \in 1 .. last["sql_release"] :
     \/ \E script \in 1 .. last["sql_script"] : RemoveScript(release, script)
     \/ ClearAllScripts(release)
     \/ BeginDeleteRelease(release)
     \/ AbandonDeleteRelease(release)

LEMMA LinkStepIs ==
  ASSUME LinkStep
  PROVE  /\ last' = last
         /\ \/ db' = db
            \/ \E rows : db' = Without("release_script", rows)
         /\ \A release \in deleting' :
              release \in deleting \/ release \in 1 .. last["sql_release"]
<1> PICK release \in 1 .. last["sql_release"] :
         \/ \E script \in 1 .. last["sql_script"] : RemoveScript(release, script)
         \/ ClearAllScripts(release)
         \/ BeginDeleteRelease(release)
         \/ AbandonDeleteRelease(release)
  BY DEF LinkStep
<1>1. CASE \E script \in 1 .. last["sql_script"] : RemoveScript(release, script)
  BY <1>1 DEF RemoveScript
<1>2. CASE ClearAllScripts(release)
  BY <1>2 DEF ClearAllScripts
<1>3. CASE BeginDeleteRelease(release)
  BY <1>3 DEF BeginDeleteRelease
<1>4. CASE AbandonDeleteRelease(release)
  BY <1>4 DEF AbandonDeleteRelease
<1> QED
  BY <1>1, <1>2, <1>3, <1>4

LEMMA LinkStepType ==
  ASSUME TypeOK, LinkStep
  PROVE  TypeOK'
<1>1. deleting' \subseteq 1 .. last["sql_release"]
  BY LinkStepIs DEF TypeOK
<1>2. CASE db' = db
  BY <1>1, <1>2, LinkStepIs, Fewer DEF TypeOK
<1>3. CASE \E rows : db' = Without("release_script", rows)
  <2>1. "release_script" \in Table
    BY DEF Table
  <2> QED
    BY <1>1, <1>3, <2>1, LinkStepIs, WithoutType
<1> QED
  BY <1>2, <1>3, LinkStepIs

\* The rows are what the schema says, ids are given once, and a row refers to
\* rows created before it.
THEOREM TypeCorrect == Spec => []TypeOK
<1>1. Init => TypeOK
  <2> SUFFICES ASSUME Init PROVE TypeOK
    OBVIOUS
  <2>1. "sql_release" \in Table
    BY DEF Table
  <2> QED
    BY <2>1 DEF Init, TypeOK
<1>2. TypeOK /\ [Next]_vars => TypeOK'
  <2> SUFFICES ASSUME TypeOK, [Next]_vars PROVE TypeOK'
    OBVIOUS
  <2>1. CASE \E check \in Enforced : Change(check)
    BY <2>1, ChangeType
  <2>2. CASE LinkStep
    BY <2>2, LinkStepType
  <2>3. CASE UNCHANGED vars
    BY <2>3 DEF vars, TypeOK
  <2> QED
    BY <2>1, <2>2, <2>3, Zenon DEF Next, LinkStep
<1> QED
  BY <1>1, <1>2, PTL DEF Spec

-----------------------------------------------------------------------------
(* What the clean-ups promise.                                             *)

LEMMA WholeIs ==
  ASSUME TypeOK, NoDangling
  PROVE  Whole(db)
<1>1. ASSUME NEW t \in Table, NEW r \in db[t]
      PROVE  /\ r \in Row(t)
             /\ \A p \in References[t] : ~Nullable(t, p) => r.to[p] # Null
  <2>1. RowOK(t, r, last)
    BY DEF TypeOK
  <2>2. \A p \in References[t] : last[p] \in Nat
    BY DEF TypeOK, References, Table
  <2> QED
    BY <2>1, <2>2 DEF RowOK, Lowest, Null
<1> QED
  BY <1>1 DEF Whole, NoDangling, TypeOK

\* On any pool: while no reference dangles, every clean-up is accepted and
\* leaves none that does.
THEOREM CleanUpsStaySound == Spec => []CleanUpsAreSound
<1>1. TypeOK => CleanUpsAreSound
  BY WholeIs, CleanUpsOfWhole DEF CleanUpsAreSound, NoDangling
<1> QED
  BY <1>1, TypeCorrect, PTL

\* However the database came to be as it is, clearing all projects works.
THEOREM ProjectsCanAlwaysBeCleared == Spec => []ProjectsCanBeCleared
<1>1. ProjectsCanBeCleared
  BY ClearingProjects, Zenon DEF ProjectsCanBeCleared
<1> QED
  BY <1>1, PTL
=============================================================================
