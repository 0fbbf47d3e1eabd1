--------------------------- MODULE PendingProofs ---------------------------
(* Theorems about Pending, for every value of its constants.               *)
EXTENDS Pending, TLAPS

-----------------------------------------------------------------------------
(* The inductive invariant.                                                *)

Serves(q, i)  == ~At(q, "idle") /\ req[q].id = i
Commits(g, i) == sync[g] # NoFile /\ sync[g].of = i

\* Nothing is known of a script that was not created yet, or at work on it.
Fresh ==
  \A i \in Id :
    i >= nextId => /\ ~Exists(i) /\ ~edited[i] /\ born[i] = NoFile
                   /\ \A q \in Request : ~Serves(q, i)
                   /\ \A g \in Sync : ~Commits(g, i)

\* A sync writes the file of its script's own id, or the one it was created in.
Paths ==
  \A g \in Sync : sync[g] # NoFile =>
    \/ sync[g].path.id = sync[g].of
    \/ sync[g].path.id = 0 /\ sync[g].path = born[sync[g].of]

\* At most one request or sync is at work on script i.
Alone(i) ==
  /\ \A q, r \in Request : Serves(q, i) /\ Serves(r, i) => q = r
  /\ \A g, h \in Sync : Commits(g, i) /\ Commits(h, i) => g = h
  /\ \A q \in Request, g \in Sync : ~(Serves(q, i) /\ Commits(g, i))

\* Two rows that differ in their status only.
SameFile(row, other) ==
  row.project = other.project /\ row.title = other.title /\ row.text = other.text

\* No script but i was created in the file of i.
Distinct(i) == edited[i] \/ \A j \in Id \ {i} : born[j] # born[i]

\* What holds of a script that is there while its users keep apart: a request has
\* read its row; a sync carries its file; and between syncs that file is up to date.
Tracked(i) ==
  /\ ~edited[i] => PathOf(0, script[i]) = born[i]
  /\ \A q \in Request : Serves(q, i) => SameFile(req[q].row, script[i])
  /\ \A g \in Sync :
       Commits(g, i) => sync[g].path = FileOf(i) /\ sync[g].text = script[i].text
  /\ (\A g \in Sync : ~Commits(g, i)) /\ Distinct(i) =>
       work[FileOf(i)] = script[i].text /\ pending[FileOf(i)] = script[i].text

Kept(i) == apart[i] => Alone(i) /\ (Exists(i) => Tracked(i))

IInv == TypeOK /\ Fresh /\ Paths /\ \A i \in Id : Kept(i)

-----------------------------------------------------------------------------
(* Type correctness.                                                       *)

LEMMA PathType ==
  ASSUME NEW i \in Id \cup {0}, NEW row \in Row
  PROVE  PathOf(i, row) \in Path
  BY DEF PathOf, Path, Row, Name

\* A request that is not idle has read a row.
LEMMA Shapes ==
  ASSUME TypeOK, NEW q \in Request
  PROVE  /\ ~At(q, "idle") => req[q] \in Work
         /\ At(q, "idle") \/ At(q, "edit") \/ At(q, "push")
  <1>1. req[q] \in {Idle} \cup Work
    BY DEF TypeOK
  <1>2. QED
    BY <1>1 DEF At, Idle, Work

\* The row that an edit saves.
NewRow(q, p, t, c) == [req[q].row EXCEPT !.project = p, !.title = t, !.text = c]

LEMMA NewRowType ==
  ASSUME TypeOK, NEW q \in Request, ~At(q, "idle"),
         NEW p \in Project, NEW t \in Title, NEW c \in Text
  PROVE  /\ req[q].id \in Id
         /\ NewRow(q, p, t, c) \in Row
         /\ [req[q].row EXCEPT !.status = "locked"] \in Row
  <1>1. req[q] \in Work
    BY Shapes
  <1>2. req[q].id \in Id /\ req[q].row \in Row
    BY <1>1 DEF Work
  <1>3. QED
    BY <1>2 DEF NewRow, Row

LEMMA LockedType ==
  ASSUME TypeOK, NEW q \in Request, ~At(q, "idle")
  PROVE  req[q].id \in Id /\ [req[q].row EXCEPT !.status = "locked"] \in Row
  <1>1. req[q] \in Work
    BY Shapes
  <1>2. req[q].id \in Id /\ req[q].row \in Row
    BY <1>1 DEF Work
  <1>3. QED
    BY <1>2 DEF Row

\* Starting a goroutine gives it a file, which is not the absence of one.
LEMMA GoType ==
  ASSUME TypeOK, NEW g \in Sync, NEW i \in Id, NEW id \in Id \cup {0}, NEW row \in Row,
         Go(g, i, id, row)
  PROVE  /\ sync' \in [Sync -> {NoFile} \cup File]
         /\ sync'[g] # NoFile
         /\ sync'[g] = [path |-> PathOf(id, row), text |-> row.text, of |-> i]
         /\ \A h \in Sync \ {g} : sync'[h] = sync[h]
  <1>1. [path |-> PathOf(id, row), text |-> row.text, of |-> i] \in File
    BY PathType DEF File, Row
  <1>2. QED
    BY <1>1, NoneAssumption DEF Go, TypeOK

LEMMA UpdateType ==
  ASSUME TypeOK, NEW i \in Id, NEW row \in Row, UpdateScript(i, row)
  PROVE  script' \in [Id -> Row \cup {NoScript}]
  BY DEF TypeOK, UpdateScript

LEMMA AnswerType ==
  ASSUME TypeOK, NEW q \in Request, Answer(q)
  PROVE  /\ req' \in [Request -> {Idle} \cup Work]
         /\ req'[q] = Idle
         /\ \A r \in Request \ {q} : req'[r] = req[r]
  BY DEF TypeOK, Answer

LEMMA WrittenType ==
  ASSUME TypeOK, NEW g \in Sync, sync[g] # NoFile
  PROVE  /\ sync[g] \in File /\ sync[g].path \in Path /\ sync[g].of \in Id
         /\ Written(g) \in [Path -> Text \cup {NoFile}]
         /\ Written(g)[sync[g].path] = sync[g].text
         /\ \A f \in Path : f # sync[g].path => Written(g)[f] = work[f]
  <1>1. sync[g] \in File
    BY DEF TypeOK
  <1>2. sync[g].path \in Path /\ sync[g].of \in Id /\ sync[g].text \in Text
    BY <1>1 DEF File
  <1>3. QED
    BY <1>1, <1>2 DEF TypeOK, Written

LEMMA CreateScriptType ==
  ASSUME TypeOK, NEW g \in Sync, NEW row \in Row, CreateScript(g, row)
  PROVE  TypeOK'
  <1>1. nextId \in Id /\ Go(g, nextId, 0, row)
    BY DEF CreateScript
  <1>2. sync' \in [Sync -> {NoFile} \cup File]
    BY <1>1, GoType
  <1>3. PathOf(0, row) \in Path
    BY PathType
  <1>4. nextId' \in 1 .. MaxScript + 1
    BY <1>1, BoundAssumption DEF CreateScript, Id
  <1>5. QED
    BY <1>1, <1>2, <1>3, <1>4 DEF CreateScript, TypeOK

LEMMA BeginType ==
  ASSUME TypeOK, NEW q \in Request, NEW i \in Id, NEW place \in {"edit", "push"},
         Begin(q, i, place)
  PROVE  TypeOK'
  <1>1. script[i] \in Row
    BY DEF Begin, Exists, TypeOK
  <1>2. [at |-> place, id |-> i, row |-> script[i]] \in Work
    BY <1>1 DEF Work
  <1>3. req' \in [Request -> {Idle} \cup Work]
    BY <1>2 DEF Begin, TypeOK
  <1>4. apart' \in [Id -> BOOLEAN]
    <2>1. (apart[i] /\ ~Busy(i)) \in BOOLEAN
      OBVIOUS
    <2>2. QED
      BY <2>1 DEF Begin, TypeOK
  <1>5. begun' \in 0 .. MaxWork
    BY BoundAssumption DEF Begin, TypeOK
  <1>6. QED
    BY <1>3, <1>4, <1>5 DEF Begin, TypeOK

LEMMA SaveEditType ==
  ASSUME TypeOK, NEW q \in Request, NEW g \in Sync,
         NEW p \in Project, NEW t \in Title, NEW c \in Text, SaveEdit(q, g, p, t, c)
  PROVE  TypeOK'
  <1>1. ~At(q, "idle")
    BY DEF SaveEdit, At
  <1>2. req[q].id \in Id /\ NewRow(q, p, t, c) \in Row
    BY <1>1, NewRowType
  <1>3. /\ UpdateScript(req[q].id, NewRow(q, p, t, c))
        /\ Go(g, req[q].id, req[q].id, NewRow(q, p, t, c))
        /\ Answer(q)
    BY DEF SaveEdit, NewRow
  <1>4. sync' \in [Sync -> {NoFile} \cup File]
    BY <1>2, <1>3, GoType
  <1>5. script' \in [Id -> Row \cup {NoScript}]
    BY <1>2, <1>3, UpdateType
  <1>6. req' \in [Request -> {Idle} \cup Work]
    BY <1>3, AnswerType
  <1>7. QED
    BY <1>2, <1>4, <1>5, <1>6 DEF SaveEdit, TypeOK

LEMMA MarkExecutedType ==
  ASSUME TypeOK, NEW q \in Request, MarkExecuted(q)
  PROVE  TypeOK'
  <1>1. ~At(q, "idle")
    BY DEF MarkExecuted, At
  <1>2. script' \in [Id -> Row \cup {NoScript}]
    BY <1>1, LockedType, UpdateType DEF MarkExecuted
  <1>3. req' \in [Request -> {Idle} \cup Work]
    BY AnswerType DEF MarkExecuted
  <1>4. QED
    BY <1>2, <1>3 DEF MarkExecuted, TypeOK

LEMMA MarkArchivedType ==
  ASSUME TypeOK, NEW i \in Id, MarkArchived(i)
  PROVE  TypeOK'
  <1>1. script[i] \in Row
    BY DEF MarkArchived, Exists, TypeOK
  <1>2. [script[i] EXCEPT !.status = "locked"] \in Row
    BY <1>1 DEF Row
  <1>3. script' \in [Id -> Row \cup {NoScript}]
    BY <1>2 DEF MarkArchived, TypeOK
  <1>4. QED
    BY <1>3 DEF MarkArchived, TypeOK

LEMMA CommitPendingType ==
  ASSUME TypeOK, NEW g \in Sync, CommitPending(g)
  PROVE  TypeOK'
  <1>1. Written(g) \in [Path -> Text \cup {NoFile}]
    BY WrittenType DEF CommitPending
  <1>2. sync' \in [Sync -> {NoFile} \cup File]
    BY DEF CommitPending, TypeOK
  <1>3. QED
    BY <1>1, <1>2 DEF CommitPending, TypeOK

LEMMA FailPendingType ==
  ASSUME TypeOK, NEW g \in Sync, FailPending(g)
  PROVE  TypeOK'
  <1>1. Written(g) \in [Path -> Text \cup {NoFile}] /\ sync[g].of \in Id
    BY WrittenType DEF FailPending
  <1>2. sync' \in [Sync -> {NoFile} \cup File]
    BY DEF FailPending, TypeOK
  <1>3. QED
    BY <1>1, <1>2 DEF FailPending, TypeOK

LEMMA TypeStep ==
  ASSUME TypeOK, [Next]_vars
  PROVE  TypeOK'
  <1>1. CASE \E g \in Sync, row \in Row : CreateScript(g, row)
    BY <1>1, CreateScriptType
  <1>2. CASE \E q \in Request, i \in Id : BeginEdit(q, i) \/ BeginPush(q, i)
    BY <1>2, BeginType DEF BeginEdit, BeginPush
  <1>3. CASE \E q \in Request, g \in Sync, p \in Project, t \in Title, c \in Text :
               SaveEdit(q, g, p, t, c)
    BY <1>3, SaveEditType
  <1>4. CASE \E q \in Request : MarkExecuted(q)
    BY <1>4, MarkExecutedType
  <1>5. CASE \E q \in Request : Leave(q)
    BY <1>5, AnswerType DEF Leave, TypeOK
  <1>6. CASE \E i \in Id : MarkArchived(i)
    BY <1>6, MarkArchivedType
  <1>7. CASE \E i \in Id : DeleteScript(i)
    BY <1>7 DEF DeleteScript, TypeOK
  <1>8. CASE \E g \in Sync : CommitPending(g)
    BY <1>8, CommitPendingType
  <1>9. CASE \E g \in Sync : FailPending(g)
    BY <1>9, FailPendingType
  <1>10. CASE Crash
    BY <1>10 DEF Crash, TypeOK
  <1>11. CASE UNCHANGED vars
    BY <1>11 DEF vars, TypeOK
  <1>12. QED
    BY <1>1, <1>2, <1>3, <1>4, <1>5, <1>6, <1>7, <1>8, <1>9, <1>10, <1>11 DEF Next

\* Rows, paths and the local variables of requests are of their types (TypeOK).
THEOREM TypeCorrect == Spec => []TypeOK
  <1>1. Init => TypeOK
    BY BoundAssumption DEF Init, TypeOK
  <1>2. TypeOK /\ [Next]_vars => TypeOK'
    BY TypeStep
  <1>3. QED
    BY <1>1, <1>2, PTL DEF Spec

-----------------------------------------------------------------------------
(* Scripts that an action does not concern.                                *)

\* The path of a row depends on its project and its title only.
LEMMA SamePath ==
  ASSUME NEW id, NEW row, NEW other, SameFile(row, other)
  PROVE  PathOf(id, row) = PathOf(id, other)
  BY DEF SameFile, PathOf

\* A script stays tracked if its row keeps its file, no request and no sync of it is
\* new, none of its syncs ends, and its file in both directories stays as it is.
LEMMA Frame ==
  ASSUME NEW i \in Id, Kept(i),
         apart'[i] => apart[i],
         apart[i] /\ Exists(i)' => Exists(i) /\ SameFile(script'[i], script[i]),
         edited'[i] = edited[i], born'[i] = born[i],
         \A q \in Request : Serves(q, i)' => Serves(q, i) /\ req'[q] = req[q],
         \A g \in Sync : Commits(g, i)' => Commits(g, i) /\ sync'[g] = sync[g],
         apart'[i] => \A g \in Sync : Commits(g, i) => Commits(g, i)',
         apart[i] /\ Exists(i) /\ Distinct(i)' => Distinct(i),
         apart[i] /\ Exists(i) /\ (\A g \in Sync : ~Commits(g, i)) /\ Distinct(i) =>
           work'[FileOf(i)] = work[FileOf(i)] /\
           (pending'[FileOf(i)] = pending[FileOf(i)] \/
            pending'[FileOf(i)] = work[FileOf(i)])
  PROVE  Kept(i)'
  <1>. SUFFICES ASSUME apart'[i]
                PROVE  Alone(i)' /\ (Exists(i)' => Tracked(i)')
    BY DEF Kept
  <1>1. Alone(i)'
    BY DEF Kept, Alone
  <1>2. ASSUME Exists(i)'
        PROVE  Tracked(i)'
    <2>1. Exists(i) /\ Tracked(i) /\ SameFile(script'[i], script[i])
      BY <1>2 DEF Kept
    <2>2. PathOf(0, script'[i]) = PathOf(0, script[i]) /\ FileOf(i)' = FileOf(i)
      BY <2>1, SamePath DEF FileOf
    <2>3. (~edited[i] => PathOf(0, script[i]) = born[i])'
      BY <2>1, <2>2 DEF Tracked
    <2>4. (\A q \in Request : Serves(q, i) => SameFile(req[q].row, script[i]))'
      BY <2>1 DEF Tracked, SameFile
    <2>5. (\A g \in Sync :
             Commits(g, i) => sync[g].path = FileOf(i) /\ sync[g].text = script[i].text)'
      BY <2>1, <2>2 DEF Tracked, SameFile
    <2>6. ((\A g \in Sync : ~Commits(g, i)) /\ Distinct(i) =>
             work[FileOf(i)] = script[i].text /\ pending[FileOf(i)] = script[i].text)'
      BY <2>1, <2>2 DEF Tracked, SameFile
    <2>7. QED
      BY <2>3, <2>4, <2>5, <2>6 DEF Tracked
  <1>3. QED
    BY <1>1, <1>2

\* The file that a sync of another script writes is not the file of script i.
LEMMA OthersWriteElsewhere ==
  ASSUME IInv, NEW i \in Id, apart[i], Exists(i), Distinct(i),
         NEW g \in Sync, sync[g] # NoFile, sync[g].of # i
  PROVE  FileOf(i) \in Path /\ FileOf(i) # sync[g].path
  <1>1. sync[g].of \in Id /\ Tracked(i) /\ script[i] \in Row
    BY WrittenType DEF IInv, Kept, Exists, TypeOK
  <1>2. FileOf(i).id = (IF edited[i] THEN i ELSE 0)
    BY DEF FileOf, PathOf
  <1>3. FileOf(i) \in Path
    BY <1>1, PathType DEF FileOf
  <1>4. i # 0 /\ sync[g].of # 0
    BY <1>1, BoundAssumption DEF Id
  <1>5. CASE edited[i]
    BY <1>2, <1>3, <1>4, <1>5 DEF IInv, Paths
  <1>6. CASE ~edited[i]
    <2>1. FileOf(i) = born[i] /\ born[sync[g].of] # born[i]
      BY <1>1, <1>6 DEF Tracked, FileOf, Distinct
    <2>2. QED
      BY <1>2, <1>3, <1>4, <1>6, <2>1 DEF IInv, Paths
  <1>7. QED
    BY <1>3, <1>5, <1>6

-----------------------------------------------------------------------------
(* One lemma for each action.                                              *)

IStep == Fresh' /\ Paths' /\ \A i \in Id : Kept(i)'

LEMMA CreateScriptStep ==
  ASSUME IInv, NEW g \in Sync, NEW row \in Row, CreateScript(g, row)
  PROVE  IStep
  <1>. PICK n \in Id : n = nextId
    BY DEF CreateScript
  <1>1. TypeOK /\ Fresh /\ Paths
    BY DEF IInv
  <1>2. /\ sync'[g] = [path |-> PathOf(0, row), text |-> row.text, of |-> n]
        /\ sync'[g] # NoFile /\ sync[g] = NoFile
        /\ \A h \in Sync \ {g} : sync'[h] = sync[h]
    BY <1>1, GoType DEF CreateScript, Go
  <1>3. /\ script'[n] = row /\ born'[n] = PathOf(0, row)
        /\ \A i \in Id \ {n} : script'[i] = script[i] /\ born'[i] = born[i]
    BY <1>1 DEF CreateScript, TypeOK
  <1>4. /\ ~edited[n] /\ born[n] = NoFile
        /\ \A q \in Request : ~Serves(q, n)
        /\ \A h \in Sync : ~Commits(h, n)
    BY <1>1, BoundAssumption DEF Fresh, Id
  <1>5. \A i \in Id, q \in Request : Serves(q, i)' <=> Serves(q, i)
    BY DEF CreateScript, Serves, At
  <1>6. \A i \in Id, h \in Sync :
          Commits(h, i)' <=> IF h = g THEN i = n ELSE Commits(h, i)
    BY <1>2 DEF Commits
  <1>7. Fresh'
    <2>1. \A i \in Id : i >= nextId' => i >= nextId /\ i # n
      BY <1>1, BoundAssumption DEF CreateScript, Id
    <2>2. \A i \in Id : i >= nextId' => \A h \in Sync : ~Commits(h, i)'
      BY <1>1, <1>2, <1>6, <2>1 DEF Fresh, Commits
    <2>3. QED
      BY <1>1, <1>3, <1>5, <2>1, <2>2 DEF CreateScript, Fresh, Exists
  <1>8. Paths'
    <2>1. \A h \in Sync : sync[h] # NoFile => sync[h].of \in Id /\ sync[h].of # n
      BY <1>1, <1>4, WrittenType DEF Commits
    <2>2. PathOf(0, row).id = 0
      BY DEF PathOf
    <2>3. QED
      BY <1>1, <1>2, <1>3, <2>1, <2>2 DEF Paths
  <1>9. Kept(n)'
    <2>1. Alone(n)'
      BY <1>4, <1>5, <1>6, <1>1 DEF Alone
    <2>2. FileOf(n)' = PathOf(0, row)
      BY <1>3, <1>4 DEF FileOf, CreateScript, PathOf
    <2>3. \A q \in Request : ~Serves(q, n)'
      BY <1>1, <1>4, <1>5
    <2>4. \A h \in Sync : Commits(h, n)' <=> h = g
      BY <1>1, <1>4, <1>6
    <2>5. QED
      BY <1>2, <1>3, <2>1, <2>2, <2>3, <2>4 DEF Kept, Tracked, Exists, PathOf
  <1>10. ASSUME NEW i \in Id, i # n
         PROVE  Kept(i)'
    <2>1. ASSUME apart[i], Exists(i), Distinct(i)'
          PROVE  Distinct(i)
      <3>1. CASE edited[i]
        BY <3>1 DEF Distinct
      <3>2. CASE ~edited[i]
        <4>1. born[i] = PathOf(0, script[i]) /\ script[i] \in Row
          BY <1>1, <2>1, <3>2 DEF IInv, Kept, Tracked, Exists, TypeOK
        <4>2. born[i] # NoFile
          BY <4>1, PathType, NoneAssumption
        <4>3. \A j \in Id \ {i} : born'[j] # born'[i]
          BY <2>1, <3>2 DEF Distinct, CreateScript
        <4>4. QED
          BY <1>3, <1>4, <1>10, <4>2, <4>3 DEF Distinct
      <3>3. QED
        BY <3>1, <3>2
    <2>2. Kept(i)
      BY DEF IInv
    <2>3. Exists(i)' => Exists(i) /\ SameFile(script'[i], script[i])
      BY <1>3, <1>10 DEF Exists, SameFile
    <2>4. \A q \in Request : Serves(q, i)' => Serves(q, i) /\ req'[q] = req[q]
      BY <1>5 DEF CreateScript
    <2>5. \A h \in Sync : Commits(h, i)' => Commits(h, i) /\ sync'[h] = sync[h]
      BY <1>2, <1>6, <1>10
    <2>6. \A h \in Sync : Commits(h, i) => Commits(h, i)'
      BY <1>2, <1>6 DEF Commits
    <2>7. apart'[i] = apart[i] /\ edited'[i] = edited[i] /\ born'[i] = born[i]
          /\ work' = work /\ pending' = pending
      BY <1>3, <1>10 DEF CreateScript
    <2>8. QED
      BY <2>1, <2>2, <2>3, <2>4, <2>5, <2>6, <2>7, Frame
  <1>11. QED
    BY <1>7, <1>8, <1>9, <1>10 DEF IStep

LEMMA BeginStep ==
  ASSUME IInv, NEW q \in Request, NEW i \in Id, NEW place \in {"edit", "push"},
         Begin(q, i, place)
  PROVE  IStep
  <1>1. TypeOK /\ Fresh /\ Paths /\ Exists(i) /\ At(q, "idle")
    BY DEF IInv, Begin
  <1>2. /\ req'[q] = [at |-> place, id |-> i, row |-> script[i]]
        /\ \A r \in Request \ {q} : req'[r] = req[r]
        /\ apart'[i] = (apart[i] /\ ~Busy(i))
        /\ \A j \in Id \ {i} : apart'[j] = apart[j]
    BY <1>1 DEF Begin, TypeOK
  <1>3. \A r \in Request, j \in Id :
          Serves(r, j)' <=> IF r = q THEN j = i ELSE Serves(r, j)
    BY <1>2 DEF Serves, At
  <1>4. \A g \in Sync, j \in Id : Commits(g, j)' <=> Commits(g, j)
    BY DEF Commits, Begin
  <1>5. Fresh'
    BY <1>1, <1>3, <1>4 DEF Fresh, Begin, Exists
  <1>6. Paths'
    BY <1>1 DEF Paths, Begin
  <1>7. Kept(i)'
    <2>1. SUFFICES ASSUME apart'[i]
                   PROVE  Alone(i)' /\ Tracked(i)'
      BY DEF Kept
    <2>2. /\ apart[i]
          /\ \A r \in Request : ~Serves(r, i)
          /\ \A g \in Sync : ~Commits(g, i)
      BY <1>2, <2>1 DEF Busy, Serves, Commits
    <2>3. \A r \in Request : Serves(r, i)' <=> r = q
      BY <1>3, <2>2
    <2>4. \A g \in Sync : ~Commits(g, i)'
      BY <1>4, <2>2
    <2>5. Alone(i)'
      BY <2>3, <2>4 DEF Alone
    <2>6. Tracked(i)
      BY <1>1, <2>2 DEF IInv, Kept
    <2>7. SameFile(req'[q].row, script'[i])
      BY <1>2 DEF SameFile, Begin
    <2>8. /\ script' = script /\ edited' = edited /\ born' = born
          /\ work' = work /\ pending' = pending
      BY DEF Begin
    <2>9. FileOf(i)' = FileOf(i) /\ (Distinct(i)' <=> Distinct(i))
      BY <2>8 DEF FileOf, Distinct, PathOf
    <2>10. QED
      BY <2>2, <2>3, <2>4, <2>5, <2>6, <2>7, <2>8, <2>9 DEF Tracked
  <1>8. ASSUME NEW j \in Id, j # i
        PROVE  Kept(j)'
    <2>1. /\ script' = script /\ edited' = edited /\ born' = born
          /\ work' = work /\ pending' = pending /\ sync' = sync
      BY DEF Begin
    <2>2. Kept(j) /\ apart'[j] = apart[j]
      BY <1>2, <1>8 DEF IInv
    <2>3. \A r \in Request : Serves(r, j)' => Serves(r, j) /\ req'[r] = req[r]
      BY <1>2, <1>3, <1>8
    <2>4. Exists(j)' => Exists(j) /\ SameFile(script'[j], script[j])
      BY <2>1 DEF Exists, SameFile
    <2>5. Distinct(j)' <=> Distinct(j)
      BY <2>1 DEF Distinct
    <2>6. QED
      BY <1>4, <2>1, <2>2, <2>3, <2>4, <2>5, Frame
  <1>9. QED
    BY <1>5, <1>6, <1>7, <1>8 DEF IStep

\* What becomes of the requests at work on a script when one of them is answered.
LEMMA AnswerServes ==
  ASSUME TypeOK, NEW q \in Request, Answer(q)
  PROVE  \A r \in Request, i \in Id :
           Serves(r, i)' => r # q /\ Serves(r, i) /\ req'[r] = req[r]
  <1>1. req'[q] = Idle /\ \A r \in Request \ {q} : req'[r] = req[r]
    BY AnswerType
  <1>2. QED
    BY <1>1 DEF Serves, At, Idle

LEMMA SaveEditStep ==
  ASSUME IInv, NEW q \in Request, NEW g \in Sync,
         NEW p \in Project, NEW t \in Title, NEW c \in Text, SaveEdit(q, g, p, t, c)
  PROVE  IStep
  <1>. PICK i \in Id : i = req[q].id
    BY NewRowType DEF IInv, SaveEdit, At
  <1>. DEFINE row == NewRow(q, p, t, c)
  <1>1. TypeOK /\ Fresh /\ Paths /\ Serves(q, i) /\ row \in Row
    BY NewRowType DEF IInv, SaveEdit, At, Serves
  <1>2. UpdateScript(i, row) /\ Go(g, i, i, row) /\ Answer(q)
    BY DEF SaveEdit, NewRow
  <1>3. /\ sync'[g] = [path |-> PathOf(i, row), text |-> row.text, of |-> i]
        /\ sync'[g] # NoFile /\ sync[g] = NoFile
        /\ \A h \in Sync \ {g} : sync'[h] = sync[h]
    BY <1>1, <1>2, GoType DEF Go
  <1>4. /\ script'[i] = IF Exists(i) THEN row ELSE script[i]
        /\ \A j \in Id \ {i} : script'[j] = script[j]
    BY <1>1, <1>2 DEF UpdateScript, TypeOK
  <1>5. edited'[i] /\ \A j \in Id \ {i} : edited'[j] = edited[j]
    BY <1>1 DEF SaveEdit, TypeOK
  <1>6. \A r \in Request, j \in Id :
          Serves(r, j)' => r # q /\ Serves(r, j) /\ req'[r] = req[r]
    BY <1>1, <1>2, AnswerServes
  <1>7. \A j \in Id, h \in Sync :
          Commits(h, j)' <=> IF h = g THEN j = i ELSE Commits(h, j)
    BY <1>3 DEF Commits
  <1>8. Fresh'
    <2>1. ~(i >= nextId)
      BY <1>1 DEF Fresh
    <2>2. \A j \in Id : j >= nextId => \A h \in Sync : ~Commits(h, j)'
      BY <1>1, <1>7, <2>1 DEF Fresh
    <2>3. QED
      BY <1>1, <1>4, <1>5, <1>6, <2>1, <2>2 DEF SaveEdit, Fresh, Exists
  <1>9. Paths'
    <2>1. PathOf(i, row).id = i
      BY DEF PathOf
    <2>2. born' = born
      BY DEF SaveEdit
    <2>3. QED
      BY <1>1, <1>3, <2>1, <2>2 DEF Paths
  <1>10. Kept(i)'
    <2>1. SUFFICES ASSUME apart'[i]
                   PROVE  Alone(i)' /\ (Exists(i)' => Tracked(i)')
      BY DEF Kept
    <2>2. Alone(i)
      BY <2>1 DEF IInv, Kept, SaveEdit
    <2>3. \A r \in Request : ~Serves(r, i)'
      BY <1>1, <1>6, <2>2 DEF Alone
    <2>4. \A h \in Sync : Commits(h, i)' <=> h = g
      BY <1>1, <1>7, <2>2 DEF Alone
    <2>5. Alone(i)'
      BY <2>3, <2>4 DEF Alone
    <2>6. ASSUME Exists(i)'
          PROVE  Tracked(i)'
      <3>1. script'[i] = row
        BY <1>4, <2>6 DEF Exists
      <3>2. FileOf(i)' = PathOf(i, row)
        BY <1>5, <3>1 DEF FileOf, PathOf
      <3>3. QED
        BY <1>3, <1>5, <2>3, <2>4, <3>1, <3>2 DEF Tracked
    <2>7. QED
      BY <2>5, <2>6
  <1>11. ASSUME NEW j \in Id, j # i
         PROVE  Kept(j)'
    <2>1. /\ born' = born /\ work' = work /\ pending' = pending /\ apart' = apart
          /\ edited'[j] = edited[j] /\ script'[j] = script[j]
      BY <1>4, <1>5, <1>11 DEF SaveEdit
    <2>2. Kept(j)
      BY DEF IInv
    <2>3. Exists(j)' => Exists(j) /\ SameFile(script'[j], script[j])
      BY <2>1 DEF Exists, SameFile
    <2>4. Distinct(j)' => Distinct(j)
      BY <2>1 DEF Distinct
    <2>5. \A h \in Sync : Commits(h, j)' => Commits(h, j) /\ sync'[h] = sync[h]
      BY <1>3, <1>7, <1>11
    <2>6. \A h \in Sync : Commits(h, j) => Commits(h, j)'
      BY <1>3, <1>7 DEF Commits
    <2>7. \A r \in Request : Serves(r, j)' => Serves(r, j) /\ req'[r] = req[r]
      BY <1>6
    <2>8. QED
      BY <2>1, <2>2, <2>3, <2>4, <2>5, <2>6, <2>7, Frame
  <1>12. QED
    BY <1>8, <1>9, <1>10, <1>11 DEF IStep

\* Steps that may answer a request, and write a row its owner has read or remove one,
\* but neither start nor end a sync.
LEMMA RowStep ==
  ASSUME IInv,
         \A i \in Id : script'[i] = script[i] \/ ~Exists(i)' \/
                       (Exists(i) /\ (apart[i] => SameFile(script'[i], script[i]))),
         \A r \in Request, i \in Id :
           Serves(r, i)' => Serves(r, i) /\ req'[r] = req[r],
         UNCHANGED <<nextId, work, pending, sync, edited, born, begun, apart>>
  PROVE  IStep
  <1>1. TypeOK /\ Fresh /\ Paths
    BY DEF IInv
  <1>2. \A i \in Id, h \in Sync : Commits(h, i)' <=> Commits(h, i)
    BY DEF Commits
  <1>3. Fresh'
    BY <1>1, <1>2 DEF Fresh, Exists
  <1>4. Paths'
    BY <1>1 DEF Paths
  <1>5. ASSUME NEW i \in Id
        PROVE  Kept(i)'
    <2>1. Kept(i)
      BY DEF IInv
    <2>2. apart[i] /\ Exists(i)' => Exists(i) /\ SameFile(script'[i], script[i])
      BY DEF Exists, SameFile
    <2>3. Distinct(i)' => Distinct(i)
      BY DEF Distinct
    <2>4. QED
      BY <1>2, <2>1, <2>2, <2>3, Frame
  <1>6. QED
    BY <1>3, <1>4, <1>5 DEF IStep

LEMMA MarkExecutedStep ==
  ASSUME IInv, NEW q \in Request, MarkExecuted(q)
  PROVE  IStep
  <1>. PICK i \in Id : i = req[q].id
    BY LockedType DEF IInv, MarkExecuted, At
  <1>. DEFINE row == [req[q].row EXCEPT !.status = "locked"]
  <1>1. TypeOK /\ Serves(q, i) /\ Answer(q) /\ UpdateScript(i, row)
    BY DEF IInv, MarkExecuted, Serves, At
  <1>2. req[q].row \in Row
    BY <1>1, Shapes DEF Serves, Work
  <1>3. SameFile(row, req[q].row)
    BY <1>2 DEF SameFile, Row
  <1>4. apart[i] /\ Exists(i) => SameFile(row, script[i])
    BY <1>1, <1>3 DEF IInv, Kept, Tracked, SameFile
  <1>5. \A j \in Id : script'[j] = script[j] \/ ~Exists(j)' \/
                      (Exists(j) /\ (apart[j] => SameFile(script'[j], script[j])))
    BY <1>1, <1>4 DEF UpdateScript, TypeOK
  <1>6. \A r \in Request, j \in Id : Serves(r, j)' => Serves(r, j) /\ req'[r] = req[r]
    BY <1>1, AnswerServes
  <1>7. QED
    BY <1>5, <1>6, RowStep DEF MarkExecuted

LEMMA MarkArchivedStep ==
  ASSUME IInv, NEW i \in Id, MarkArchived(i)
  PROVE  IStep
  <1>1. TypeOK /\ script[i] \in Row
    BY DEF IInv, MarkArchived, Exists, TypeOK
  <1>2. SameFile([script[i] EXCEPT !.status = "locked"], script[i])
    BY <1>1 DEF SameFile, Row
  <1>3. \A j \in Id : script'[j] = script[j] \/
                      (Exists(j) /\ SameFile(script'[j], script[j]))
    BY <1>1, <1>2 DEF MarkArchived, TypeOK
  <1>4. \A r \in Request, j \in Id : Serves(r, j)' => Serves(r, j) /\ req'[r] = req[r]
    BY DEF MarkArchived, Serves, At
  <1>5. QED
    BY <1>3, <1>4, RowStep DEF MarkArchived

LEMMA DeleteScriptStep ==
  ASSUME IInv, NEW i \in Id, DeleteScript(i)
  PROVE  IStep
  <1>1. \A j \in Id : script'[j] = script[j] \/ ~Exists(j)'
    BY DEF IInv, TypeOK, DeleteScript, Exists
  <1>2. \A r \in Request, j \in Id : Serves(r, j)' => Serves(r, j) /\ req'[r] = req[r]
    BY DEF DeleteScript, Serves, At
  <1>3. QED
    BY <1>1, <1>2, RowStep DEF DeleteScript

LEMMA LeaveStep ==
  ASSUME IInv, NEW q \in Request, Leave(q)
  PROVE  IStep
  <1>1. \A r \in Request, j \in Id : Serves(r, j)' => Serves(r, j) /\ req'[r] = req[r]
    BY AnswerServes DEF IInv, Leave
  <1>2. QED
    BY <1>1, RowStep DEF Leave

\* What becomes of the syncs at work when one of them ends.
LEMMA SyncEnds ==
  ASSUME TypeOK, NEW g \in Sync, sync' = [sync EXCEPT ![g] = NoFile]
  PROVE  /\ \A h \in Sync, i \in Id :
              Commits(h, i)' <=> h # g /\ Commits(h, i)
         /\ \A h \in Sync : h # g => sync'[h] = sync[h]
         /\ sync'[g] = NoFile
  <1>1. sync'[g] = NoFile /\ \A h \in Sync : h # g => sync'[h] = sync[h]
    BY DEF TypeOK
  <1>2. QED
    BY <1>1 DEF Commits

LEMMA CommitPendingStep ==
  ASSUME IInv, NEW g \in Sync, CommitPending(g)
  PROVE  IStep
  <1>1. TypeOK /\ Fresh /\ Paths /\ sync[g] # NoFile
    BY DEF IInv, CommitPending
  <1>2. /\ \A h \in Sync, i \in Id :
             Commits(h, i)' <=> h # g /\ Commits(h, i)
        /\ \A h \in Sync : h # g => sync'[h] = sync[h]
        /\ sync'[g] = NoFile
    BY <1>1, SyncEnds DEF CommitPending
  <1>3. /\ script' = script /\ nextId' = nextId /\ req' = req /\ edited' = edited
        /\ born' = born /\ apart' = apart
        /\ work' = Written(g) /\ pending' = Written(g)
    BY DEF CommitPending
  <1>4. \A i \in Id, q \in Request : Serves(q, i)' <=> Serves(q, i)
    BY <1>3 DEF Serves, At
  <1>5. \A i \in Id : (Exists(i)' <=> Exists(i)) /\ FileOf(i)' = FileOf(i)
                      /\ (Distinct(i)' <=> Distinct(i))
    BY <1>3 DEF Exists, FileOf, Distinct, PathOf
  <1>6. Fresh'
    BY <1>1, <1>2, <1>3, <1>4, <1>5 DEF Fresh
  <1>7. Paths'
    BY <1>1, <1>2, <1>3 DEF Paths
  <1>8. ASSUME NEW i \in Id
        PROVE  Kept(i)'
    <2>1. CASE sync[g].of # i
      <3>1. apart[i] /\ Exists(i) /\ Distinct(i) =>
              work'[FileOf(i)] = work[FileOf(i)] /\ pending'[FileOf(i)] = work[FileOf(i)]
        BY <1>1, <1>3, <2>1, OthersWriteElsewhere, WrittenType
      <3>2. \A h \in Sync : Commits(h, i) => Commits(h, i)'
        BY <1>2, <2>1 DEF Commits
      <3>3. \A h \in Sync : Commits(h, i)' => Commits(h, i) /\ sync'[h] = sync[h]
        BY <1>2
      <3>4. \A q \in Request : Serves(q, i)' => Serves(q, i) /\ req'[q] = req[q]
        BY <1>3, <1>4
      <3>5. Exists(i)' => Exists(i) /\ SameFile(script'[i], script[i])
        BY <1>3, <1>5 DEF SameFile
      <3>6. Kept(i)
        BY DEF IInv
      <3>7. QED
        BY <1>3, <1>5, <3>1, <3>2, <3>3, <3>4, <3>5, <3>6, Frame
    <2>2. CASE sync[g].of = i
      <3>1. SUFFICES ASSUME apart[i]
                     PROVE  Alone(i)' /\ (Exists(i)' => Tracked(i)')
        BY <1>3 DEF Kept
      <3>2. Alone(i) /\ Commits(g, i)
        BY <1>1, <2>2, <3>1 DEF IInv, Kept, Commits
      <3>3. /\ \A h \in Sync : ~Commits(h, i)'
            /\ \A q \in Request : ~Serves(q, i)'
        BY <1>2, <1>4, <3>2 DEF Alone
      <3>4. Alone(i)'
        BY <3>3 DEF Alone
      <3>5. ASSUME Exists(i)
            PROVE  Tracked(i)'
        <4>1. Tracked(i)
          BY <3>1, <3>5 DEF IInv, Kept
        <4>2. Written(g)[FileOf(i)] = script[i].text
          BY <1>1, <3>2, <4>1, WrittenType DEF Tracked
        <4>3. QED
          BY <1>3, <1>5, <3>3, <4>1, <4>2 DEF Tracked, PathOf
      <3>6. QED
        BY <1>5, <3>4, <3>5
    <2>3. QED
      BY <2>1, <2>2
  <1>9. QED
    BY <1>6, <1>7, <1>8 DEF IStep

LEMMA FailPendingStep ==
  ASSUME IInv, NEW g \in Sync, FailPending(g)
  PROVE  IStep
  <1>1. TypeOK /\ Fresh /\ Paths /\ sync[g] # NoFile
    BY DEF IInv, FailPending
  <1>2. /\ \A h \in Sync, i \in Id :
             Commits(h, i)' <=> h # g /\ Commits(h, i)
        /\ \A h \in Sync : h # g => sync'[h] = sync[h]
        /\ sync'[g] = NoFile
    BY <1>1, SyncEnds DEF FailPending
  <1>3. /\ script' = script /\ nextId' = nextId /\ req' = req /\ edited' = edited
        /\ born' = born /\ pending' = pending /\ work' \in {work, Written(g)}
    BY DEF FailPending
  <1>4. /\ \A i \in Id : sync[g].of # i => apart'[i] = apart[i]
        /\ \A i \in Id : sync[g].of = i => ~apart'[i]
    BY <1>1 DEF FailPending, TypeOK
  <1>5. \A i \in Id, q \in Request : Serves(q, i)' <=> Serves(q, i)
    BY <1>3 DEF Serves, At
  <1>6. Fresh'
    BY <1>1, <1>2, <1>3, <1>5 DEF Fresh, Exists
  <1>7. Paths'
    BY <1>1, <1>2, <1>3 DEF Paths
  <1>8. ASSUME NEW i \in Id
        PROVE  Kept(i)'
    <2>1. CASE sync[g].of # i
      <3>1. apart[i] /\ Exists(i) /\ Distinct(i) => work'[FileOf(i)] = work[FileOf(i)]
        BY <1>1, <1>3, <2>1, OthersWriteElsewhere, WrittenType
      <3>2. \A h \in Sync : Commits(h, i) => Commits(h, i)'
        BY <1>2, <2>1 DEF Commits
      <3>3. \A h \in Sync : Commits(h, i)' => Commits(h, i) /\ sync'[h] = sync[h]
        BY <1>2
      <3>4. \A q \in Request : Serves(q, i)' => Serves(q, i) /\ req'[q] = req[q]
        BY <1>3, <1>5
      <3>5. Exists(i)' => Exists(i) /\ SameFile(script'[i], script[i])
        BY <1>3 DEF SameFile, Exists
      <3>6. Kept(i) /\ (Distinct(i)' => Distinct(i))
        BY <1>3 DEF IInv, Distinct
      <3>7. QED
        BY <1>3, <1>4, <2>1, <3>1, <3>2, <3>3, <3>4, <3>5, <3>6, Frame
    <2>2. CASE sync[g].of = i
      BY <1>4, <2>2 DEF Kept
    <2>3. QED
      BY <2>1, <2>2
  <1>9. QED
    BY <1>6, <1>7, <1>8 DEF IStep

LEMMA CrashStep ==
  ASSUME IInv, Crash
  PROVE  IStep
  <1>1. TypeOK /\ Fresh
    BY DEF IInv
  <1>2. /\ script' = script /\ nextId' = nextId /\ edited' = edited /\ born' = born
        /\ work' = work /\ pending' = pending
    BY DEF Crash
  <1>3. /\ \A i \in Id, q \in Request : ~Serves(q, i)'
        /\ \A g \in Sync : sync'[g] = NoFile
    BY DEF Crash, Serves, At, Idle
  <1>4. \A i \in Id, g \in Sync : ~Commits(g, i)'
    BY <1>3 DEF Commits
  <1>5. \A i \in Id : apart'[i] => apart[i] /\ \A g \in Sync : ~Commits(g, i)
    BY DEF Crash, Commits
  <1>6. Fresh' /\ Paths'
    BY <1>1, <1>2, <1>3, <1>4 DEF Fresh, Paths, Exists
  <1>7. ASSUME NEW i \in Id
        PROVE  Kept(i)'
    <2>1. Exists(i)' => Exists(i) /\ SameFile(script'[i], script[i])
      BY <1>2 DEF SameFile, Exists
    <2>2. Kept(i) /\ (Distinct(i)' => Distinct(i))
      BY <1>2 DEF IInv, Distinct
    <2>3. QED
      BY <1>2, <1>3, <1>4, <1>5, <2>1, <2>2, Frame
  <1>8. QED
    BY <1>6, <1>7 DEF IStep

LEMMA StutterStep ==
  ASSUME IInv, UNCHANGED vars
  PROVE  IStep
  <1>1. \A r \in Request, i \in Id : Serves(r, i)' => Serves(r, i) /\ req'[r] = req[r]
    BY DEF vars, Serves, At
  <1>2. QED
    BY <1>1, RowStep DEF vars

-----------------------------------------------------------------------------
(* The theorems.                                                           *)

LEMMA IInvStep ==
  ASSUME IInv, [Next]_vars
  PROVE  IInv'
  <1>1. TypeOK'
    BY TypeStep DEF IInv
  <1>2. IStep
    <2>1. CASE \E g \in Sync, row \in Row : CreateScript(g, row)
      BY <2>1, CreateScriptStep
    <2>2. CASE \E q \in Request, i \in Id : BeginEdit(q, i) \/ BeginPush(q, i)
      BY <2>2, BeginStep DEF BeginEdit, BeginPush
    <2>3. CASE \E q \in Request, g \in Sync, p \in Project, t \in Title, c \in Text :
                 SaveEdit(q, g, p, t, c)
      BY <2>3, SaveEditStep
    <2>4. CASE \E q \in Request : MarkExecuted(q) \/ Leave(q)
      BY <2>4, MarkExecutedStep, LeaveStep
    <2>5. CASE \E i \in Id : MarkArchived(i) \/ DeleteScript(i)
      BY <2>5, MarkArchivedStep, DeleteScriptStep
    <2>6. CASE \E g \in Sync : CommitPending(g) \/ FailPending(g)
      BY <2>6, CommitPendingStep, FailPendingStep
    <2>7. CASE Crash
      BY <2>7, CrashStep
    <2>8. CASE UNCHANGED vars
      BY <2>8, StutterStep
    <2>9. QED
      BY <2>1, <2>2, <2>3, <2>4, <2>5, <2>6, <2>7, <2>8 DEF Next
  <1>3. QED
    BY <1>1, <1>2 DEF IStep, IInv

LEMMA IInvInit == Init => IInv
  <1>. SUFFICES ASSUME Init
                PROVE  IInv
    OBVIOUS
  <1>1. TypeOK
    BY BoundAssumption DEF Init, TypeOK
  <1>2. /\ \A q \in Request, i \in Id : ~Serves(q, i)
        /\ \A g \in Sync, i \in Id : ~Commits(g, i)
        /\ \A i \in Id : ~Exists(i)
    BY DEF Init, Serves, Commits, At, Idle, Exists
  <1>3. Fresh /\ Paths
    BY <1>2 DEF Init, Fresh, Paths
  <1>4. \A i \in Id : Kept(i)
    BY <1>2 DEF Kept, Alone
  <1>5. QED
    BY <1>1, <1>3, <1>4 DEF IInv

\* A script whose requests and syncs keep apart is shown by its file in the pending
\* directory of the remote (ShownIfApart), whatever happens to other scripts, which
\* pushes fail and when the process crashes.
THEOREM ScriptsAreShown == Spec => []ShownIfApart
  <1>1. IInv /\ [Next]_vars => IInv'
    BY IInvStep
  <1>2. IInv => ShownIfApart
    <2>. SUFFICES ASSUME IInv, NEW i \in Id, Exists(i), apart[i], ~Busy(i), Distinct(i)
                  PROVE  pending[FileOf(i)] = script[i].text
      BY DEF ShownIfApart, Distinct
    <2>1. Tracked(i) /\ \A g \in Sync : ~Commits(g, i)
      BY DEF IInv, Kept, Busy, Commits
    <2>2. QED
      BY <2>1 DEF Tracked
  <1>3. QED
    BY <1>1, <1>2, IInvInit, PTL DEF Spec
=============================================================================
