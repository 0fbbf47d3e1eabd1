---------------------------- MODULE ArchiveProofs ----------------------------
(* Theorems about Archive, and the Git client in it, for every value of    *)
(* the constants.                                                          *)
EXTENDS Archive, FiniteSetTheorems, FunctionTheorems, TLAPS

-----------------------------------------------------------------------------
(* What holds however the users of the work directory overlap.             *)

\* The youngest commit of a branch is in it.
Headed(branch) ==
  branch # {} => Head(branch) \in branch /\ \A m \in branch : m <= Head(branch)

\* Commits are numbered as they are made.
RepoOK ==
  /\ cloned \in BOOLEAN
  /\ disk \in Tree /\ index \in Tree
  /\ {objects, local, remote} \subseteq SUBSET CommitId
  /\ tree \in [CommitId -> Tree]
  /\ nextCommit \in Nat \ {0}
  /\ \A n \in local \cup remote : n < nextCommit
  /\ Headed(local) /\ Headed(remote)

\* A call writes files it was given, and a commit is younger than its parents.
Ordered(l, next) ==
  /\ l.at \in {"open", "write"} => l.todo \subseteq DOMAIN l.files
  /\ l.at \in {"update", "push", "pushed"} => l.hash < next
  /\ l.at = "update" => \A n \in l.parents : n < l.hash
Calls ==
  /\ call \in [Call -> CallLocal]
  /\ \A c \in Call : Ordered(call[c], nextCommit)

\* Rows are counted by their ids.
Counted(table) ==
  /\ IsFiniteSet(table)
  /\ \A v \in table : v.id <= Cardinality(table)
  /\ \A v, w \in table : v.id = w.id => v = w

GitInv == RepoOK /\ Calls /\ reinit \in {"idle", "removed"}
Local == ArchiveLocal \cup EditLocal \cup CurrentLocal \cup {Idle}
RowsInv ==
  /\ script \in [Script -> ScriptRow]
  /\ release \in [Release -> {"published", "executing", "archived"}]
  /\ versions \subseteq VersionRow /\ Counted(versions)
  /\ log \subseteq LogRow /\ IsFiniteSet(log)
  /\ pom \in Version \cup {NoVersion}
  /\ lock \in Request \cup {NoRequest}
  /\ req \in [Request -> Local]
BaseInv == GitInv /\ RowsInv

-----------------------------------------------------------------------------
(* What holds if they do not.                                              *)

\* A path that is in tree t is in tree u.
Within(t, u) == \A p \in Path : t[p] # NoText => u[p] # NoText

\* The work directory forgets no path, and is ahead of the remote or refused.
Layered ==
  /\ Within(index, disk)
  /\ Within(HeadTree(local), index)
  /\ remote \subseteq local => Within(HeadTree(remote), HeadTree(local))

\* The caller that is alone finds in each place what it has put there.
Faithful(c) ==
  LET files == call[c].files
  IN /\ Active(c) => cloned
     /\ CallAt(c, "open") => call[c].todo = DOMAIN files
     /\ CallAt(c, "write") => \A p \in DOMAIN files \ call[c].todo : disk[p] = files[p]
     /\ CallAt(c, "stage") => call[c].staged = disk /\ \A p \in DOMAIN files : disk[p] = files[p]
     /\ CallAt(c, "commit") => \A p \in DOMAIN files : index[p] = files[p]
     /\ CallAt(c, "update") => /\ call[c].parents = local
                               /\ call[c].hash \notin remote
                               /\ tree[call[c].hash] = index
                               /\ Holds(call[c].hash, files)
     /\ CallAt(c, "push") => /\ local # {} /\ call[c].hash = Head(local)
                             /\ Holds(call[c].hash, files)
     /\ CallAt(c, "pushed") => /\ call[c].hash \in remote
                               /\ Holds(call[c].hash, files)
                               /\ \A p \in DOMAIN files : HeadTree(remote)[p] # NoText

\* What an archive has in hand: the scripts of its release, the call it waits for,
\* and after it the commit.
ArchivePlaces == {"version", "begin", "git", "pushing", "record", "commit"}
Delivered == {s \in Script : HeadHolds(s)}
InHand(q) ==
  LET l == req[q]
  IN /\ l.at \in ArchivePlaces => DOMAIN l.texts = Linked[l.release]
     /\ l.at = "pushing" /\ call[q].at \notin {"idle", "failed"}
          => call[q].files = ArchivedFiles(l.texts)
     /\ l.at \in {"record", "commit"} => /\ l.hash \in remote
                                         /\ Holds(l.hash, ArchivedFiles(l.texts))
                                         /\ DOMAIN l.texts \subseteq Delivered

WorkInv == GitInv /\ Serial /\ Layered /\ \A c \in Call : Faithful(c)
SerialInv ==
  /\ WorkInv /\ RowsInv /\ LoggedIsPushed
  /\ \A q \in Request : InHand(q)

-----------------------------------------------------------------------------
(* The repository.                                                         *)

\* Commits that exist keep their contents, and none leaves the remote.
Grown ==
  /\ nextCommit <= nextCommit'
  /\ remote \subseteq remote'
  /\ \A n \in CommitId : n < nextCommit => tree'[n] = tree[n]

LEMMA HeadIs ==
  ASSUME NEW branch \in SUBSET CommitId, NEW n \in branch, \A m \in branch : m <= n
  PROVE  Head(branch) = n /\ Headed(branch)
  <1>1. n \in Int /\ \A m \in branch : m \in Int
    BY MaxCommitAssumption DEF CommitId
  <1>2. Head(branch) \in branch /\ \A m \in branch : m <= Head(branch)
    BY DEF Head
  <1>3. Head(branch) = n
    <2>1. Head(branch) \in Int
      BY <1>1, <1>2
    <2>2. n <= Head(branch) /\ Head(branch) <= n
      BY <1>2
    <2>3. QED
      BY <1>1, <2>1, <2>2
  <1>4. QED
    BY <1>2, <1>3 DEF Headed

LEMMA HeadTreeType ==
  ASSUME RepoOK
  PROVE  HeadTree(local) \in Tree /\ HeadTree(remote) \in Tree
  BY DEF RepoOK, Headed, HeadTree, Tree, NoFiles

\* A branch of existing commits has the same head and contents later.
LEMMA HeadTreeStays ==
  ASSUME RepoOK, Grown, NEW branch \in {local, remote}
  PROVE  HeadTree(branch) = (IF branch = {} THEN NoFiles ELSE tree'[Head(branch)])
  BY DEF RepoOK, Headed, HeadTree, Grown

LEMMA UnchangedRepo ==
  ASSUME RepoOK, UNCHANGED repository
  PROVE  RepoOK' /\ Grown
  BY DEF RepoOK, Grown, repository, Headed

LEMMA CloneRepo ==
  ASSUME RepoOK, Clone
  PROVE  RepoOK' /\ Grown
  <1>1. HeadTree(remote) \in Tree
    BY HeadTreeType
  <1>2. disk' \in Tree /\ index' \in Tree
    BY <1>1 DEF Clone, Tree, RepoOK
  <1>3. QED
    BY <1>2 DEF RepoOK, Clone, Grown, Headed

LEMMA InitEmptyRepoRepo ==
  ASSUME RepoOK, NEW pushed \in BOOLEAN, InitEmptyRepo(pushed), pushed => remote = {}
  PROVE  RepoOK' /\ Grown
  <1> DEFINE n == nextCommit
  <1>1. {n} \in SUBSET CommitId /\ n \in Nat
    BY MaxCommitAssumption DEF InitEmptyRepo, CommitId
  <1>2. Headed({n})
    BY <1>1, HeadIs
  <1>3. Headed(local') /\ Headed(remote')
    BY <1>2 DEF InitEmptyRepo, RepoOK, Headed
  <1>4. NoFiles \in Tree
    BY DEF NoFiles, Tree
  <1>5. nextCommit' \in Nat \ {0} /\ nextCommit < nextCommit'
    BY <1>1 DEF InitEmptyRepo
  <1>6. tree' \in [CommitId -> Tree] /\ \A m \in CommitId : m < nextCommit => tree'[m] = tree[m]
    BY <1>1, <1>4 DEF InitEmptyRepo, RepoOK, CommitId
  <1>7. {objects', local', remote'} \subseteq SUBSET CommitId
    BY <1>1 DEF InitEmptyRepo, RepoOK
  <1>8. \A m \in local' \cup remote' : m < nextCommit'
    BY <1>1, <1>5 DEF InitEmptyRepo, RepoOK, CommitId
  <1>9. remote \subseteq remote'
    BY DEF InitEmptyRepo
  <1>10. cloned' \in BOOLEAN /\ disk' \in Tree /\ index' \in Tree
    BY <1>4 DEF InitEmptyRepo, RepoOK
  <1>11. RepoOK'
    BY <1>3, <1>5, <1>6, <1>7, <1>8, <1>10 DEF RepoOK, Headed
  <1>12. QED
    BY <1>1, <1>5, <1>6, <1>9, <1>11 DEF Grown

LEMMA HalfCloneRepo ==
  ASSUME RepoOK, HalfClone
  PROVE  RepoOK' /\ Grown
  <1>1. NoFiles \in Tree
    BY DEF NoFiles, Tree
  <1>2. QED
    BY <1>1 DEF RepoOK, HalfClone, Grown, Headed

LEMMA PrepareRepo ==
  ASSUME RepoOK, Prepare \/ PrepareFails
  PROVE  RepoOK' /\ Grown
  <1>1. CASE Prepare
    BY <1>1, CloneRepo, InitEmptyRepoRepo DEF Prepare
  <1>2. CASE PrepareFails
    BY <1>2, UnchangedRepo, HalfCloneRepo, InitEmptyRepoRepo DEF PrepareFails
  <1>3. QED
    BY <1>1, <1>2

-----------------------------------------------------------------------------
(* The calls of CommitAndPush.                                             *)

\* The place of a call tells the shape of its local state.
LEMMA CallShapes ==
  ASSUME Calls, NEW c \in Call
  PROVE  /\ call[c].at \in {"open", "write"} => call[c] \in Writing
         /\ call[c].at = "stage" => call[c] \in Staging
         /\ call[c].at = "commit" => call[c] \in [at : {"commit"}, files : Files]
         /\ call[c].at = "update" =>
              call[c] \in [at : {"update"}, files : Files, hash : CommitId,
                           parents : SUBSET CommitId]
         /\ call[c].at \in {"push", "pushed"} => call[c] \in Pushing
         /\ call[c].at \notin {"idle", "failed"} => call[c].files \in Files
  <1>1. call[c] \in CallLocal
    BY DEF Calls
  <1>2. QED
    BY <1>1 DEF CallLocal, Writing, Staging, Committing, Pushing, Ended

LEMMA FilesType ==
  ASSUME NEW files \in Files
  PROVE  DOMAIN files \subseteq Path /\ \A p \in DOMAIN files : files[p] \in Text
  BY DEF Files

LEMMA BecomeCalls ==
  ASSUME Calls, nextCommit \in Nat, nextCommit' \in Nat, nextCommit <= nextCommit',
         NEW c \in Call, NEW l \in CallLocal, Ordered(l, nextCommit'), Become(c, l)
  PROVE  Calls'
  <1>1. call' \in [Call -> CallLocal] /\ call'[c] = l
        /\ \A d \in Call \ {c} : call'[d] = call[d]
    BY DEF Calls, Become
  <1>2. ASSUME NEW d \in Call \ {c} PROVE Ordered(call[d], nextCommit')
    <2>1. call[d].at \in {"update", "push", "pushed"} => call[d].hash \in Int
      BY CallShapes, MaxCommitAssumption DEF Pushing, CommitId
    <2>2. QED
      BY <2>1 DEF Calls, Ordered
  <1>3. QED
    BY <1>1, <1>2 DEF Calls

LEMMA SameCalls ==
  ASSUME Calls, nextCommit \in Nat, nextCommit' \in Nat, nextCommit <= nextCommit',
         UNCHANGED call
  PROVE  Calls'
  <1>1. ASSUME NEW d \in Call PROVE Ordered(call[d], nextCommit')
    <2>1. call[d].at \in {"update", "push", "pushed"} => call[d].hash \in Int
      BY CallShapes, MaxCommitAssumption DEF Pushing, CommitId
    <2>2. QED
      BY <2>1 DEF Calls, Ordered
  <1>2. QED
    BY <1>1 DEF Calls

LEMMA EndedCall ==
  ASSUME NEW place \in {"idle", "failed"}, NEW n
  PROVE  [at |-> place] \in CallLocal /\ Ordered([at |-> place], n)
  BY DEF CallLocal, Ended, Ordered

LEMMA NewCall ==
  ASSUME NEW files \in Files, NEW n
  PROVE  LET l == [at |-> "open", files |-> files, todo |-> DOMAIN files]
         IN l \in CallLocal /\ Ordered(l, n)
  BY FilesType DEF CallLocal, Writing, Ordered

LEMMA FailCalls ==
  ASSUME Calls, nextCommit \in Nat, nextCommit' \in Nat, nextCommit <= nextCommit',
         NEW c \in Call, Fail(c)
  PROVE  Calls'
  BY EndedCall, BecomeCalls DEF Fail

LEMMA OpenBase ==
  ASSUME RepoOK, Calls, NEW c \in Call, Open(c)
  PROVE  RepoOK' /\ Calls' /\ Grown
  <1>1. RepoOK' /\ Grown
    BY UnchangedRepo, PrepareRepo DEF Open
  <1>2. nextCommit \in Nat /\ nextCommit' \in Nat /\ nextCommit <= nextCommit'
    BY <1>1 DEF RepoOK, Grown
  <1>3. [call[c] EXCEPT !.at = "write"] \in CallLocal
        /\ Ordered([call[c] EXCEPT !.at = "write"], nextCommit')
    <2>1. call[c] \in Writing /\ Ordered(call[c], nextCommit) /\ call[c].at = "open"
      BY CallShapes DEF Open, CallAt, Calls
    <2>2. QED
      BY <2>1 DEF Writing, CallLocal, Ordered
  <1>4. QED
    BY <1>1, <1>2, <1>3, FailCalls, BecomeCalls DEF Open

LEMMA WriteFileBase ==
  ASSUME RepoOK, Calls, NEW c \in Call, WriteFile(c)
  PROVE  RepoOK' /\ Calls' /\ Grown
  <1>1. call[c] \in Writing /\ Ordered(call[c], nextCommit) /\ call[c].at = "write"
    BY CallShapes DEF WriteFile, CallAt, Calls
  <1>2. PICK p \in call[c].todo :
          \/ /\ disk' = [disk EXCEPT ![p] = call[c].files[p]]
             /\ Become(c, [call[c] EXCEPT !.todo = @ \ {p}])
          \/ Fail(c) /\ UNCHANGED disk
    BY DEF WriteFile
  <1>3. p \in DOMAIN call[c].files /\ call[c].files \in Files
    BY <1>1 DEF Ordered, Writing
  <1>4. p \in Path /\ call[c].files[p] \in Text
    BY <1>3, FilesType
  <1>5. disk' \in Tree
    BY <1>2, <1>4 DEF RepoOK, Tree
  <1>6. RepoOK' /\ Grown
    BY <1>5 DEF RepoOK, WriteFile, Grown, Headed
  <1>7. [call[c] EXCEPT !.todo = @ \ {p}] \in CallLocal
        /\ Ordered([call[c] EXCEPT !.todo = @ \ {p}], nextCommit')
    BY <1>1 DEF Writing, CallLocal, Ordered
  <1>8. nextCommit' = nextCommit /\ nextCommit \in Nat
    BY DEF WriteFile, RepoOK
  <1>9. QED
    BY <1>2, <1>6, <1>7, <1>8, FailCalls, BecomeCalls

LEMMA StageBase ==
  ASSUME RepoOK, Calls, NEW c \in Call, Add(c) \/ SetIndex(c)
  PROVE  RepoOK' /\ Calls' /\ Grown
  <1>1. nextCommit' = nextCommit /\ nextCommit \in Nat
    BY DEF Add, SetIndex, RepoOK, repository
  <1>2. CASE Add(c)
    <2>1. RepoOK' /\ Grown
      BY <1>2, UnchangedRepo DEF Add
    <2>2. call[c].files \in Files
      BY <1>2, CallShapes DEF Add, CallAt
    <2>3. LET l == [at |-> "stage", files |-> call[c].files, staged |-> disk]
          IN l \in CallLocal /\ Ordered(l, nextCommit')
      BY <2>2 DEF RepoOK, CallLocal, Staging, Ordered
    <2>4. QED
      BY <1>1, <1>2, <2>1, <2>3, FailCalls, BecomeCalls DEF Add
  <1>3. CASE SetIndex(c)
    <2>1. call[c] \in Staging
      BY <1>3, CallShapes DEF SetIndex, CallAt
    <2>2. index' \in Tree
      BY <1>3, <2>1 DEF SetIndex, Staging, RepoOK
    <2>3. RepoOK' /\ Grown
      BY <1>3, <2>2 DEF SetIndex, RepoOK, Grown, Headed
    <2>4. LET l == [at |-> "commit", files |-> call[c].files]
          IN l \in CallLocal /\ Ordered(l, nextCommit')
      BY <2>1 DEF Staging, CallLocal, Committing, Ordered
    <2>5. QED
      BY <1>1, <1>3, <2>3, <2>4, FailCalls, BecomeCalls DEF SetIndex
  <1>4. QED
    BY <1>2, <1>3

LEMMA CommitBase ==
  ASSUME RepoOK, Calls, NEW c \in Call, Commit(c)
  PROVE  RepoOK' /\ Calls' /\ Grown
  <1>1. call[c].files \in Files
    BY CallShapes DEF Commit, CallAt
  <1>2. CASE Fail(c) /\ UNCHANGED <<tree, objects, nextCommit>>
    <2>1. UNCHANGED repository
      BY <1>2 DEF Commit, repository
    <2>2. QED
      BY <1>2, <2>1, UnchangedRepo, FailCalls DEF RepoOK, Grown
  <1>3. CASE /\ nextCommit \in CommitId
             /\ tree' = [tree EXCEPT ![nextCommit] = index]
             /\ objects' = objects \cup {nextCommit}
             /\ nextCommit' = nextCommit + 1
             /\ Become(c, [at |-> "update", files |-> call[c].files,
                           hash |-> nextCommit, parents |-> local])
    <2>1. nextCommit \in Nat /\ nextCommit' \in Nat \ {0} /\ nextCommit < nextCommit'
      BY <1>3 DEF RepoOK
    <2>2. tree' \in [CommitId -> Tree]
          /\ \A m \in CommitId : m < nextCommit => tree'[m] = tree[m]
      BY <1>3, <2>1 DEF RepoOK
    <2>3. UNCHANGED <<cloned, disk, index, local, remote>> /\ objects' \subseteq CommitId
      BY <1>3 DEF Commit, RepoOK
    <2>4. \A n \in local \cup remote : n \in Int /\ n < nextCommit
      BY MaxCommitAssumption DEF RepoOK, CommitId
    <2>5. RepoOK'
      BY <2>1, <2>2, <2>3, <2>4 DEF RepoOK, Headed
    <2>6. Grown
      BY <2>1, <2>2, <2>3 DEF Grown
    <2>7. LET l == [at |-> "update", files |-> call[c].files,
                    hash |-> nextCommit, parents |-> local]
          IN l \in CallLocal /\ Ordered(l, nextCommit')
      BY <1>1, <1>3, <2>1, <2>4 DEF RepoOK, CallLocal, Committing, Ordered
    <2>8. QED
      BY <1>3, <2>1, <2>5, <2>6, <2>7, BecomeCalls
  <1>4. QED
    BY <1>2, <1>3 DEF Commit

\* A commit is the head of the branch made of it and of older ones.
LEMMA YoungestIsHead ==
  ASSUME NEW older \in SUBSET CommitId, NEW n \in CommitId, \A m \in older : m < n
  PROVE  Head(older \cup {n}) = n /\ Headed(older \cup {n})
  <1>1. \A m \in older \cup {n} : m \in Int /\ m <= n
    BY MaxCommitAssumption DEF CommitId
  <1>2. QED
    BY <1>1, HeadIs

LEMMA UpdateHeadBase ==
  ASSUME RepoOK, Calls, NEW c \in Call, UpdateHead(c)
  PROVE  RepoOK' /\ Calls' /\ Grown
  <1>1. call[c] \in [at : {"update"}, files : Files, hash : CommitId,
                     parents : SUBSET CommitId]
        /\ Ordered(call[c], nextCommit)
    BY CallShapes DEF UpdateHead, CallAt, Calls
  <1> DEFINE n == call[c].hash
             older == call[c].parents
  <1>2. n \in CommitId /\ older \in SUBSET CommitId /\ \A m \in older : m < n
    BY <1>1 DEF Ordered
  <1>3. n < nextCommit /\ nextCommit \in Nat /\ nextCommit' = nextCommit
    BY <1>1 DEF Ordered, UpdateHead, RepoOK
  <1>4. Headed(older \cup {n}) /\ \A m \in older \cup {n} : m < nextCommit
    <2>1. Headed(older \cup {n})
      BY <1>2, YoungestIsHead
    <2>2. \A m \in older \cup {n} : m \in Int
      BY <1>2, MaxCommitAssumption DEF CommitId
    <2>3. QED
      BY <1>2, <1>3, <2>1, <2>2
  <1>5. local' \in {local, older \cup {n}}
        /\ UNCHANGED <<cloned, disk, index, objects, remote, tree, nextCommit>>
    BY DEF UpdateHead
  <1>6. RepoOK' /\ Grown
    BY <1>2, <1>4, <1>5 DEF RepoOK, Grown, Headed
  <1>7. LET l == [at |-> "push", files |-> call[c].files, hash |-> call[c].hash]
        IN l \in CallLocal /\ Ordered(l, nextCommit')
    BY <1>1, <1>3 DEF CallLocal, Pushing, Ordered
  <1>8. QED
    BY <1>3, <1>6, <1>7, FailCalls, BecomeCalls DEF UpdateHead

LEMMA PushBase ==
  ASSUME RepoOK, Calls, NEW c \in Call, Push(c)
  PROVE  RepoOK' /\ Calls' /\ Grown
  <1>1. remote' = remote \/ (remote' = local /\ remote \subseteq local)
    BY DEF Push
  <1>2. UNCHANGED <<cloned, disk, index, objects, local, tree, nextCommit>>
    BY DEF Push
  <1>3. RepoOK' /\ Grown
    BY <1>1, <1>2 DEF RepoOK, Grown, Headed
  <1>4. [call[c] EXCEPT !.at = "pushed"] \in CallLocal
        /\ Ordered([call[c] EXCEPT !.at = "pushed"], nextCommit')
    <2>1. call[c] \in Pushing /\ Ordered(call[c], nextCommit) /\ call[c].at = "push"
      BY CallShapes DEF Push, CallAt, Calls
    <2>2. QED
      BY <1>2, <2>1 DEF Pushing, CallLocal, Ordered
  <1>5. nextCommit' = nextCommit /\ nextCommit \in Nat
    BY <1>2 DEF RepoOK
  <1>6. QED
    BY <1>3, <1>4, <1>5, FailCalls, BecomeCalls DEF Push

LEMMA GitStepBase ==
  ASSUME RepoOK, Calls, NEW c \in Call, GitStep(c)
  PROVE  RepoOK' /\ Calls' /\ Grown
  BY OpenBase, WriteFileBase, StageBase, CommitBase, UpdateHeadBase, PushBase DEF GitStep

LEMMA OutsiderBase ==
  ASSUME RepoOK, Calls, OutsiderPush
  PROVE  RepoOK' /\ Calls' /\ Grown
  <1>1. nextCommit \in CommitId /\ nextCommit \in Nat
        /\ nextCommit' \in Nat \ {0} /\ nextCommit < nextCommit'
    BY DEF OutsiderPush, RepoOK
  <1>2. \A n \in local \cup remote : n \in Int /\ n < nextCommit
    BY MaxCommitAssumption DEF RepoOK, CommitId
  <1>3. Headed(remote \cup {nextCommit})
    BY <1>1, <1>2, YoungestIsHead DEF RepoOK
  <1>4. tree' \in [CommitId -> Tree]
        /\ \A m \in CommitId : m < nextCommit => tree'[m] = tree[m]
    BY <1>1, HeadTreeType DEF RepoOK, OutsiderPush
  <1>5. RepoOK'
    BY <1>1, <1>2, <1>3, <1>4 DEF RepoOK, OutsiderPush, Headed
  <1>6. Grown
    BY <1>1, <1>4 DEF Grown, OutsiderPush
  <1>7. QED
    BY <1>1, <1>5, <1>6, SameCalls DEF OutsiderPush

LEMMA ReinitBase ==
  ASSUME RepoOK, Calls, ReinitStep
  PROVE  RepoOK' /\ Calls' /\ Grown
  <1>1. RepoOK' /\ Grown
    <2>1. CASE RemoveWorkDir
      <3>1. NoFiles \in Tree
        BY DEF NoFiles, Tree
      <3>2. Headed(local') /\ Headed(remote')
        BY <2>1 DEF RemoveWorkDir, RepoOK, Headed
      <3>3. RepoOK'
        BY <2>1, <3>1, <3>2 DEF RemoveWorkDir, RepoOK
      <3>4. QED
        BY <2>1, <3>3 DEF RemoveWorkDir, RepoOK, Grown
    <2>2. CASE CloneAgain
      BY <2>2, UnchangedRepo, PrepareRepo DEF CloneAgain
    <2>3. QED
      BY <2>1, <2>2 DEF ReinitStep
  <1>2. QED
    BY <1>1, SameCalls DEF ReinitStep, RemoveWorkDir, CloneAgain, RepoOK, Grown

LEMMA CrashBase ==
  ASSUME RepoOK, Calls, GitCrash
  PROVE  RepoOK' /\ Calls' /\ Grown
  <1>1. RepoOK' /\ Grown
    BY UnchangedRepo, HalfCloneRepo DEF GitCrash
  <1>2. \A n : [at |-> "idle"] \in CallLocal /\ Ordered([at |-> "idle"], n)
    BY EndedCall
  <1>3. QED
    BY <1>1, <1>2 DEF GitCrash, Calls

-----------------------------------------------------------------------------
(* The rows of versions.                                                   *)

\* Rows that change in place keep their count.
LEMMA ChangedRows ==
  ASSUME NEW table, Counted(table), NEW f, DOMAIN f = table,
         \A v \in table : f[v].id = v.id
  PROVE  Counted({f[v] : v \in table})
         /\ Cardinality({f[v] : v \in table}) = Cardinality(table)
  <1> DEFINE changed == {f[v] : v \in table}
  <1>1. \A v, w \in table : f[v] = f[w] => v = w
    BY DEF Counted
  <1>2. ExistsBijection(table, changed)
    <2> DEFINE g == [v \in table |-> f[v]]
    <2>1. g \in [table -> changed]
      OBVIOUS
    <2>2. \A v, w \in table : g[v] = g[w] => v = w
      BY <1>1
    <2>3. \A u \in changed : \E v \in table : g[v] = u
      OBVIOUS
    <2>4. g \in Bijection(table, changed)
      BY <2>1, <2>2, <2>3, Fun_IsBij
    <2>5. QED
      BY <2>4 DEF ExistsBijection
  <1>3. IsFiniteSet(changed) /\ Cardinality(changed) = Cardinality(table)
    BY <1>2, FS_Bijection DEF Counted
  <1>4. QED
    BY <1>3 DEF Counted

LEMMA AddedRow ==
  ASSUME NEW table, Counted(table), NEW row, row.id = NextId(table),
         \A v \in table : v.id \in Int
  PROVE  Counted(table \cup {row}) /\ NextId(table) \in Nat \ {0}
  <1>1. Cardinality(table) \in Nat
    BY FS_CardinalityType DEF Counted
  <1>2. row \notin table
    BY <1>1 DEF Counted, NextId
  <1>3. IsFiniteSet(table \cup {row})
        /\ Cardinality(table \cup {row}) = Cardinality(table) + 1
    BY <1>2, FS_AddElement DEF Counted
  <1>4. \A v \in table : v.id # row.id
    BY <1>1 DEF Counted, NextId
  <1>5. QED
    BY <1>1, <1>3, <1>4 DEF Counted, NextId

LEMMA IdsAreNumbers == versions \subseteq VersionRow => \A v \in versions : v.id \in Int
  BY ArchiveBoundAssumption DEF VersionRow

LEMMA BumpedRows ==
  ASSUME versions \subseteq VersionRow, Counted(versions), NEW v \in Version,
         NextId(versions) <= MaxVersion
  PROVE  LET b == Bumped(versions, v)
         IN /\ b \subseteq VersionRow /\ Counted(b)
            /\ \A x, y \in b : x.current /\ y.current => x = y
  <1> DEFINE f == [w \in versions |-> [w EXCEPT !.current = FALSE]]
             old == {f[w] : w \in versions}
             new == [id |-> NextId(versions), version |-> v, current |-> TRUE]
  <1>1. old \subseteq VersionRow /\ \A x \in old : ~x.current
    BY DEF VersionRow
  <1>2. DOMAIN f = versions /\ \A w \in versions : f[w].id = w.id
    BY DEF VersionRow
  <1>3. Counted(old) /\ NextId(old) = NextId(versions)
    <2> HIDE DEF f
    <2>1. QED
      BY <1>2, ChangedRows DEF NextId
  <1>4. Counted(old \cup {new}) /\ NextId(versions) \in Nat \ {0}
    <2>1. \A x \in old : x.id \in Int
      BY <1>1, ArchiveBoundAssumption DEF VersionRow
    <2>2. new.id = NextId(old)
      BY <1>3
    <2>3. QED
      BY <1>3, <2>1, <2>2, AddedRow
  <1>5. new \in VersionRow
    BY <1>4, ArchiveBoundAssumption DEF VersionRow
  <1>6. Bumped(versions, v) = old \cup {new}
    BY DEF Bumped
  <1> HIDE DEF old
  <1>7. QED
    BY <1>1, <1>4, <1>5, <1>6

LEMMA CreatedRow ==
  ASSUME versions \subseteq VersionRow, Counted(versions), NEW v \in Version,
         NextId(versions) <= MaxVersion
  PROVE  LET b == versions \cup {[id |-> NextId(versions), version |-> v, current |-> FALSE]}
         IN /\ b \subseteq VersionRow /\ Counted(b)
            /\ NextId(versions) \in 1 .. MaxVersion
  <1> DEFINE new == [id |-> NextId(versions), version |-> v, current |-> FALSE]
  <1>1. new.id = NextId(versions)
    OBVIOUS
  <1>2. Counted(versions \cup {new}) /\ NextId(versions) \in Nat \ {0}
    <2> HIDE DEF new
    <2>1. QED
      BY <1>1, IdsAreNumbers, AddedRow
  <1>3. new \in VersionRow /\ NextId(versions) \in 1 .. MaxVersion
    BY <1>2, ArchiveBoundAssumption DEF VersionRow
  <1>4. QED
    BY <1>2, <1>3

\* The rows after SetCurrent.
Chosen(id, clears) == {[v EXCEPT !.current = v.id = id \/ (@ /\ ~clears)] : v \in versions}

LEMMA ChosenRow ==
  ASSUME versions \subseteq VersionRow, Counted(versions), NEW id, NEW clears \in BOOLEAN
  PROVE  /\ Chosen(id, clears) \subseteq VersionRow /\ Counted(Chosen(id, clears))
         /\ clears => \A x, y \in Chosen(id, clears) : x.current /\ y.current => x = y
  <1> DEFINE f == [v \in versions |-> [v EXCEPT !.current = v.id = id \/ (@ /\ ~clears)]]
             new == {f[v] : v \in versions}
  <1>1. new \subseteq VersionRow
    BY DEF VersionRow
  <1>2. DOMAIN f = versions
        /\ \A v \in versions : f[v].id = v.id /\ (clears => (f[v].current <=> v.id = id))
    BY DEF VersionRow
  <1>3. Counted(new)
    <2> HIDE DEF f
    <2>1. QED
      BY <1>2, ChangedRows
  <1>4. clears => \A x, y \in new : x.current /\ y.current => x = y
    <2> HIDE DEF f
    <2>1. QED
      BY <1>2 DEF Counted
  <1>5. new = Chosen(id, clears)
    BY DEF Chosen
  <1>6. QED
    BY <1>1, <1>3, <1>4, <1>5

-----------------------------------------------------------------------------
(* Type correctness.                                                       *)

\* The history variables are never anything else.
HistoryOK == mixed \in BOOLEAN /\ strayed \in BOOLEAN

LEMMA BaseInvTypes == BaseInv /\ HistoryOK => TypeOK
  BY DEF BaseInv, HistoryOK, GitInv, RowsInv, RepoOK, Calls, TypeOK, GitTypeOK, Local

\* The files of an archive, and the one of a sync.
LEMMA ArchivedFilesAre ==
  ASSUME NEW texts \in Texts
  PROVE  /\ ArchivedFiles(texts) \in Files
         /\ DOMAIN ArchivedFiles(texts) = {<<"archived", s>> : s \in DOMAIN texts}
  <1>1. DOMAIN texts \subseteq Script /\ \A s \in DOMAIN texts : texts[s] \in Text
    BY DEF Texts
  <1>2. DOMAIN ArchivedFiles(texts) = {<<"archived", s>> : s \in DOMAIN texts}
    BY DEF ArchivedFiles
  <1>3. {<<"archived", s>> : s \in DOMAIN texts} \in SUBSET Path
    BY <1>1, PathAssumption
  <1>4. ArchivedFiles(texts) \in [{<<"archived", s>> : s \in DOMAIN texts} -> Text]
    BY <1>1 DEF ArchivedFiles
  <1>5. QED
    BY <1>2, <1>3, <1>4 DEF Files

LEMMA PendingFileIs ==
  ASSUME NEW s \in Script, NEW c \in Text
  PROVE  [p \in {<<"pending", s>>} |-> c] \in Files
  <1>1. {<<"pending", s>>} \in SUBSET Path
    BY PathAssumption
  <1>2. [p \in {<<"pending", s>>} |-> c] \in [{<<"pending", s>>} -> Text]
    OBVIOUS
  <1>3. QED
    BY <1>1, <1>2 DEF Files

\* The place of a request tells the shape of its local state.
LEMMA ReqShapes ==
  ASSUME RowsInv, NEW q \in Request
  PROVE  /\ req[q].at = "version" =>
              req[q] \in [at : {"version"}, release : Release, texts : Texts, bump : BOOLEAN]
         /\ req[q].at \in {"begin", "git", "pushing"} =>
              req[q] \in [at : {"begin", "git", "pushing"}, release : Release,
                          texts : Texts, bump : BOOLEAN, from : Version \cup {NoVersion}]
         /\ req[q].at \in {"record", "commit"} =>
              req[q] \in [at : {"record", "commit"}, release : Release, texts : Texts,
                          bump : BOOLEAN, from : Version \cup {NoVersion}, hash : CommitId]
         /\ req[q].at = "save" => req[q] \in EditLocal
         /\ req[q].at = "setCurrent" => req[q] \in CurrentLocal
  <1>1. req[q] \in Local
    BY DEF RowsInv
  <1>2. QED
    BY <1>1 DEF Local, ArchiveLocal, EditLocal, CurrentLocal, Idle

LEMMA CallersAre == Request \subseteq Call /\ Sync \subseteq Call /\ Request \cap Sync = {}
  BY CallAssumption

LEMMA SameGit ==
  ASSUME GitInv, UNCHANGED gitVars
  PROVE  GitInv' /\ Grown
  <1>1. UNCHANGED <<repository, call, reinit>>
    BY DEF gitVars, repository
  <1>2. RepoOK' /\ Grown
    BY <1>1, UnchangedRepo DEF GitInv
  <1>3. QED
    BY <1>1, <1>2, SameCalls DEF GitInv, RepoOK, Grown

\* A caller begins or ends and the repository stays.
LEMMA CallerGit ==
  ASSUME GitInv, UNCHANGED <<repository, reinit>>, NEW c \in Call,
         \/ \E files \in Files : CommitAndPush(c, files)
         \/ Become(c, [at |-> "idle"])
  PROVE  GitInv' /\ Grown
  <1>1. RepoOK' /\ Grown /\ nextCommit \in Nat /\ nextCommit' = nextCommit
    BY UnchangedRepo DEF GitInv, RepoOK, repository
  <1>2. CASE Become(c, [at |-> "idle"])
    BY <1>1, <1>2, EndedCall, BecomeCalls DEF GitInv
  <1>3. ASSUME NEW files \in Files, CommitAndPush(c, files)
        PROVE  GitInv'
    BY <1>1, <1>3, NewCall, BecomeCalls DEF GitInv, CommitAndPush
  <1>4. QED
    BY <1>1, <1>2, <1>3

LEMMA CallGitCalls ==
  ASSUME RowsInv, NEW q \in Request, CallGit(q)
  PROVE  \E files \in Files : CommitAndPush(q, files)
  BY ReqShapes, ArchivedFilesAre DEF CallGit, At

LEMMA SaveEditCalls ==
  ASSUME RowsInv, NEW q \in Request, NEW c \in Text, NEW g \in Sync, SaveEdit(q, c, g)
  PROVE  \E files \in Files : CommitAndPush(g, files)
  <1>1. req[q].script \in Script
    BY ReqShapes DEF SaveEdit, At, EditLocal
  <1>2. QED
    BY <1>1, PendingFileIs DEF SaveEdit

\* Every step keeps the Git client well-formed, and no commit is taken away.
LEMMA GitPart ==
  ASSUME BaseInv, Next
  PROVE  GitInv' /\ Grown
  <1> USE DEF BaseInv
  <1>1. ASSUME NEW q \in Request, ArchiveStep(q)
        PROVE  GitInv' /\ Grown
    <2>1. CASE CallGit(q)
      BY <2>1, CallGitCalls, CallersAre, CallerGit DEF CallGit
    <2>2. CASE GitReturns(q)
      BY <2>2, CallersAre, CallerGit DEF GitReturns
    <2>3. CASE RollbackTx(q)
      <3>1. CASE Become(q, [at |-> "idle"])
        BY <2>3, <3>1, CallersAre, CallerGit DEF RollbackTx
      <3>2. CASE UNCHANGED call
        BY <2>3, <3>2, SameGit DEF RollbackTx, gitVars, repository
      <3>3. QED
        BY <2>3, <3>1, <3>2 DEF RollbackTx
    <2>4. QED
      BY <1>1, <2>1, <2>2, <2>3, SameGit
      DEF ArchiveStep, ReadVersion, BumpVersion, InsertLog, CommitTx
  <1>2. ASSUME NEW q \in Request, OtherStep(q)
        PROVE  GitInv' /\ Grown
    <2>1. ASSUME NEW c \in Text, NEW g \in Sync, SaveEdit(q, c, g)
          PROVE  GitInv' /\ Grown
      BY <2>1, SaveEditCalls, CallersAre, CallerGit DEF SaveEdit
    <2>2. QED
      BY <1>2, <2>1, SameGit DEF OtherStep, LoseEdit, SetCurrent
  <1>3. ASSUME NEW q \in Request, Ask(q)
        PROVE  GitInv' /\ Grown
    BY <1>3, SameGit DEF Ask, BeginArchive, BeginEdit, CreateVersion, BeginSetCurrent
  <1>4. ASSUME NEW c \in Call, GitRuns(c)
        PROVE  GitInv' /\ Grown
    <2>1. UNCHANGED reinit
      BY <1>4 DEF GitRuns, GitStep, Open, WriteFile, Add, SetIndex, Commit, UpdateHead, Push
    <2>2. QED
      BY <1>4, <2>1, GitStepBase DEF GitRuns, GitInv
  <1>5. ASSUME NEW g \in Sync, EndSync(g)
        PROVE  GitInv' /\ Grown
    BY <1>5, CallersAre, CallerGit DEF EndSync
  <1>6. CASE GitConfigured
    BY <1>6, ReinitBase DEF GitConfigured, GitInv, ReinitStep, RemoveWorkDir, CloneAgain
  <1>7. CASE GitPushedElsewhere
    BY <1>7, OutsiderBase DEF GitPushedElsewhere, GitInv, OutsiderPush
  <1>8. CASE Crash
    BY <1>8, CrashBase DEF Crash, GitInv, GitCrash
  <1>9. QED
    BY <1>1, <1>2, <1>3, <1>4, <1>5, <1>6, <1>7, <1>8 DEF Next, Step

LEMMA SameRows ==
  ASSUME RowsInv, UNCHANGED <<rows, lock>>, req' \in [Request -> Local]
  PROVE  RowsInv'
  BY DEF RowsInv, rows, Counted

LEMMA GotoType ==
  ASSUME RowsInv, NEW q \in Request, NEW l \in Local, Goto(q, l)
  PROVE  req' \in [Request -> Local]
  BY DEF RowsInv, Goto

LEMMA AnswerType ==
  ASSUME RowsInv, NEW q \in Request, Answer(q)
  PROVE  req' \in [Request -> Local]
  BY GotoType DEF Answer, Local

LEMMA ReadRows ==
  ASSUME RowsInv, NEW q \in Request,
         \/ \E r \in Release, bump \in BOOLEAN : BeginArchive(q, r, bump)
         \/ ReadVersion(q)
  PROVE  RowsInv'
  <1>1. ASSUME NEW r \in Release, NEW bump \in BOOLEAN, BeginArchive(q, r, bump)
        PROVE  RowsInv'
    <2>1. [s \in Linked[r] |-> script[s].content] \in Texts
      BY LinkedAssumption DEF RowsInv, ScriptRow, Texts
    <2>2. [at |-> "version", release |-> r, bump |-> bump,
           texts |-> [s \in Linked[r] |-> script[s].content]] \in Local
      BY <2>1 DEF Local, ArchiveLocal
    <2>3. QED
      BY <1>1, <2>2, GotoType, SameRows DEF BeginArchive
  <1>2. CASE ReadVersion(q)
    <2>1. PICK v \in IF CurrentVersions = {} THEN {NoVersion} ELSE CurrentVersions :
            Goto(q, [at |-> IF req[q].bump THEN "begin" ELSE "git",
                     release |-> req[q].release, texts |-> req[q].texts,
                     bump |-> req[q].bump, from |-> v])
      BY <1>2 DEF ReadVersion
    <2>2. v \in Version \cup {NoVersion}
      BY DEF CurrentVersions, RowsInv, VersionRow
    <2>3. req[q] \in [at : {"version"}, release : Release, texts : Texts, bump : BOOLEAN]
      BY <1>2, ReqShapes DEF ReadVersion, At
    <2>4. [at |-> IF req[q].bump THEN "begin" ELSE "git",
           release |-> req[q].release, texts |-> req[q].texts,
           bump |-> req[q].bump, from |-> v] \in Local
      BY <2>2, <2>3 DEF Local, ArchiveLocal
    <2>5. QED
      BY <1>2, <2>1, <2>4, GotoType, SameRows DEF ReadVersion
  <1>3. QED
    BY <1>1, <1>2

LEMMA CallRows ==
  ASSUME BaseInv, NEW q \in Request, BumpVersion(q) \/ CallGit(q) \/ GitReturns(q) \/ InsertLog(q)
  PROVE  RowsInv'
  <1> USE DEF BaseInv
  <1>1. CASE BumpVersion(q) \/ CallGit(q)
    <2>1. req[q] \in [at : {"begin", "git", "pushing"}, release : Release,
                      texts : Texts, bump : BOOLEAN, from : Version \cup {NoVersion}]
      BY <1>1, ReqShapes DEF BumpVersion, CallGit, At
    <2>2. [req[q] EXCEPT !.at = "git"] \in Local /\ [req[q] EXCEPT !.at = "pushing"] \in Local
      BY <2>1 DEF Local, ArchiveLocal
    <2>3. req' \in [Request -> Local] /\ UNCHANGED rows /\ lock' \in {lock, q}
      BY <1>1, <2>2, GotoType DEF BumpVersion, CallGit
    <2>4. QED
      BY <2>3 DEF RowsInv, rows, Counted
  <1>2. CASE GitReturns(q)
    <2>1. req[q] \in [at : {"begin", "git", "pushing"}, release : Release,
                      texts : Texts, bump : BOOLEAN, from : Version \cup {NoVersion}]
      BY <1>2, ReqShapes DEF GitReturns, At
    <2>2. call[q].hash \in CommitId
      BY <1>2, CallShapes, CallersAre DEF GitReturns, CallAt, GitInv, Pushing
    <2>3. [at |-> "record", release |-> req[q].release, texts |-> req[q].texts,
           bump |-> req[q].bump, from |-> req[q].from, hash |-> call[q].hash] \in Local
      BY <2>1, <2>2 DEF Local, ArchiveLocal
    <2>4. QED
      BY <1>2, <2>3, GotoType, SameRows DEF GitReturns
  <1>3. CASE InsertLog(q)
    <2>1. req[q] \in [at : {"record", "commit"}, release : Release, texts : Texts,
                      bump : BOOLEAN, from : Version \cup {NoVersion}, hash : CommitId]
      BY <1>3, ReqShapes DEF InsertLog, At
    <2>2. [req[q] EXCEPT !.at = "commit"] \in Local
      BY <2>1 DEF Local, ArchiveLocal
    <2>3. req' \in [Request -> Local] /\ UNCHANGED rows /\ lock' = q
      BY <1>3, <2>2, GotoType DEF InsertLog
    <2>4. QED
      BY <2>3 DEF RowsInv, rows, Counted
  <1>4. QED
    BY <1>1, <1>2, <1>3

LEMMA CommitRows ==
  ASSUME RowsInv, NEW q \in Request, CommitTx(q)
  PROVE  RowsInv'
  <1> DEFINE l == req[q]
             row == [id |-> NextId(log), release |-> l.release, hash |-> l.hash,
                     bump |-> l.bump, from |-> l.from, to |-> VersionTo(l),
                     files |-> ArchivedFiles(l.texts)]
  <1>1. l \in [at : {"record", "commit"}, release : Release, texts : Texts,
               bump : BOOLEAN, from : Version \cup {NoVersion}, hash : CommitId]
    BY ReqShapes DEF CommitTx, At
  <1>2. VersionTo(l) \in Version \cup {NoVersion} /\ (l.bump => VersionTo(l) \in Version)
    BY <1>1, VersionAssumption DEF VersionTo
  <1>3. NextId(log) \in 1 .. MaxLog
    <2>1. Cardinality(log) \in Nat
      BY FS_CardinalityType DEF RowsInv
    <2>2. QED
      BY <2>1, ArchiveBoundAssumption DEF CommitTx, NextId
  <1>4. row \in LogRow
    BY <1>1, <1>2, <1>3, ArchivedFilesAre DEF LogRow
  <1>5. log' \subseteq LogRow /\ IsFiniteSet(log')
    <2>1. log' = log \cup {row}
      BY DEF CommitTx
    <2>2. QED
      BY <1>4, <2>1, FS_AddElement DEF RowsInv
  <1>6. release' \in [Release -> {"published", "executing", "archived"}]
    BY <1>1 DEF CommitTx, RowsInv
  <1>7. script' \in [Script -> ScriptRow]
    BY DEF CommitTx, RowsInv, ScriptRow
  <1>8. versions' \subseteq VersionRow /\ Counted(versions')
    <2>1. CASE l.bump
      <3>1. versions' = Bumped(versions, VersionTo(l)) /\ NextId(versions) <= MaxVersion
        BY <2>1 DEF CommitTx
      <3>2. QED
        BY <1>2, <2>1, <3>1, BumpedRows DEF RowsInv
    <2>2. CASE ~l.bump
      BY <2>2 DEF CommitTx, RowsInv, Counted
    <2>3. QED
      BY <2>1, <2>2
  <1>9. pom' \in Version \cup {NoVersion} /\ lock' \in Request \cup {NoRequest}
    BY <1>2 DEF CommitTx, RowsInv
  <1>10. req' \in [Request -> Local]
    BY AnswerType DEF CommitTx
  <1>11. QED
    BY <1>5, <1>6, <1>7, <1>8, <1>9, <1>10 DEF RowsInv, Counted

LEMMA AnsweredRows ==
  ASSUME RowsInv, NEW q \in Request, RollbackTx(q) \/ LoseEdit(q)
  PROVE  RowsInv'
  <1>1. req' \in [Request -> Local] /\ UNCHANGED rows /\ lock' \in {lock, NoRequest}
    BY AnswerType DEF RollbackTx, LoseEdit
  <1>2. QED
    BY <1>1 DEF RowsInv, rows, Counted

LEMMA EditRows ==
  ASSUME RowsInv, NEW q \in Request,
         \/ \E s \in Script : BeginEdit(q, s)
         \/ \E c \in Text, g \in Sync : SaveEdit(q, c, g)
  PROVE  RowsInv'
  <1>1. ASSUME NEW s \in Script, BeginEdit(q, s)
        PROVE  RowsInv'
    <2>1. [at |-> "save", script |-> s, row |-> script[s]] \in Local
      BY DEF RowsInv, Local, EditLocal
    <2>2. QED
      BY <1>1, <2>1, GotoType, SameRows DEF BeginEdit
  <1>2. ASSUME NEW c \in Text, NEW g \in Sync, SaveEdit(q, c, g)
        PROVE  RowsInv'
    <2>1. req[q] \in EditLocal
      BY <1>2, ReqShapes DEF SaveEdit, At
    <2>2. [req[q].row EXCEPT !.content = c] \in ScriptRow
      BY <2>1 DEF EditLocal, ScriptRow
    <2>3. script' \in [Script -> ScriptRow] /\ req' \in [Request -> Local]
      BY <1>2, <2>1, <2>2, AnswerType DEF SaveEdit, RowsInv
    <2>4. UNCHANGED <<release, versions, log, pom, lock>>
      BY <1>2 DEF SaveEdit
    <2>5. QED
      BY <2>3, <2>4 DEF RowsInv, Counted
  <1>3. QED
    BY <1>1, <1>2

LEMMA VersionRows ==
  ASSUME RowsInv, NEW q \in Request,
         \/ \E v \in Version, current \in BOOLEAN : CreateVersion(q, v, current)
         \/ \E id \in {0} \cup {v.id : v \in versions}, clears \in BOOLEAN :
              BeginSetCurrent(q, id, clears)
         \/ SetCurrent(q)
  PROVE  RowsInv'
  <1>1. ASSUME NEW v \in Version, NEW current \in BOOLEAN, CreateVersion(q, v, current)
        PROVE  RowsInv'
    <2>1. versions' \subseteq VersionRow /\ Counted(versions')
          /\ NextId(versions) \in 1 .. MaxVersion
      BY <1>1, CreatedRow DEF CreateVersion, RowsInv
    <2>2. [at |-> "setCurrent", id |-> NextId(versions), clears |-> TRUE] \in Local
      BY <2>1 DEF Local, CurrentLocal
    <2>3. req' \in [Request -> Local]
      BY <1>1, <2>2, GotoType DEF CreateVersion, RowsInv
    <2>4. QED
      BY <1>1, <2>1, <2>3 DEF CreateVersion, RowsInv, Counted
  <1>2. ASSUME NEW id \in {0} \cup {v.id : v \in versions}, NEW clears \in BOOLEAN,
               BeginSetCurrent(q, id, clears)
        PROVE  RowsInv'
    <2>1. [at |-> "setCurrent", id |-> id, clears |-> clears] \in Local
      BY ArchiveBoundAssumption DEF RowsInv, VersionRow, Local, CurrentLocal
    <2>2. QED
      BY <1>2, <2>1, GotoType, SameRows DEF BeginSetCurrent
  <1>3. CASE SetCurrent(q)
    <2>1. versions' \subseteq VersionRow /\ Counted(versions')
      <3>1. CASE UNCHANGED versions
        BY <3>1 DEF RowsInv, Counted
      <3>2. CASE versions' = Chosen(req[q].id, req[q].clears)
        <4>1. req[q].clears \in BOOLEAN
          BY <1>3, ReqShapes DEF SetCurrent, At, CurrentLocal
        <4>2. QED
          BY <3>2, <4>1, ChosenRow DEF RowsInv
      <3>3. QED
        BY <1>3, <3>1, <3>2 DEF SetCurrent, Chosen
    <2>2. req' \in [Request -> Local]
      BY <1>3, AnswerType DEF SetCurrent
    <2>3. QED
      BY <1>3, <2>1, <2>2 DEF SetCurrent, RowsInv, Counted
  <1>4. QED
    BY <1>1, <1>2, <1>3

\* Every step keeps the rows and the requests well-formed.
LEMMA RowsPart ==
  ASSUME BaseInv, Next
  PROVE  RowsInv'
  <1> USE DEF BaseInv
  <1>1. ASSUME NEW q \in Request, ArchiveStep(q) \/ OtherStep(q) \/ Ask(q)
        PROVE  RowsInv'
    BY <1>1, ReadRows, CallRows, CommitRows, AnsweredRows, EditRows, VersionRows
    DEF ArchiveStep, OtherStep, Ask
  <1>2. CASE UNCHANGED archiveVars
    BY <1>2, SameRows DEF archiveVars, RowsInv
  <1>3. CASE Crash
    <2>1. req' \in [Request -> Local]
      BY <1>3 DEF Crash, Local
    <2>2. QED
      BY <1>3, <2>1 DEF Crash, RowsInv, rows, Counted
  <1>4. QED
    BY <1>1, <1>2, <1>3
    DEF Next, Step, GitRuns, EndSync, GitConfigured, GitPushedElsewhere

LEMMA InitBase == Init => BaseInv
  <1> SUFFICES ASSUME Init PROVE BaseInv
    OBVIOUS
  <1>1. NoFiles \in Tree
    BY DEF NoFiles, Tree
  <1>2. \A n \in remote : n = 1
    BY DEF Init, GitInit
  <1>3. remote \in SUBSET CommitId
    BY MaxCommitAssumption DEF Init, GitInit, CommitId
  <1>4. Headed(remote)
    <2>1. ASSUME NEW n \in remote PROVE Headed(remote)
      <3>1. \A m \in remote : m <= n
        BY <1>2
      <3>2. QED
        BY <1>3, <3>1, HeadIs
    <2>2. QED
      BY <2>1 DEF Headed
  <1>5. RepoOK
    <2>1. nextCommit \in Nat \ {0} /\ \A n \in local \cup remote : n < nextCommit
      BY DEF Init, GitInit
    <2>2. QED
      BY <1>1, <1>3, <1>4, <2>1 DEF Init, GitInit, RepoOK, Headed
  <1>6. Calls
    BY EndedCall DEF Init, GitInit, Calls
  <1>7. GitInv
    BY <1>5, <1>6 DEF Init, GitInit, GitInv
  <1>8. Counted({}) /\ IsFiniteSet({})
    BY FS_EmptySet DEF Counted
  <1>9. RowsInv
    BY <1>8 DEF Init, RowsInv, Local, ScriptRow
  <1>10. QED
    BY <1>7, <1>9 DEF BaseInv

LEMMA StepBase == BaseInv /\ [Next]_vars => BaseInv'
  <1> SUFFICES ASSUME BaseInv, [Next]_vars PROVE BaseInv'
    OBVIOUS
  <1>1. CASE Next
    BY <1>1, GitPart, RowsPart DEF BaseInv
  <1>2. CASE UNCHANGED vars
    <2>1. UNCHANGED <<gitVars, rows, lock, req>>
      BY <1>2 DEF vars, system, archiveVars
    <2>2. req' \in [Request -> Local]
      BY <2>1 DEF BaseInv, RowsInv
    <2>3. QED
      BY <2>1, <2>2, SameGit, SameRows DEF BaseInv
  <1>3. QED
    BY <1>1, <1>2

\* What a caller, a request and the tables hold is well-formed and numbered in
\* the order it was made, in every reachable state of every behaviour.
THEOREM Invariance == Spec => []BaseInv
  BY InitBase, StepBase, PTL DEF Spec

\* Every reachable state of Archive is well typed.
THEOREM TypeCorrect == Spec => []TypeOK
  <1>1. Init => HistoryOK
    BY DEF Init, HistoryOK
  <1>2. HistoryOK /\ [Next]_vars => HistoryOK'
    BY DEF HistoryOK, Next, Remember, vars
  <1>3. QED
    BY <1>1, <1>2, Invariance, BaseInvTypes, PTL DEF Spec

\* No step takes a commit off the remote: no push of a branch that lacks it, no
\* empty repository made after a clone that failed, no saved configuration.
THEOREM RemoteOnlyGrows == Spec => RemoteGrows
  <1>1. BaseInv /\ [Next]_vars => [remote \subseteq remote']_vars
    BY GitPart DEF Grown
  <1>2. QED
    BY <1>1, Invariance, PTL DEF Spec, RemoteGrows

-----------------------------------------------------------------------------
(* One current version.                                                    *)

\* Who changes the versions and the log.
LEMMA RowsMove ==
  ASSUME [Next]_vars
  PROVE  \/ UNCHANGED <<versions, log>>
         \/ \E q \in Request : CommitTx(q) \/ SetCurrent(q)
         \/ \E q \in Request, v \in Version, current \in BOOLEAN : CreateVersion(q, v, current)
  <1>1. ASSUME NEW q \in Request, ArchiveStep(q)
        PROVE  UNCHANGED <<versions, log>> \/ CommitTx(q)
    BY <1>1 DEF ArchiveStep, ReadVersion, BumpVersion, CallGit, GitReturns, InsertLog,
                RollbackTx, rows
  <1>2. ASSUME NEW q \in Request, OtherStep(q)
        PROVE  UNCHANGED <<versions, log>> \/ SetCurrent(q)
    BY <1>2 DEF OtherStep, SaveEdit, LoseEdit, rows
  <1>3. ASSUME NEW q \in Request, Ask(q)
        PROVE  \/ UNCHANGED <<versions, log>>
               \/ \E v \in Version, current \in BOOLEAN : CreateVersion(q, v, current)
    BY <1>3 DEF Ask, BeginArchive, BeginEdit, BeginSetCurrent, rows
  <1>4. UNCHANGED archiveVars \/ UNCHANGED vars \/ Crash => UNCHANGED <<versions, log>>
    BY DEF archiveVars, vars, system, Crash, rows
  <1>5. QED
    BY <1>1, <1>2, <1>3, <1>4
    DEF Next, Step, GitRuns, EndSync, GitConfigured, GitPushedElsewhere

LEMMA StepCurrent == BaseInv /\ OneCurrent /\ [Next]_vars => OneCurrent'
  <1> SUFFICES ASSUME BaseInv, OneCurrent, [Next]_vars, ~strayed',
                      NEW x \in versions', NEW y \in versions', x.current, y.current
               PROVE  x = y
    BY DEF OneCurrent
  <1>1. RowsInv /\ \A v, w \in versions : v.current /\ w.current => v = w
    BY DEF BaseInv, OneCurrent, Next, Remember, vars
  <1>2. CASE UNCHANGED versions
    BY <1>1, <1>2
  <1>3. ASSUME NEW q \in Request, CommitTx(q), versions' # versions
        PROVE  x = y
    <2>1. /\ versions' = Bumped(versions, VersionTo(req[q])) /\ req[q].bump
          /\ NextId(versions) <= MaxVersion
      BY <1>3 DEF CommitTx
    <2>2. VersionTo(req[q]) \in Version
      BY <1>1, <1>3, <2>1, ReqShapes, VersionAssumption DEF CommitTx, At, VersionTo
    <2>3. QED
      BY <1>1, <2>1, <2>2, BumpedRows DEF RowsInv
  <1>4. ASSUME NEW q \in Request, SetCurrent(q), versions' # versions
        PROVE  x = y
    <2>1. Next
      BY <1>4 DEF vars, system, archiveVars, rows
    <2>2. ~Strays(q)
      BY <2>1 DEF Next, Remember
    <2>3. req[q].clears = TRUE
      BY <1>1, <1>4, <2>2, ReqShapes DEF SetCurrent, At, Strays, CurrentLocal
    <2>4. versions' = Chosen(req[q].id, TRUE)
      BY <1>4, <2>3 DEF SetCurrent, Chosen
    <2>5. QED
      BY <1>1, <2>4, ChosenRow DEF RowsInv
  <1>5. ASSUME NEW q \in Request, NEW v \in Version, NEW current \in BOOLEAN,
               CreateVersion(q, v, current)
        PROVE  x = y
    <2> DEFINE new == [id |-> NextId(versions), version |-> v, current |-> FALSE]
    <2>1. versions' = versions \cup {new} /\ ~new.current
      BY <1>5 DEF CreateVersion
    <2> HIDE DEF new
    <2>2. QED
      BY <1>1, <2>1
  <1>6. QED
    BY <1>2, <1>3, <1>4, <1>5, RowsMove

\* However archives that bump it and versions chosen by hand interleave, a project
\* never has two current versions, unless somebody has chosen one of its versions
\* in the name of another project: VersionRepo.SetCurrent does not look whether
\* they belong together (TC-VER-02).
THEOREM OneVersionIsCurrent == Spec => []OneCurrent
  <1>1. Init => OneCurrent
    BY DEF Init, OneCurrent
  <1>2. QED
    BY <1>1, StepCurrent, Invariance, PTL DEF Spec

-----------------------------------------------------------------------------
(* The work directory, while its users do not overlap.                     *)

\* No path leaves the head of the remote.
Kept == Within(HeadTree(remote), HeadTree(remote)')

LEMMA LocalHeadStays ==
  ASSUME RepoOK, Grown, UNCHANGED local
  PROVE  HeadTree(local)' = HeadTree(local)
  <1>1. HeadTree(local) = (IF local = {} THEN NoFiles ELSE tree'[Head(local)])
    BY HeadTreeStays
  <1>2. QED
    BY <1>1 DEF HeadTree

LEMMA RemoteHeadStays ==
  ASSUME RepoOK, Grown, UNCHANGED remote
  PROVE  HeadTree(remote)' = HeadTree(remote) /\ Kept
  <1>1. HeadTree(remote) = (IF remote = {} THEN NoFiles ELSE tree'[Head(remote)])
    BY HeadTreeStays
  <1>2. QED
    BY <1>1 DEF HeadTree, Kept, Within

LEMMA NothingWithin ==
  ASSUME NEW t
  PROVE  Within(NoFiles, t)
  BY DEF Within, NoFiles

\* A caller that is not active knows of its commit what stays true.
LEMMA BystanderStays ==
  ASSUME WorkInv, Grown, Kept, NEW d \in Call, ~Active(d), call'[d] = call[d]
  PROVE  Faithful(d)'
  <1>1. CASE CallAt(d, "pushed")
    <2>1. call[d].hash \in remote /\ Holds(call[d].hash, call[d].files)
          /\ \A p \in DOMAIN call[d].files : HeadTree(remote)[p] # NoText
      BY <1>1 DEF WorkInv, Faithful
    <2>2. DOMAIN call[d].files \subseteq Path
      BY <1>1, CallShapes, FilesType DEF WorkInv, GitInv, CallAt
    <2>3. tree'[call[d].hash] = tree[call[d].hash]
      BY <2>1 DEF WorkInv, GitInv, RepoOK, Grown
    <2>4. call[d].hash \in remote'
      BY <2>1 DEF Grown
    <2>5. \A p \in DOMAIN call[d].files : HeadTree(remote)'[p] # NoText
      BY <2>1, <2>2 DEF Kept, Within
    <2>6. QED
      BY <1>1, <2>1, <2>3, <2>4, <2>5 DEF Faithful, Holds, CallAt, Active
  <1>2. CASE ~CallAt(d, "pushed")
    BY <1>2 DEF WorkInv, Faithful, CallAt, Active
  <1>3. QED
    BY <1>1, <1>2

\* Cloning a repository, or filling an empty one, loses no path.
LEMMA CloneLayered ==
  ASSUME RepoOK, Clone
  PROVE  Layered' /\ Kept /\ cloned'
  <1>1. Grown
    BY CloneRepo
  <1>2. HeadTree(remote)' = HeadTree(remote) /\ Kept
    BY <1>1, RemoteHeadStays DEF Clone
  <1>3. HeadTree(local)' = HeadTree(remote)' /\ index' = HeadTree(remote)
    BY DEF Clone, HeadTree
  <1>4. Within(index', disk')
    BY <1>3 DEF Clone, Within
  <1>5. Within(index', index')
    BY DEF Within
  <1>6. QED
    BY <1>2, <1>3, <1>4, <1>5 DEF Layered, Clone

LEMMA InitEmptyRepoLayered ==
  ASSUME RepoOK, NEW pushed \in BOOLEAN, InitEmptyRepo(pushed), pushed => remote = {}
  PROVE  Layered' /\ Kept /\ cloned'
  <1> DEFINE n == nextCommit
  <1>1. Grown
    BY InitEmptyRepoRepo
  <1>2. n \in CommitId /\ tree'[n] = NoFiles /\ n \in Nat
    BY DEF InitEmptyRepo, RepoOK
  <1>3. Head({n}) = n
    BY <1>2, HeadIs
  <1>4. local' = {n} /\ HeadTree(local)' = NoFiles /\ index' = NoFiles
    BY <1>2, <1>3 DEF InitEmptyRepo, HeadTree
  <1>5. n \notin remote
    BY <1>2 DEF RepoOK
  <1>6. CASE pushed
    <2>1. HeadTree(remote)' = NoFiles /\ HeadTree(remote) = NoFiles
      BY <1>2, <1>3, <1>6 DEF InitEmptyRepo, HeadTree
    <2>2. QED
      BY <1>4, <2>1, NothingWithin DEF Layered, Kept, InitEmptyRepo
  <1>7. CASE ~pushed
    <2>1. remote' = remote
      BY <1>7 DEF InitEmptyRepo
    <2>2. HeadTree(remote)' = HeadTree(remote) /\ Kept
      BY <1>1, <2>1, RemoteHeadStays
    <2>3. remote' \subseteq local' => HeadTree(remote)' = NoFiles
      BY <1>4, <1>5, <2>1, <2>2 DEF HeadTree
    <2>4. QED
      BY <1>4, <2>2, <2>3, NothingWithin DEF Layered, InitEmptyRepo
  <1>8. QED
    BY <1>6, <1>7

LEMMA HalfCloneLayered ==
  ASSUME RepoOK, HalfClone
  PROVE  Layered' /\ Kept
  <1>1. Grown
    BY HalfCloneRepo
  <1>2. UNCHANGED remote /\ Kept
    BY <1>1, RemoteHeadStays DEF HalfClone
  <1>3. local' = {} /\ index' = NoFiles /\ HeadTree(local)' = NoFiles
    BY DEF HalfClone, HeadTree
  <1>4. remote' \subseteq local' => HeadTree(remote)' = NoFiles
    BY <1>3 DEF HeadTree
  <1>5. QED
    BY <1>2, <1>3, <1>4, NothingWithin DEF Layered

LEMMA UnchangedLayered ==
  ASSUME RepoOK, Layered, UNCHANGED repository
  PROVE  Layered' /\ Kept
  <1>1. Grown /\ UNCHANGED <<local, remote, index, disk>>
    BY UnchangedRepo DEF repository
  <1>2. QED
    BY <1>1, LocalHeadStays, RemoteHeadStays DEF Layered

LEMMA PrepareLayered ==
  ASSUME RepoOK, Layered
  PROVE  /\ Prepare => Layered' /\ Kept /\ cloned'
         /\ PrepareFails => Layered' /\ Kept
  <1>1. Prepare => Layered' /\ Kept /\ cloned'
    BY CloneLayered, InitEmptyRepoLayered DEF Prepare
  <1>2. PrepareFails => Layered' /\ Kept
    BY UnchangedLayered, HalfCloneLayered, InitEmptyRepoLayered DEF PrepareFails
  <1>3. QED
    BY <1>1, <1>2

\* A step of a caller while nobody else is active.
LEMMA OthersStay ==
  ASSUME WorkInv, Grown, Kept, NEW c \in Call, NEW l, Become(c, l), Faithful(c)',
         \A d \in Call \ {c} : ~Active(d)
  PROVE  \A d \in Call : Faithful(d)'
  <1>1. \A d \in Call \ {c} : call'[d] = call[d]
    BY DEF Become, WorkInv, GitInv, Calls
  <1>2. QED
    BY <1>1, BystanderStays

LEMMA NobodyElse ==
  ASSUME WorkInv, Serial', NEW c \in Call, NEW l, Become(c, l), Active(c) \/ Active(c)'
  PROVE  \A d \in Call \ {c} : ~Active(d)
  <1>1. \A d \in Call \ {c} : call'[d] = call[d]
    BY DEF Become, WorkInv, GitInv, Calls
  <1>2. QED
    BY <1>1 DEF WorkInv, Serial, Active

LEMMA BecomeIs ==
  ASSUME WorkInv, NEW c \in Call, NEW l, Become(c, l)
  PROVE  call'[c] = l
  BY DEF WorkInv, GitInv, Calls, Become

\* A caller that fails has nothing to be faithful to.
LEMMA FailStays ==
  ASSUME WorkInv, Grown, Kept, NEW c \in Call, Fail(c), \A d \in Call \ {c} : ~Active(d)
  PROVE  \A d \in Call : Faithful(d)'
  <1>1. call'[c].at = "failed"
    BY BecomeIs DEF Fail
  <1>2. Faithful(c)'
    BY <1>1 DEF Faithful, Active, CallAt
  <1>3. QED
    BY <1>2, OthersStay DEF Fail

LEMMA OpenWork ==
  ASSUME WorkInv, Serial', NEW c \in Call, Open(c), Grown
  PROVE  Layered' /\ Kept /\ \A d \in Call : Faithful(d)'
  <1> USE DEF WorkInv, GitInv
  <1> DEFINE l == [call[c] EXCEPT !.at = "write"]
  <1>1. call[c] \in Writing /\ call[c].todo = DOMAIN call[c].files
    BY CallShapes DEF Open, CallAt, Faithful
  <1>2. CASE Become(c, l)
    <2>1. Layered' /\ Kept /\ cloned'
      <3>1. Become(c, l) => ~Fail(c)
        <4>1. call'[c] = l /\ l.at = "write"
          BY <1>1, <1>2, BecomeIs DEF Writing
        <4>2. Fail(c) => call'[c].at = "failed"
          BY BecomeIs DEF Fail
        <4>3. QED
          BY <4>1, <4>2
      <3>2. (cloned /\ UNCHANGED repository) \/ Prepare
        BY <1>2, <3>1 DEF Open
      <3>3. QED
        BY <3>2, PrepareLayered, UnchangedLayered DEF repository
    <2>2. call'[c] = l /\ l.at = "write" /\ l.files = call[c].files /\ l.todo = call[c].todo
      BY <1>1, <1>2, BecomeIs DEF Writing
    <2>3. Faithful(c)'
      BY <1>1, <2>1, <2>2 DEF Faithful, CallAt, Active
    <2>4. QED
      BY <1>2, <2>1, <2>2, <2>3, NobodyElse, OthersStay DEF Active
  <1>3. CASE Fail(c) /\ ~cloned /\ PrepareFails
    <2>1. Layered' /\ Kept
      BY <1>3, PrepareLayered
    <2>2. \A d \in Call : ~Active(d)
      BY <1>3 DEF Faithful
    <2>3. QED
      BY <1>3, <2>1, <2>2, FailStays
  <1>4. QED
    BY <1>2, <1>3 DEF Open

LEMMA WriteFileWork ==
  ASSUME WorkInv, Serial', NEW c \in Call, WriteFile(c), Grown
  PROVE  Layered' /\ Kept /\ \A d \in Call : Faithful(d)'
  <1> USE DEF WorkInv, GitInv
  <1>1. call[c] \in Writing /\ Active(c) /\ call[c].todo \subseteq DOMAIN call[c].files
    BY CallShapes DEF WriteFile, CallAt, Active, Calls, Ordered
  <1>2. UNCHANGED <<cloned, index, local, remote, tree>>
    BY DEF WriteFile
  <1>3. HeadTree(local)' = HeadTree(local) /\ HeadTree(remote)' = HeadTree(remote) /\ Kept
    BY <1>2, LocalHeadStays, RemoteHeadStays
  <1>4. CASE Fail(c) /\ UNCHANGED disk
    <2>1. Layered'
      BY <1>2, <1>3, <1>4 DEF Layered
    <2>2. QED
      BY <1>1, <1>3, <1>4, <2>1, NobodyElse, FailStays DEF Fail
  <1>5. ASSUME NEW p \in call[c].todo,
               disk' = [disk EXCEPT ![p] = call[c].files[p]],
               Become(c, [call[c] EXCEPT !.todo = @ \ {p}])
        PROVE  Layered' /\ Kept /\ \A d \in Call : Faithful(d)'
    <2> DEFINE l == [call[c] EXCEPT !.todo = @ \ {p}]
    <2>1. p \in Path /\ call[c].files[p] \in Text /\ call[c].files[p] # NoText
          /\ DOMAIN call[c].files \subseteq Path
      BY <1>1, FilesType, NoTextAssumption DEF Writing
    <2>2. disk'[p] = call[c].files[p] /\ \A o \in Path \ {p} : disk'[o] = disk[o]
      BY <1>5, <2>1 DEF RepoOK, Tree
    <2>3. Layered'
      BY <1>2, <1>3, <2>1, <2>2 DEF Layered, Within
    <2>4. call'[c] = l /\ l.at = "write" /\ l.files = call[c].files
          /\ l.todo = call[c].todo \ {p}
      BY <1>1, <1>5, BecomeIs DEF Writing, WriteFile, CallAt
    <2>5. \A o \in DOMAIN call[c].files \ call[c].todo : disk[o] = call[c].files[o]
      BY DEF Faithful, WriteFile
    <2>6. Faithful(c)'
      BY <1>1, <1>2, <2>1, <2>2, <2>4, <2>5 DEF Faithful, CallAt, Active
    <2>7. QED
      BY <1>1, <1>3, <1>5, <2>3, <2>6, NobodyElse, OthersStay
  <1>6. QED
    BY <1>4, <1>5 DEF WriteFile

LEMMA StageWork ==
  ASSUME WorkInv, Serial', NEW c \in Call, Add(c) \/ SetIndex(c), Grown
  PROVE  Layered' /\ Kept /\ \A d \in Call : Faithful(d)'
  <1> USE DEF WorkInv, GitInv
  <1>1. Active(c) /\ cloned
    BY DEF Add, SetIndex, CallAt, Active, Faithful
  <1>2. UNCHANGED <<cloned, disk, local, remote, tree>>
    BY DEF Add, SetIndex, repository
  <1>3. HeadTree(local)' = HeadTree(local) /\ HeadTree(remote)' = HeadTree(remote) /\ Kept
    BY <1>2, LocalHeadStays, RemoteHeadStays
  <1>4. CASE Fail(c) /\ UNCHANGED index
    <2>1. Layered'
      BY <1>2, <1>3, <1>4 DEF Layered
    <2>2. QED
      BY <1>1, <1>3, <1>4, <2>1, NobodyElse, FailStays DEF Fail
  <1>5. CASE Add(c) /\ ~Fail(c)
    <2> DEFINE l == [at |-> "stage", files |-> call[c].files, staged |-> disk]
    <2>1. Become(c, l) /\ UNCHANGED index
      BY <1>5 DEF Add, repository
    <2>2. Layered'
      BY <1>2, <1>3, <2>1 DEF Layered
    <2>3. \A p \in DOMAIN call[c].files : disk[p] = call[c].files[p]
      BY <1>5 DEF Add, Faithful
    <2>4. Faithful(c)'
      BY <1>1, <1>2, <2>1, <2>3, BecomeIs DEF Faithful, CallAt, Active
    <2>5. QED
      BY <1>1, <1>3, <2>1, <2>2, <2>4, NobodyElse, OthersStay
  <1>6. CASE SetIndex(c) /\ index' = call[c].staged
             /\ Become(c, [at |-> "commit", files |-> call[c].files])
    <2>1. index' = disk /\ \A p \in DOMAIN call[c].files : disk[p] = call[c].files[p]
      BY <1>6 DEF SetIndex, Faithful
    <2>2. Layered'
      BY <1>2, <1>3, <2>1 DEF Layered, Within
    <2>3. Faithful(c)'
      BY <1>1, <1>2, <1>6, <2>1, BecomeIs DEF Faithful, CallAt, Active
    <2>4. QED
      BY <1>1, <1>3, <1>6, <2>2, <2>3, NobodyElse, OthersStay
  <1>7. QED
    BY <1>4, <1>5, <1>6 DEF Add, SetIndex, repository

LEMMA CommitWork ==
  ASSUME WorkInv, Serial', NEW c \in Call, Commit(c), Grown
  PROVE  Layered' /\ Kept /\ \A d \in Call : Faithful(d)'
  <1> USE DEF WorkInv, GitInv
  <1>1. Active(c) /\ cloned
    BY DEF Commit, CallAt, Active, Faithful
  <1>2. UNCHANGED <<cloned, disk, index, local, remote>>
    BY DEF Commit
  <1>3. HeadTree(local)' = HeadTree(local) /\ HeadTree(remote)' = HeadTree(remote) /\ Kept
    BY <1>2, LocalHeadStays, RemoteHeadStays
  <1>4. Layered'
    BY <1>2, <1>3 DEF Layered
  <1>5. CASE Fail(c)
    BY <1>1, <1>3, <1>4, <1>5, NobodyElse, FailStays DEF Fail
  <1>6. CASE /\ nextCommit \in CommitId
             /\ tree' = [tree EXCEPT ![nextCommit] = index]
             /\ Become(c, [at |-> "update", files |-> call[c].files,
                           hash |-> nextCommit, parents |-> local])
    <2> DEFINE l == [at |-> "update", files |-> call[c].files,
                     hash |-> nextCommit, parents |-> local]
    <2>1. tree'[nextCommit] = index /\ nextCommit \notin remote
      BY <1>6 DEF RepoOK
    <2>2. \A p \in DOMAIN call[c].files : index[p] = call[c].files[p]
      BY DEF Faithful, Commit
    <2>3. Faithful(c)'
      BY <1>1, <1>2, <1>6, <2>1, <2>2, BecomeIs DEF Faithful, CallAt, Active, Holds
    <2>4. QED
      BY <1>1, <1>3, <1>4, <1>6, <2>3, NobodyElse, OthersStay
  <1>7. QED
    BY <1>5, <1>6 DEF Commit

LEMMA UpdateHeadWork ==
  ASSUME WorkInv, Serial', NEW c \in Call, UpdateHead(c), Grown
  PROVE  Layered' /\ Kept /\ \A d \in Call : Faithful(d)'
  <1> USE DEF WorkInv, GitInv
  <1> DEFINE n == call[c].hash
  <1>1. Active(c) /\ cloned /\ CallAt(c, "update")
    BY DEF UpdateHead, CallAt, Active, Faithful
  <1>2. UNCHANGED <<cloned, disk, index, remote, tree>>
    BY DEF UpdateHead
  <1>3. HeadTree(remote)' = HeadTree(remote) /\ Kept
    BY <1>2, RemoteHeadStays
  <1>4. CASE Fail(c) /\ UNCHANGED local
    <2>1. HeadTree(local)' = HeadTree(local)
      BY <1>4, LocalHeadStays
    <2>2. Layered'
      BY <1>2, <1>3, <1>4, <2>1 DEF Layered
    <2>3. QED
      BY <1>1, <1>3, <1>4, <2>2, NobodyElse, FailStays DEF Fail
  <1>5. CASE /\ local' = call[c].parents \cup {n}
             /\ Become(c, [at |-> "push", files |-> call[c].files, hash |-> n])
    <2>1. call[c].parents = local /\ n \notin remote /\ tree[n] = index
          /\ Holds(n, call[c].files)
      BY <1>1 DEF Faithful
    <2>2. n \in CommitId /\ \A m \in local : m < n
      BY <1>1, <2>1, CallShapes DEF CallAt, Calls, Ordered
    <2>3. local' = local \cup {n} /\ Head(local \cup {n}) = n
      BY <1>5, <2>1, <2>2, YoungestIsHead DEF RepoOK
    <2>4. HeadTree(local)' = index /\ Head(local') = n /\ local' # {}
      BY <1>2, <2>1, <2>3 DEF HeadTree
    <2>5. remote' \subseteq local' => Within(HeadTree(remote)', HeadTree(local)')
      <3>1. remote' \subseteq local' => remote \subseteq local
        BY <1>2, <2>1, <2>3
      <3>2. remote \subseteq local => Within(HeadTree(remote), index)
        BY DEF Layered, Within
      <3>3. QED
        BY <1>3, <2>4, <3>1, <3>2
    <2>6. Layered'
      BY <1>2, <2>4, <2>5 DEF Layered, Within
    <2>7. Faithful(c)'
      BY <1>1, <1>2, <1>5, <2>1, <2>4, BecomeIs DEF Faithful, CallAt, Active, Holds
    <2>8. QED
      BY <1>1, <1>3, <1>5, <2>6, <2>7, NobodyElse, OthersStay
  <1>6. QED
    BY <1>4, <1>5 DEF UpdateHead

LEMMA PushWork ==
  ASSUME WorkInv, Serial', NEW c \in Call, Push(c), Grown
  PROVE  Layered' /\ Kept /\ \A d \in Call : Faithful(d)'
  <1> USE DEF WorkInv, GitInv
  <1> DEFINE l == [call[c] EXCEPT !.at = "pushed"]
  <1>1. Active(c) /\ cloned /\ CallAt(c, "push") /\ call[c] \in Pushing
    BY CallShapes DEF Push, CallAt, Active, Faithful
  <1>2. UNCHANGED <<cloned, disk, index, local, tree>>
    BY DEF Push
  <1>3. HeadTree(local)' = HeadTree(local)
    BY <1>2, LocalHeadStays
  <1>4. Layered' /\ Kept
    <2>1. CASE UNCHANGED remote
      BY <1>2, <1>3, <2>1, RemoteHeadStays DEF Layered
    <2>2. CASE remote' = local /\ remote \subseteq local
      <3>1. HeadTree(remote)' = HeadTree(local)
        BY <1>2, <2>2 DEF HeadTree
      <3>2. Kept
        BY <2>2, <3>1 DEF Layered, Kept
      <3>3. QED
        BY <1>2, <1>3, <3>1, <3>2 DEF Layered, Within
    <2>3. QED
      BY <2>1, <2>2 DEF Push
  <1>5. CASE Fail(c)
    BY <1>1, <1>4, <1>5, NobodyElse, FailStays DEF Fail
  <1>6. CASE remote' = local /\ Become(c, l)
    <2>1. local # {} /\ call[c].hash = Head(local) /\ Holds(call[c].hash, call[c].files)
      BY <1>1 DEF Faithful
    <2>2. call[c].hash \in remote' /\ HeadTree(remote)' = tree[call[c].hash]
      BY <1>2, <1>6, <2>1 DEF HeadTree, RepoOK, Headed
    <2>3. \A p \in DOMAIN call[c].files : HeadTree(remote)'[p] # NoText
      <3>1. \A p \in DOMAIN call[c].files : call[c].files[p] \in Text
        BY <1>1, FilesType DEF Pushing
      <3>2. QED
        BY <2>1, <2>2, <3>1, NoTextAssumption DEF Holds
    <2>4. call'[c] = l /\ l.at = "pushed" /\ l.files = call[c].files /\ l.hash = call[c].hash
      BY <1>1, <1>6, BecomeIs DEF Pushing
    <2>5. Faithful(c)'
      BY <1>2, <2>1, <2>2, <2>3, <2>4 DEF Faithful, CallAt, Active, Holds
    <2>6. QED
      BY <1>1, <1>4, <1>6, <2>5, NobodyElse, OthersStay
  <1>7. QED
    BY <1>5, <1>6 DEF Push

LEMMA GitStepWork ==
  ASSUME WorkInv, Serial', NEW c \in Call, GitStep(c)
  PROVE  Layered' /\ Kept /\ \A d \in Call : Faithful(d)'
  <1>1. Grown
    BY GitStepBase DEF WorkInv, GitInv
  <1>2. QED
    BY <1>1, OpenWork, WriteFileWork, StageWork, CommitWork, UpdateHeadWork, PushWork
    DEF GitStep

\* A commit of somebody else: the branch here is then behind, and refused.
LEMMA OutsiderWork ==
  ASSUME WorkInv, OutsiderPush
  PROVE  Layered' /\ Kept /\ \A d \in Call : Faithful(d)'
  <1> USE DEF WorkInv, GitInv
  <1> DEFINE n == nextCommit
  <1>1. Grown
    BY OutsiderBase
  <1>2. n \in CommitId /\ n \in Nat /\ \A m \in local \cup remote : m < n
    BY DEF OutsiderPush, RepoOK
  <1>3. remote' = remote \cup {n} /\ Head(remote \cup {n}) = n
        /\ tree'[n] = HeadTree(remote)
    BY <1>2, YoungestIsHead DEF OutsiderPush, RepoOK
  <1>4. HeadTree(remote)' = HeadTree(remote)
    BY <1>3 DEF HeadTree
  <1>5. Kept
    BY <1>4 DEF Kept, Within
  <1>6. UNCHANGED <<cloned, disk, index, local, call>>
    BY DEF OutsiderPush
  <1>7. ~(remote' \subseteq local')
    BY <1>2, <1>3, <1>6
  <1>8. Layered'
    BY <1>1, <1>6, <1>7, LocalHeadStays DEF Layered
  <1>9. ASSUME NEW d \in Call PROVE Faithful(d)'
    <2>1. CASE ~Active(d)
      BY <1>1, <1>5, <1>6, <2>1, BystanderStays
    <2>2. CASE Active(d)
      <3>1. call[d].at \in {"update", "push"} =>
              call[d].hash \in CommitId /\ call[d].hash < n
        BY CallShapes DEF Calls, Ordered, Pushing
      <3>2. call[d].at \in {"update", "push"} => tree'[call[d].hash] = tree[call[d].hash]
        BY <1>1, <3>1 DEF Grown
      <3>3. call[d].at = "update" => call[d].hash \notin remote'
        BY <1>2, <1>3, <3>1 DEF Faithful, CallAt
      <3>4. QED
        BY <1>6, <2>2, <3>2, <3>3 DEF Faithful, Active, CallAt, Holds
    <2>3. QED
      BY <2>1, <2>2
  <1>10. QED
    BY <1>5, <1>8, <1>9

LEMMA ReinitWork ==
  ASSUME WorkInv, Serial', ReinitStep
  PROVE  Layered' /\ Kept /\ \A d \in Call : Faithful(d)'
  <1> USE DEF WorkInv, GitInv
  <1>1. Grown /\ UNCHANGED call
    BY ReinitBase DEF ReinitStep, RemoveWorkDir, CloneAgain
  <1>2. \A d \in Call : ~Active(d)
    BY <1>1 DEF ReinitStep, RemoveWorkDir, CloneAgain, Serial, Active
  <1>3. Layered' /\ Kept
    <2>1. CASE RemoveWorkDir
      <3>1. local' = {} /\ index' = NoFiles /\ disk' = NoFiles /\ UNCHANGED remote
        BY <2>1 DEF RemoveWorkDir
      <3>2. HeadTree(local)' = NoFiles /\ Kept
        BY <1>1, <3>1, RemoteHeadStays DEF HeadTree
      <3>3. remote' \subseteq local' => HeadTree(remote)' = NoFiles
        BY <3>1 DEF HeadTree
      <3>4. QED
        BY <3>1, <3>2, <3>3, NothingWithin DEF Layered
    <2>2. CASE CloneAgain
      BY <2>2, PrepareLayered, UnchangedLayered DEF CloneAgain
    <2>3. QED
      BY <2>1, <2>2 DEF ReinitStep
  <1>4. QED
    BY <1>1, <1>2, <1>3, BystanderStays

LEMMA CrashWork ==
  ASSUME WorkInv, GitCrash
  PROVE  Layered' /\ Kept /\ \A d \in Call : Faithful(d)'
  <1>1. Layered' /\ Kept
    BY UnchangedLayered, HalfCloneLayered DEF GitCrash, WorkInv, GitInv
  <1>2. \A d \in Call : call'[d].at = "idle"
    BY DEF GitCrash
  <1>3. QED
    BY <1>1, <1>2 DEF Faithful, Active, CallAt

\* A caller begins or ends while the repository stays.
LEMMA CallerWork ==
  ASSUME WorkInv, UNCHANGED <<repository, reinit>>, NEW c \in Call,
         \/ \E files \in Files : CommitAndPush(c, files)
         \/ Become(c, [at |-> "idle"])
  PROVE  Layered' /\ Kept /\ \A d \in Call : Faithful(d)'
  <1>1. Layered' /\ Kept
    BY UnchangedLayered DEF WorkInv, GitInv
  <1>2. \A d \in Call \ {c} : call'[d] = call[d]
    BY DEF WorkInv, GitInv, Calls, CommitAndPush, Become
  <1>3. \A d \in Call \ {c} : Faithful(d)'
    BY <1>2 DEF WorkInv, repository, Faithful, Active, CallAt, Holds, HeadTree
  <1>4. Faithful(c)'
    <2>1. ASSUME NEW files \in Files, CommitAndPush(c, files)
          PROVE  Faithful(c)'
      <3>1. call'[c] = [at |-> "open", files |-> files, todo |-> DOMAIN files]
        BY <2>1, BecomeIs DEF CommitAndPush
      <3>2. QED
        BY <3>1 DEF Faithful, Active, CallAt
    <2>2. CASE Become(c, [at |-> "idle"])
      <3>1. call'[c] = [at |-> "idle"]
        BY <2>2, BecomeIs
      <3>2. QED
        BY <3>1 DEF Faithful, Active, CallAt
    <2>3. QED
      BY <2>1, <2>2
  <1>5. QED
    BY <1>1, <1>3, <1>4

LEMMA SameWork ==
  ASSUME WorkInv, UNCHANGED gitVars
  PROVE  Layered' /\ Kept /\ \A d \in Call : Faithful(d)'
  <1>1. UNCHANGED <<repository, call>>
    BY DEF gitVars, repository
  <1>2. Layered' /\ Kept
    BY <1>1, UnchangedLayered DEF WorkInv, GitInv
  <1>3. \A d \in Call : Faithful(d)'
    BY <1>1 DEF WorkInv, repository, Faithful, Active, CallAt, Holds, HeadTree
  <1>4. QED
    BY <1>2, <1>3

\* Every step of users that do not overlap keeps the work directory in order.
LEMMA WorkPart ==
  ASSUME SerialInv, Next, Serial'
  PROVE  Layered' /\ Kept /\ \A d \in Call : Faithful(d)'
  <1> USE DEF SerialInv
  <1>1. ASSUME NEW q \in Request, ArchiveStep(q)
        PROVE  Layered' /\ Kept /\ \A d \in Call : Faithful(d)'
    <2>1. CASE CallGit(q)
      BY <2>1, CallGitCalls, CallersAre, CallerWork DEF CallGit
    <2>2. CASE GitReturns(q)
      BY <2>2, CallersAre, CallerWork DEF GitReturns
    <2>3. CASE RollbackTx(q)
      <3>1. CASE Become(q, [at |-> "idle"])
        BY <2>3, <3>1, CallersAre, CallerWork DEF RollbackTx
      <3>2. CASE UNCHANGED call
        BY <2>3, <3>2, SameWork DEF RollbackTx, gitVars, repository
      <3>3. QED
        BY <2>3, <3>1, <3>2 DEF RollbackTx
    <2>4. QED
      BY <1>1, <2>1, <2>2, <2>3, SameWork
      DEF ArchiveStep, ReadVersion, BumpVersion, InsertLog, CommitTx
  <1>2. ASSUME NEW q \in Request, OtherStep(q)
        PROVE  Layered' /\ Kept /\ \A d \in Call : Faithful(d)'
    <2>1. ASSUME NEW c \in Text, NEW g \in Sync, SaveEdit(q, c, g)
          PROVE  Layered' /\ Kept /\ \A d \in Call : Faithful(d)'
      BY <2>1, SaveEditCalls, CallersAre, CallerWork DEF SaveEdit
    <2>2. QED
      BY <1>2, <2>1, SameWork DEF OtherStep, LoseEdit, SetCurrent
  <1>3. ASSUME NEW q \in Request, Ask(q)
        PROVE  Layered' /\ Kept /\ \A d \in Call : Faithful(d)'
    BY <1>3, SameWork DEF Ask, BeginArchive, BeginEdit, CreateVersion, BeginSetCurrent
  <1>4. ASSUME NEW c \in Call, GitRuns(c)
        PROVE  Layered' /\ Kept /\ \A d \in Call : Faithful(d)'
    BY <1>4, GitStepWork DEF GitRuns
  <1>5. ASSUME NEW g \in Sync, EndSync(g)
        PROVE  Layered' /\ Kept /\ \A d \in Call : Faithful(d)'
    BY <1>5, CallersAre, CallerWork DEF EndSync
  <1>6. QED
    BY <1>1, <1>2, <1>3, <1>4, <1>5, ReinitWork, OutsiderWork, CrashWork
    DEF Next, Step, GitConfigured, GitPushedElsewhere, Crash

-----------------------------------------------------------------------------
(* What requests and the log know of it.                                   *)

LEMMA HeadHoldsStays ==
  ASSUME Kept, NEW s \in Script, HeadHolds(s)
  PROVE  HeadHolds(s)'
  <1>1. <<"archived", s>> \in Path
    BY PathAssumption
  <1>2. QED
    BY <1>1 DEF Kept, Within, HeadHolds

\* What a request that does nothing has in hand stays true.
LEMMA InHandStays ==
  ASSUME WorkInv, Grown, Kept, NEW q \in Request, req'[q] = req[q], InHand(q), RowsInv,
         \/ call'[q].at \in {"idle", "failed"}
         \/ call[q].at \notin {"idle", "failed"} /\ call'[q].files = call[q].files
  PROVE  InHand(q)'
  <1> DEFINE l == req[q]
  <1>1. l.at \in {"record", "commit"} => /\ l.hash \in remote'
                                         /\ Holds(l.hash, ArchivedFiles(l.texts))'
                                         /\ DOMAIN l.texts \subseteq Delivered'
    <2> SUFFICES ASSUME l.at \in {"record", "commit"}
                 PROVE  /\ l.hash \in remote' /\ Holds(l.hash, ArchivedFiles(l.texts))'
                        /\ DOMAIN l.texts \subseteq Delivered'
      OBVIOUS
    <2>1. l.hash \in remote /\ Holds(l.hash, ArchivedFiles(l.texts))
          /\ DOMAIN l.texts \subseteq Delivered
      BY DEF InHand
    <2>2. tree'[l.hash] = tree[l.hash] /\ l.hash \in remote'
      BY <2>1 DEF WorkInv, GitInv, RepoOK, Grown
    <2>3. Holds(l.hash, ArchivedFiles(l.texts))'
      <3>1. \A p \in DOMAIN ArchivedFiles(l.texts) :
              tree'[l.hash][p] = ArchivedFiles(l.texts)[p]
        BY <2>1, <2>2 DEF Holds
      <3>2. QED
        BY <3>1 DEF Holds, ArchivedFiles
    <2>4. Delivered \subseteq Delivered'
      BY HeadHoldsStays DEF Delivered
    <2>5. QED
      BY <2>1, <2>2, <2>3, <2>4
  <1>2. QED
    BY <1>1 DEF InHand

\* A step of request q leaves the others what they have.
LEMMA OtherRequestsStay ==
  ASSUME SerialInv, Grown, Kept, NEW q \in Request, NEW l, Goto(q, l), InHand(q)',
         \A p \in Request \ {q} : call'[p] = call[p]
  PROVE  \A p \in Request : InHand(p)'
  <1>1. ASSUME NEW p \in Request \ {q} PROVE InHand(p)'
    <2>1. req'[p] = req[p]
      BY DEF Goto, SerialInv, RowsInv
    <2>2. InHand(p) /\ WorkInv /\ RowsInv
      BY DEF SerialInv
    <2>3. \/ call'[p].at \in {"idle", "failed"}
          \/ call[p].at \notin {"idle", "failed"} /\ call'[p].files = call[p].files
      OBVIOUS
    <2>4. QED
      BY <2>1, <2>2, <2>3, InHandStays
  <1>2. QED
    BY <1>1

LEMMA GotoIs ==
  ASSUME SerialInv, NEW q \in Request, NEW l, Goto(q, l)
  PROVE  req'[q] = l
  BY DEF SerialInv, RowsInv, Goto

\* Outside of an archive there is nothing to have in hand.
LEMMA NothingInHand ==
  ASSUME SerialInv, NEW q \in Request, NEW l, Goto(q, l), l.at \notin ArchivePlaces
  PROVE  InHand(q)'
  BY GotoIs DEF InHand, ArchivePlaces

LEMMA AnsweredInHand ==
  ASSUME SerialInv, Grown, Kept, NEW q \in Request, Answer(q),
         \A p \in Request \ {q} : call'[p] = call[p]
  PROVE  \A p \in Request : InHand(p)'
  <1>1. InHand(q)'
    BY NothingInHand DEF Answer, Idle, ArchivePlaces
  <1>2. QED
    BY <1>1, OtherRequestsStay DEF Answer

LEMMA ReadInHand ==
  ASSUME SerialInv, Grown, Kept, NEW q \in Request,
         \/ \E r \in Release, bump \in BOOLEAN : BeginArchive(q, r, bump)
         \/ ReadVersion(q) \/ BumpVersion(q)
  PROVE  \A p \in Request : InHand(p)'
  <1>1. \A p \in Request : call'[p] = call[p]
    BY DEF BeginArchive, ReadVersion, BumpVersion, gitVars
  <1>2. ASSUME NEW r \in Release, NEW bump \in BOOLEAN, BeginArchive(q, r, bump)
        PROVE  \A p \in Request : InHand(p)'
    <2> DEFINE l == [at |-> "version", release |-> r, bump |-> bump,
                     texts |-> [s \in Linked[r] |-> script[s].content]]
    <2>1. req'[q] = l
      BY <1>2, GotoIs DEF BeginArchive
    <2>2. InHand(q)'
      BY <2>1 DEF InHand
    <2>3. QED
      BY <1>1, <1>2, <2>2, OtherRequestsStay DEF BeginArchive
  <1>3. CASE ReadVersion(q)
    <2>1. PICK v \in IF CurrentVersions = {} THEN {NoVersion} ELSE CurrentVersions :
            Goto(q, [at |-> IF req[q].bump THEN "begin" ELSE "git",
                     release |-> req[q].release, texts |-> req[q].texts,
                     bump |-> req[q].bump, from |-> v])
      BY <1>3 DEF ReadVersion
    <2>2. req'[q].at \in {"begin", "git"} /\ req'[q].texts = req[q].texts
          /\ req'[q].release = req[q].release
      BY <2>1, GotoIs
    <2>3. DOMAIN req[q].texts = Linked[req[q].release]
      BY <1>3 DEF SerialInv, InHand, ReadVersion, At, ArchivePlaces
    <2>4. InHand(q)'
      BY <2>2, <2>3 DEF InHand
    <2>5. QED
      BY <1>1, <2>1, <2>4, OtherRequestsStay
  <1>4. CASE BumpVersion(q)
    <2>1. req[q].at = "begin" /\ Goto(q, [req[q] EXCEPT !.at = "git"])
      BY <1>4 DEF BumpVersion, At
    <2>2. req'[q].at = "git" /\ req'[q].texts = req[q].texts
          /\ req'[q].release = req[q].release
      BY <2>1, ReqShapes, GotoIs DEF SerialInv
    <2>3. DOMAIN req[q].texts = Linked[req[q].release]
      BY <2>1 DEF SerialInv, InHand, ArchivePlaces
    <2>4. InHand(q)'
      BY <2>2, <2>3 DEF InHand
    <2>5. QED
      BY <1>1, <2>1, <2>4, OtherRequestsStay
  <1>5. QED
    BY <1>2, <1>3, <1>4

LEMMA CallInHand ==
  ASSUME SerialInv, Grown, Kept, NEW q \in Request,
         CallGit(q) \/ GitReturns(q) \/ InsertLog(q)
  PROVE  \A p \in Request : InHand(p)'
  <1>1. CASE CallGit(q)
    <2>1. req[q].at = "git" /\ Goto(q, [req[q] EXCEPT !.at = "pushing"])
      BY <1>1 DEF CallGit, At
    <2>2. req'[q].at = "pushing" /\ req'[q].texts = req[q].texts
          /\ req'[q].release = req[q].release
      BY <2>1, ReqShapes, GotoIs DEF SerialInv
    <2>3. DOMAIN req[q].texts = Linked[req[q].release]
      BY <2>1 DEF SerialInv, InHand, ArchivePlaces
    <2>4. call'[q].files = ArchivedFiles(req[q].texts)
          /\ \A p \in Request \ {q} : call'[p] = call[p]
      BY <1>1, CallersAre
      DEF CallGit, CommitAndPush, Become, SerialInv, WorkInv, GitInv, Calls
    <2>5. InHand(q)'
      BY <2>2, <2>3, <2>4 DEF InHand, ArchivedFiles
    <2>6. QED
      BY <2>1, <2>4, <2>5, OtherRequestsStay
  <1>2. CASE GitReturns(q)
    <2> DEFINE l == [at |-> "record", release |-> req[q].release, texts |-> req[q].texts,
                     bump |-> req[q].bump, from |-> req[q].from, hash |-> call[q].hash]
               files == ArchivedFiles(req[q].texts)
    <2>1. req[q].at = "pushing" /\ CallAt(q, "pushed") /\ Goto(q, l)
          /\ Become(q, [at |-> "idle"]) /\ UNCHANGED repository
      BY <1>2 DEF GitReturns, At
    <2>2. call[q].files = files /\ DOMAIN req[q].texts = Linked[req[q].release]
      BY <2>1 DEF SerialInv, InHand, CallAt, ArchivePlaces
    <2>3. /\ call[q].hash \in remote /\ Holds(call[q].hash, files)
          /\ \A p \in DOMAIN files : HeadTree(remote)[p] # NoText
      BY <2>1, <2>2, CallersAre DEF SerialInv, WorkInv, Faithful
    <2>4. \A p \in Request \ {q} : call'[p] = call[p]
      BY <2>1, CallersAre DEF Become, SerialInv, WorkInv, GitInv, Calls
    <2>5. req[q].texts \in Texts
      BY <2>1, ReqShapes DEF SerialInv
    <2>6. DOMAIN req[q].texts \subseteq Delivered
      <3>1. ASSUME NEW s \in DOMAIN req[q].texts PROVE s \in Delivered
        <4>1. s \in Script /\ <<"archived", s>> \in DOMAIN files
          BY <2>5, ArchivedFilesAre DEF Texts
        <4>2. QED
          BY <2>3, <4>1 DEF Delivered, HeadHolds
      <3>2. QED
        BY <3>1
    <2>7. Delivered' = Delivered /\ remote' = remote /\ tree' = tree
      BY <2>1 DEF repository, Delivered, HeadHolds, HeadTree
    <2>8. req'[q] = l
      BY <2>1, GotoIs
    <2>9. /\ req'[q].hash \in remote'
           /\ DOMAIN req'[q].texts = Linked[req'[q].release]
           /\ DOMAIN req'[q].texts \subseteq Delivered'
      BY <2>2, <2>3, <2>6, <2>7, <2>8
    <2>10. Holds(req[q].hash, ArchivedFiles(req[q].texts))'
      <3>1. req'[q].texts = req[q].texts /\ req'[q].hash = call[q].hash
        BY <2>8
      <3>2. QED
        BY <2>3, <2>7, <3>1 DEF Holds, ArchivedFiles
    <2>11. InHand(q)'
      BY <2>8, <2>9, <2>10 DEF InHand
    <2>12. QED
      BY <2>1, <2>4, <2>11, OtherRequestsStay
  <1>3. CASE InsertLog(q)
    <2>1. req[q].at = "record" /\ Goto(q, [req[q] EXCEPT !.at = "commit"])
          /\ UNCHANGED gitVars
      BY <1>3 DEF InsertLog, At
    <2>2. /\ req'[q].at = "commit" /\ req'[q].texts = req[q].texts
          /\ req'[q].release = req[q].release /\ req'[q].hash = req[q].hash
      BY <2>1, ReqShapes, GotoIs DEF SerialInv
    <2>3. InHand(q)
      BY DEF SerialInv
    <2>4. UNCHANGED <<remote, tree, call>> /\ Delivered' = Delivered
      BY <2>1 DEF gitVars, Delivered, HeadHolds, HeadTree
    <2>5. InHand(q)'
      BY <2>1, <2>2, <2>3, <2>4 DEF InHand, ArchivePlaces, Holds, ArchivedFiles
    <2>6. QED
      BY <2>1, <2>4, <2>5, OtherRequestsStay
  <1>4. QED
    BY <1>1, <1>2, <1>3

\* A step of CommitAndPush keeps the files it was called with, or fails.
LEMMA GitStepFiles ==
  ASSUME WorkInv, NEW c \in Call, GitStep(c), NEW p \in Call
  PROVE  \/ call'[p].at \in {"idle", "failed"}
         \/ call[p].at \notin {"idle", "failed"} /\ call'[p].files = call[p].files
  <1>1. CASE p = c
    <2>1. call[c].at \notin {"idle", "failed"}
      BY DEF GitStep, Open, WriteFile, Add, SetIndex, Commit, UpdateHead, Push, CallAt
    <2>2. CASE Fail(c)
      BY <1>1, <2>2, BecomeIs DEF Fail
    <2>3. CASE Open(c) /\ ~Fail(c)
      <3>1. call[c] \in Writing /\ Become(c, [call[c] EXCEPT !.at = "write"])
        BY <2>3, CallShapes DEF Open, CallAt, WorkInv, GitInv
      <3>2. QED
        BY <1>1, <2>1, <3>1, BecomeIs DEF Writing
    <2>4. CASE WriteFile(c) /\ ~Fail(c)
      <3>1. call[c] \in Writing
            /\ \E o \in call[c].todo : Become(c, [call[c] EXCEPT !.todo = @ \ {o}])
        BY <2>4, CallShapes DEF WriteFile, CallAt, WorkInv, GitInv
      <3>2. QED
        BY <1>1, <2>1, <3>1, BecomeIs DEF Writing
    <2>5. CASE Add(c) /\ ~Fail(c)
      BY <1>1, <2>1, <2>5, BecomeIs DEF Add
    <2>6. CASE SetIndex(c) /\ ~Fail(c)
      BY <1>1, <2>1, <2>6, BecomeIs DEF SetIndex
    <2>7. CASE Commit(c) /\ ~Fail(c)
      BY <1>1, <2>1, <2>7, BecomeIs DEF Commit
    <2>8. CASE UpdateHead(c) /\ ~Fail(c)
      BY <1>1, <2>1, <2>8, BecomeIs DEF UpdateHead
    <2>9. CASE Push(c) /\ ~Fail(c)
      <3>1. call[c] \in Pushing /\ Become(c, [call[c] EXCEPT !.at = "pushed"])
        BY <2>9, CallShapes DEF Push, CallAt, WorkInv, GitInv
      <3>2. QED
        BY <1>1, <2>1, <3>1, BecomeIs DEF Pushing
    <2>10. QED
      BY <2>2, <2>3, <2>4, <2>5, <2>6, <2>7, <2>8, <2>9 DEF GitStep
  <1>2. CASE p # c
    <2>1. call'[p] = call[p]
      BY <1>2 DEF GitStep, Open, WriteFile, Add, SetIndex, Commit, UpdateHead, Push,
                  Become, Fail, WorkInv, GitInv, Calls
    <2>2. QED
      BY <2>1
  <1>3. QED
    BY <1>1, <1>2

\* No step takes from a request what it has in hand.
LEMMA InHandPart ==
  ASSUME SerialInv, Next, Grown, Kept
  PROVE  \A p \in Request : InHand(p)'
  <1>1. ASSUME NEW q \in Request, ArchiveStep(q)
        PROVE  \A p \in Request : InHand(p)'
    <2>1. CASE CommitTx(q)
      BY <2>1, AnsweredInHand DEF CommitTx, gitVars
    <2>2. CASE RollbackTx(q)
      <3>1. \A p \in Request \ {q} : call'[p] = call[p]
        BY <2>2, CallersAre DEF RollbackTx, Become, SerialInv, WorkInv, GitInv, Calls
      <3>2. QED
        BY <2>2, <3>1, AnsweredInHand DEF RollbackTx
    <2>3. QED
      BY <1>1, <2>1, <2>2, ReadInHand, CallInHand DEF ArchiveStep
  <1>2. ASSUME NEW q \in Request, OtherStep(q)
        PROVE  \A p \in Request : InHand(p)'
    <2>1. ASSUME NEW c \in Text, NEW g \in Sync, SaveEdit(q, c, g)
          PROVE  \A p \in Request : InHand(p)'
      <3>1. \A p \in Request \ {q} : call'[p] = call[p]
        BY <2>1, CallersAre
        DEF SaveEdit, CommitAndPush, Become, SerialInv, WorkInv, GitInv, Calls
      <3>2. QED
        BY <2>1, <3>1, AnsweredInHand DEF SaveEdit
    <2>2. CASE LoseEdit(q) \/ SetCurrent(q)
      BY <2>2, AnsweredInHand DEF LoseEdit, SetCurrent, gitVars
    <2>3. QED
      BY <1>2, <2>1, <2>2 DEF OtherStep
  <1>3. ASSUME NEW q \in Request, Ask(q)
        PROVE  \A p \in Request : InHand(p)'
    <2>1. ASSUME NEW s \in Script, BeginEdit(q, s)
          PROVE  \A p \in Request : InHand(p)'
      BY <2>1, NothingInHand, OtherRequestsStay DEF BeginEdit, gitVars, ArchivePlaces
    <2>2. ASSUME NEW v \in Version, NEW current \in BOOLEAN, CreateVersion(q, v, current)
          PROVE  \A p \in Request : InHand(p)'
      <3>1. CASE UNCHANGED req
        <4>1. UNCHANGED <<req, gitVars>>
          BY <2>2, <3>1 DEF CreateVersion
        <4>2. ASSUME NEW p \in Request PROVE InHand(p)'
          <5>1. InHand(p) /\ WorkInv /\ RowsInv /\ req'[p] = req[p] /\ call'[p] = call[p]
            BY <4>1 DEF SerialInv, gitVars
          <5>2. QED
            BY <5>1, InHandStays
        <4>3. QED
          BY <4>2
      <3>2. CASE Goto(q, [at |-> "setCurrent", id |-> NextId(versions), clears |-> TRUE])
        BY <2>2, <3>2, NothingInHand, OtherRequestsStay
        DEF CreateVersion, gitVars, ArchivePlaces
      <3>3. QED
        BY <2>2, <3>1, <3>2 DEF CreateVersion
    <2>3. ASSUME NEW id, NEW clears \in BOOLEAN, BeginSetCurrent(q, id, clears)
          PROVE  \A p \in Request : InHand(p)'
      BY <2>3, NothingInHand, OtherRequestsStay DEF BeginSetCurrent, gitVars, ArchivePlaces
    <2>4. QED
      BY <1>3, <2>1, <2>2, <2>3, ReadInHand DEF Ask
  <1>4. ASSUME UNCHANGED req,
               \A p \in Request : \/ call'[p].at \in {"idle", "failed"}
                                  \/ /\ call[p].at \notin {"idle", "failed"}
                                     /\ call'[p].files = call[p].files
        PROVE  \A p \in Request : InHand(p)'
    <2>1. ASSUME NEW p \in Request PROVE InHand(p)'
      <3>1. InHand(p) /\ WorkInv /\ RowsInv /\ req'[p] = req[p]
        BY <1>4 DEF SerialInv
      <3>2. QED
        BY <1>4, <3>1, InHandStays
    <2>2. QED
      BY <2>1
  <1>5. ASSUME NEW c \in Call, GitRuns(c)
        PROVE  \A p \in Request : InHand(p)'
    BY <1>4, <1>5, GitStepFiles, CallersAre DEF GitRuns, archiveVars, SerialInv
  <1>6. ASSUME NEW g \in Sync, EndSync(g)
        PROVE  \A p \in Request : InHand(p)'
    <2>1. \A p \in Request : call'[p] = call[p]
      BY <1>6, CallersAre DEF EndSync, Become, SerialInv, WorkInv, GitInv, Calls
    <2>2. QED
      BY <1>4, <1>6, <2>1 DEF EndSync, archiveVars
  <1>7. CASE GitConfigured \/ GitPushedElsewhere
    <2>1. UNCHANGED <<req, call>>
      BY <1>7 DEF GitConfigured, GitPushedElsewhere, ReinitStep, RemoveWorkDir, CloneAgain,
                  OutsiderPush, archiveVars
    <2>2. QED
      BY <1>4, <2>1
  <1>8. CASE Crash
    <2>1. \A p \in Request : req'[p] = Idle
      BY <1>8 DEF Crash
    <2>2. QED
      BY <2>1 DEF InHand, Idle, ArchivePlaces
  <1>9. QED
    BY <1>1, <1>2, <1>3, <1>5, <1>6, <1>7, <1>8 DEF Next, Step

\* What the log says stays true, and a row is added only for what is on the remote.
LEMMA LogPart ==
  ASSUME SerialInv, Next, Grown
  PROVE  LoggedIsPushed'
  <1>1. ASSUME NEW l \in log
        PROVE  l.hash \in remote' /\ Holds(l.hash, l.files)'
    <2>1. l.hash \in remote /\ Holds(l.hash, l.files)
      BY DEF SerialInv, LoggedIsPushed
    <2>2. tree'[l.hash] = tree[l.hash] /\ l.hash \in remote'
      BY <2>1 DEF SerialInv, WorkInv, GitInv, RepoOK, Grown
    <2>3. QED
      BY <2>1, <2>2 DEF Holds
  <1>2. CASE UNCHANGED log
    BY <1>1, <1>2 DEF LoggedIsPushed
  <1>3. ASSUME NEW q \in Request, CommitTx(q)
        PROVE  LoggedIsPushed'
    <2> DEFINE row == [id |-> NextId(log), release |-> req[q].release,
                       hash |-> req[q].hash, bump |-> req[q].bump,
                       from |-> req[q].from, to |-> VersionTo(req[q]),
                       files |-> ArchivedFiles(req[q].texts)]
    <2>1. log' = log \cup {row} /\ UNCHANGED <<remote, tree>>
      BY <1>3 DEF CommitTx, gitVars
    <2>2. row.hash \in remote /\ Holds(row.hash, row.files)
      BY <1>3 DEF CommitTx, At, SerialInv, InHand
    <2>3. row.hash \in remote' /\ \A p \in DOMAIN row.files : tree'[row.hash][p] = row.files[p]
      BY <2>1, <2>2 DEF Holds
    <2> HIDE DEF row
    <2>4. QED
      BY <1>1, <2>1, <2>3 DEF LoggedIsPushed, Holds
  <1>4. QED
    BY <1>2, <1>3
    DEF Next, Step, ArchiveStep, OtherStep, Ask, ReadVersion, BumpVersion, CallGit, GitReturns,
        InsertLog, RollbackTx, SaveEdit, LoseEdit, SetCurrent, BeginArchive, BeginEdit,
        CreateVersion, BeginSetCurrent, GitRuns, EndSync, GitConfigured,
        GitPushedElsewhere, Crash, rows, archiveVars

LEMMA EmptyRemote == Init => HeadTree(remote) = NoFiles
  <1> SUFFICES ASSUME Init, remote # {} PROVE HeadTree(remote) = NoFiles
    BY DEF HeadTree
  <1>1. Head(remote) \in CommitId
    BY InitBase DEF BaseInv, GitInv, RepoOK, Headed
  <1>2. QED
    BY <1>1 DEF Init, GitInit, HeadTree

LEMMA InitSerial == Init => SerialInv
  <1> SUFFICES ASSUME Init PROVE SerialInv
    OBVIOUS
  <1>1. GitInv /\ RowsInv
    BY InitBase DEF BaseInv
  <1>2. \A c \in Call : call[c].at = "idle"
    BY DEF Init, GitInit
  <1>3. Serial /\ \A c \in Call : Faithful(c)
    BY <1>2 DEF Init, GitInit, Serial, Active, Faithful, CallAt
  <1>4. Layered
    <2>1. HeadTree(local) = NoFiles /\ HeadTree(remote) = NoFiles /\ index = NoFiles
      BY EmptyRemote DEF Init, GitInit, HeadTree
    <2>2. QED
      BY <2>1, NothingWithin DEF Layered
  <1>5. \A q \in Request : InHand(q)
    BY DEF Init, InHand, Idle, ArchivePlaces
  <1>6. LoggedIsPushed
    BY DEF Init, LoggedIsPushed
  <1>7. QED
    BY <1>1, <1>3, <1>4, <1>5, <1>6 DEF SerialInv, WorkInv

LEMMA StepSerial == SerialInv /\ [Next /\ Serial']_vars => SerialInv'
  <1> SUFFICES ASSUME SerialInv, [Next /\ Serial']_vars PROVE SerialInv'
    OBVIOUS
  <1>1. BaseInv /\ BaseInv'
    BY StepBase DEF SerialInv, WorkInv, BaseInv
  <1>2. CASE Next /\ Serial'
    <2>1. Layered' /\ Kept /\ \A c \in Call : Faithful(c)'
      BY <1>2, WorkPart
    <2>2. Grown
      BY <1>1, <1>2, GitPart
    <2>3. \A q \in Request : InHand(q)'
      BY <1>2, <2>1, <2>2, InHandPart
    <2>4. LoggedIsPushed'
      BY <1>2, <2>2, LogPart
    <2>5. QED
      BY <1>1, <1>2, <2>1, <2>3, <2>4 DEF SerialInv, WorkInv, BaseInv
  <1>3. CASE UNCHANGED vars
    <2>1. UNCHANGED <<gitVars, log, req>>
      BY <1>3 DEF vars, system, archiveVars, rows
    <2>2. Layered' /\ \A c \in Call : Faithful(c)'
      BY <2>1, SameWork DEF SerialInv
    <2>3. Serial'
      BY <2>1 DEF SerialInv, WorkInv, Serial, Active, gitVars
    <2>4. \A q \in Request : InHand(q)'
      BY <2>1 DEF SerialInv, InHand, gitVars, Holds, Delivered, HeadHolds, HeadTree
    <2>5. LoggedIsPushed'
      BY <2>1 DEF SerialInv, LoggedIsPushed, gitVars, Holds
    <2>6. QED
      BY <1>1, <2>2, <2>3, <2>4, <2>5 DEF SerialInv, WorkInv, BaseInv
  <1>4. QED
    BY <1>2, <1>3

\* While users of the work directory do not overlap: what the work directory, its
\* callers and the requests that wait for them know of the remote is true.
THEOREM SerialInvariance == SerialSpec => []SerialInv
  BY InitSerial, StepSerial, PTL DEF SerialSpec

\* Then every commit that archive_log names is on the remote with the texts that
\* were archived, whatever failed before it and whoever else pushes (TC-ARCH-01).
THEOREM LoggedArePushed == SerialSpec => []LoggedIsPushed
  <1>1. SerialInv => LoggedIsPushed
    BY DEF SerialInv
  <1>2. QED
    BY <1>1, SerialInvariance, PTL

-----------------------------------------------------------------------------
(* Archive implements Delivery.                                            *)

LEMMA RefinesInit == Init => Delivery!Init
  <1> SUFFICES ASSUME Init PROVE Delivery!Init
    OBVIOUS
  <1>1. \A s \in Script : ~HeadHolds(s)
    BY EmptyRemote, PathAssumption DEF HeadHolds, NoFiles
  <1>2. log = {}
    BY DEF Init
  <1>3. QED
    BY <1>1, <1>2 DEF Delivery!Init

LEMMA RefinesStep ==
  SerialInv /\ [Next /\ Serial']_vars
    => [Delivery!Next]_<<Delivered, {l.release : l \in log}>>
  <1> SUFFICES ASSUME SerialInv, [Next /\ Serial']_vars
               PROVE  [Delivery!Next]_<<Delivered, {l.release : l \in log}>>
    OBVIOUS
  <1> DEFINE recorded == {l.release : l \in log}
  <1>1. CASE Next /\ Serial'
    <2>1. Kept
      BY <1>1, WorkPart
    <2>2. Delivered \subseteq Delivered' /\ Delivered' \subseteq Script
      BY <2>1, HeadHoldsStays DEF Delivered
    <2>3. CASE UNCHANGED log
      <3>1. Delivered' = Delivered \cup Delivered' /\ recorded' = recorded
        BY <2>2, <2>3
      <3>2. Delivery!Deliver
        BY <2>2, <3>1 DEF Delivery!Deliver, Delivered
      <3>3. QED
        BY <3>2 DEF Delivery!Next
    <2>4. ASSUME NEW q \in Request, CommitTx(q)
          PROVE  Delivery!Next
      <3>1. UNCHANGED gitVars /\ At(q, "commit")
        BY <2>4 DEF CommitTx
      <3>2. Delivered' = Delivered
        BY <3>1 DEF gitVars, Delivered, HeadHolds, HeadTree
      <3>3. {l.release : l \in log'} = {l.release : l \in log} \cup {req[q].release}
        <4> DEFINE row == [id |-> NextId(log), release |-> req[q].release,
                           hash |-> req[q].hash, bump |-> req[q].bump,
                           from |-> req[q].from, to |-> VersionTo(req[q]),
                           files |-> ArchivedFiles(req[q].texts)]
        <4>1. log' = log \cup {row} /\ row.release = req[q].release
          BY <2>4 DEF CommitTx
        <4> HIDE DEF row
        <4>2. QED
          BY <4>1
      <3>4. req[q].release \in Release
        BY <3>1, ReqShapes DEF At, SerialInv
      <3>5. Linked[req[q].release] \subseteq Delivered
        BY <3>1 DEF At, SerialInv, InHand, ArchivePlaces
      <3>6. {s \in Script : HeadHolds(s)'} = {s \in Script : HeadHolds(s)}
        BY <3>2 DEF Delivered
      <3>7. Linked[req[q].release] \subseteq {s \in Script : HeadHolds(s)}
        BY <3>5 DEF Delivered
      <3>8. QED
        BY <3>3, <3>4, <3>6, <3>7 DEF Delivery!Next, Delivery!Record
    <2>5. QED
      BY <1>1, <2>3, <2>4
      DEF Next, Step, ArchiveStep, OtherStep, Ask, ReadVersion, BumpVersion, CallGit,
          GitReturns, InsertLog, RollbackTx, SaveEdit, LoseEdit, SetCurrent,
          BeginArchive, BeginEdit, CreateVersion, BeginSetCurrent, GitRuns, EndSync,
          GitConfigured, GitPushedElsewhere, Crash, rows, archiveVars
  <1>2. CASE UNCHANGED vars
    BY <1>2 DEF vars, system, gitVars, archiveVars, rows, Delivered, HeadHolds, HeadTree
  <1>3. QED
    BY <1>1, <1>2

\* While users of the work directory do not overlap, archiving delivers: a release
\* is recorded as archived only when all its scripts are in the head of the
\* remote, and no step of anyone takes a delivered script away.
THEOREM ArchiveDelivers == SerialSpec => DeliverySpec
  <1>1. Init => Delivery!Init
    BY RefinesInit
  <1>2. SerialInv /\ [Next /\ Serial']_vars
          => [Delivery!Next]_<<{s \in Script : HeadHolds(s)}, {l.release : l \in log}>>
    BY RefinesStep DEF Delivered
  <1>3. QED
    BY <1>1, <1>2, SerialInvariance, PTL DEF SerialSpec, DeliverySpec, Delivery!Spec

-----------------------------------------------------------------------------
(* Bumps that keep apart.                                                  *)

\* Only a request that reads the version comes to hold one to bump, and it keeps
\* the one it read.
LEMMA BumpingMoves ==
  ASSUME RowsInv, [Next]_vars, NEW p \in Request, Bumping(p)'
  PROVE  \/ Bumping(p) /\ req'[p].from = req[p].from
         \/ ReadVersion(p)
  <1> DEFINE Done == (Bumping(p) /\ req'[p].from = req[p].from) \/ ReadVersion(p)
             InTx(l) == l.at \in {"begin", "git", "pushing", "record", "commit"}
  <1>1. ASSUME NEW q \in Request, NEW l, Goto(q, l) PROVE req'[p] = IF p = q THEN l ELSE req[p]
    BY <1>1 DEF RowsInv, Goto
  <1>2. ASSUME UNCHANGED req[p] PROVE Done
    BY <1>2 DEF Bumping
  <1>3. ASSUME NEW q \in Request, NEW l, Goto(q, l), ~InTx(l) PROVE Done
    BY <1>1, <1>2, <1>3 DEF Bumping
  <1>4. ASSUME NEW q \in Request, NEW l, Goto(q, l), InTx(req[q]),
               l.bump = req[q].bump, l.from = req[q].from
        PROVE  Done
    BY <1>1, <1>2, <1>4 DEF Bumping
  <1>5. ASSUME NEW q \in Request, BumpVersion(q) \/ CallGit(q) PROVE Done
    <2>1. req[q] \in [at : {"begin", "git", "pushing"}, release : Release,
                      texts : Texts, bump : BOOLEAN, from : Version \cup {NoVersion}]
      BY <1>5, ReqShapes DEF BumpVersion, CallGit, At
    <2>2. PICK place : Goto(q, [req[q] EXCEPT !.at = place])
      BY <1>5 DEF BumpVersion, CallGit
    <2>3. /\ [req[q] EXCEPT !.at = place].bump = req[q].bump
          /\ [req[q] EXCEPT !.at = place].from = req[q].from
      BY <2>1
    <2>4. QED
      BY <1>4, <2>1, <2>2, <2>3
  <1>6. ASSUME NEW q \in Request, GitReturns(q) PROVE Done
    BY <1>4, <1>6 DEF GitReturns, At
  <1>7. ASSUME NEW q \in Request, InsertLog(q) PROVE Done
    <2>1. req[q] \in [at : {"record", "commit"}, release : Release, texts : Texts,
                      bump : BOOLEAN, from : Version \cup {NoVersion}, hash : CommitId]
      BY <1>7, ReqShapes DEF InsertLog, At
    <2>2. /\ [req[q] EXCEPT !.at = "commit"].bump = req[q].bump
          /\ [req[q] EXCEPT !.at = "commit"].from = req[q].from
      BY <2>1
    <2>3. QED
      BY <1>4, <1>7, <2>1, <2>2 DEF InsertLog
  <1>8. ASSUME NEW q \in Request, ReadVersion(q) PROVE Done
    BY <1>1, <1>2, <1>8 DEF ReadVersion
  <1>9. ASSUME NEW q \in Request, CommitTx(q) \/ RollbackTx(q) \/ OtherStep(q) PROVE Done
    <2>1. Answer(q)
      BY <1>9 DEF CommitTx, RollbackTx, OtherStep, SaveEdit, LoseEdit, SetCurrent
    <2>2. QED
      BY <1>3, <2>1 DEF Answer, Idle
  <1>10. ASSUME NEW q \in Request, Ask(q) PROVE Done
    <2>1. ASSUME NEW r \in Release, NEW bump \in BOOLEAN, BeginArchive(q, r, bump) PROVE Done
      BY <1>3, <2>1 DEF BeginArchive
    <2>2. ASSUME NEW s \in Script, BeginEdit(q, s) PROVE Done
      BY <1>3, <2>2 DEF BeginEdit
    <2>3. ASSUME NEW v, NEW current \in BOOLEAN, CreateVersion(q, v, current) PROVE Done
      BY <1>2, <1>3, <2>3 DEF CreateVersion
    <2>4. ASSUME NEW id, NEW clears \in BOOLEAN, BeginSetCurrent(q, id, clears) PROVE Done
      BY <1>3, <2>4 DEF BeginSetCurrent
    <2> HIDE DEF Done
    <2>5. QED
      BY <1>10, <2>1, <2>2, <2>3, <2>4 DEF Ask
  <1>11. ASSUME UNCHANGED req PROVE Done
    BY <1>2, <1>11
  <1>12. ASSUME Crash PROVE Done
    BY <1>12 DEF Crash, Bumping, Idle
  <1> HIDE DEF Done
  <1>13. ASSUME NEW q \in Request, ArchiveStep(q) PROVE Done
    BY <1>5, <1>6, <1>7, <1>8, <1>9, <1>13 DEF ArchiveStep
  <1>14. UNCHANGED archiveVars \/ UNCHANGED vars => UNCHANGED req
    BY DEF archiveVars, vars, system
  <1>15. (\E c \in Call : GitRuns(c)) \/ (\E g \in Sync : EndSync(g))
           \/ GitConfigured \/ GitPushedElsewhere => UNCHANGED archiveVars
    BY DEF EndSync, GitRuns, GitConfigured, GitPushedElsewhere
  <1>16. Done
    <2>1. CASE \E q \in Request : ArchiveStep(q) \/ OtherStep(q) \/ Ask(q)
      BY <1>9, <1>10, <1>13, <2>1
    <2>2. QED
      BY <1>11, <1>12, <1>14, <1>15, <2>1 DEF Next, Step
  <1>17. QED
    BY <1>16 DEF Done

\* The rows after an archive with a bump.
LEMMA BumpedAre ==
  ASSUME BaseInv, NEW v \in Version, NextId(versions) <= MaxVersion
  PROVE  LET b == Bumped(versions, v)
         IN /\ \A w \in b : w.current => w.version = v
            /\ \E w \in b : w.current
            /\ Cardinality(versions) + 1 <= Cardinality(b)
            /\ Cardinality(versions) \in Nat /\ Cardinality(b) \in Nat
  <1> DEFINE b == Bumped(versions, v)
             new == [id |-> NextId(versions), version |-> v, current |-> TRUE]
  <1>1. versions \subseteq VersionRow /\ Counted(versions)
    BY DEF BaseInv, RowsInv
  <1>2. Counted(b)
    BY <1>1, BumpedRows
  <1>3. new \in b /\ \A w \in versions : [w EXCEPT !.current = FALSE].current = FALSE
    BY <1>1 DEF Bumped, VersionRow
  <1>4. \A w \in b : w.current => w = new
    BY <1>3 DEF Bumped
  <1>5. new.id <= Cardinality(b)
    <2> HIDE DEF b, new
    <2>1. QED
      BY <1>2, <1>3 DEF Counted
  <1>6. Cardinality(versions) \in Nat /\ Cardinality(b) \in Nat
    <2> HIDE DEF b
    <2>1. QED
      BY <1>1, <1>2, FS_CardinalityType DEF Counted
  <1> HIDE DEF b
  <1>7. QED
    BY <1>3, <1>4, <1>5, <1>6 DEF NextId, b

\* The archive that bumps next holds the current version, also after the step
\* in which it reads it.
LEMMA HeldIsCurrent ==
  ASSUME BaseInv, NEW nth, BumpedInTurn(nth), NEW b, AtBump(nth, b), [Next]_vars,
         NEW p \in Request, Bumping(p)'
  PROVE  req'[p].from = nth[b]
  <1> RowsInv
    BY DEF BaseInv
  <1>1. CASE Bumping(p) /\ req'[p].from = req[p].from
    BY <1>1 DEF AtBump
  <1>2. CASE ReadVersion(p)
    <2>1. PICK v \in IF CurrentVersions = {} THEN {NoVersion} ELSE CurrentVersions :
            req'[p].from = v
      BY <1>2 DEF ReadVersion, Goto, RowsInv
    <2>2. CASE CurrentVersions = {}
      <3>1. ~ \E w \in versions : w.current
        BY <2>2 DEF CurrentVersions
      <3>2. nth[b] = NoVersion
        BY <3>1 DEF AtBump, BumpedInTurn
      <3>3. QED
        BY <2>1, <2>2, <3>2
    <2>3. CASE CurrentVersions # {}
      <3>1. PICK w \in versions : w.current /\ v = w.version
        BY <2>1, <2>3 DEF CurrentVersions
      <3>2. QED
        BY <2>1, <3>1 DEF AtBump
    <2>4. QED
      BY <2>2, <2>3
  <1>3. QED
    BY <1>1, <1>2, BumpingMoves

\* No two archives of the log have bumped to the same version.
LogDiffers == \A l, m \in log : l.bump /\ m.bump /\ l # m => l.to # m.to

\* An archive with a bump moves on to a version the log does not have.
LEMMA CommitClimbs ==
  ASSUME BaseInv, BumpsApart, LogDiffers, [Next]_vars,
         NEW nth, BumpedInTurn(nth),
         \A m, n \in 1 .. MaxVersion : nth[m] = nth[n] => m = n,
         NEW b \in 0 .. Cardinality(versions), AtBump(nth, b),
         NEW q \in Request, CommitTx(q)
  PROVE  LogDiffers' /\ Climbed(nth)'
  <1> DEFINE row == [id |-> NextId(log), release |-> req[q].release, hash |-> req[q].hash,
                     bump |-> req[q].bump, from |-> req[q].from, to |-> VersionTo(req[q]),
                     files |-> ArchivedFiles(req[q].texts)]
  <1>1. log' = log \cup {row}
    BY DEF CommitTx
  <1>2. req[q] \in [at : {"record", "commit"}, release : Release, texts : Texts,
                    bump : BOOLEAN, from : Version \cup {NoVersion}, hash : CommitId]
    BY ReqShapes DEF BaseInv, CommitTx, At
  <1>3. row.bump = req[q].bump /\ row.to = VersionTo(req[q])
    OBVIOUS
  <1> HIDE DEF row
  <1>4. CASE ~req[q].bump
    <2>1. UNCHANGED versions
      BY <1>4 DEF CommitTx
    <2>2. AtBump(nth, b)'
      BY <1>1, <1>3, <1>4, <2>1, HeldIsCurrent DEF AtBump
    <2>3. LogDiffers'
      BY <1>1, <1>3, <1>4 DEF LogDiffers
    <2>4. QED
      BY <2>1, <2>2, <2>3 DEF Climbed
  <1>5. CASE req[q].bump
    <2>1. Bumping(q)
      BY <1>2, <1>5 DEF Bumping
    <2>2. VersionTo(req[q]) = Bump[nth[b]]
      BY <1>5, <2>1 DEF AtBump, VersionTo
    <2>3. versions' = Bumped(versions, VersionTo(req[q])) /\ NextId(versions) <= MaxVersion
      BY <1>5 DEF CommitTx
    <2>4. VersionTo(req[q]) \in Version
      BY <1>2, <1>5, VersionAssumption DEF VersionTo
    <2>5. /\ \A w \in versions' : w.current => w.version = VersionTo(req[q])
          /\ \E w \in versions' : w.current
          /\ Cardinality(versions) + 1 <= Cardinality(versions')
          /\ Cardinality(versions) \in Nat /\ Cardinality(versions') \in Nat
      BY <2>3, <2>4, BumpedAre
    <2>6. b + 1 \in 1 .. MaxVersion /\ b + 1 \in 0 .. Cardinality(versions')
          /\ 1 .. b \subseteq 1 .. MaxVersion /\ b + 1 \notin 1 .. b /\ 1 .. b \subseteq 1 .. (b + 1)
      BY <2>3, <2>5, ArchiveBoundAssumption DEF NextId
    <2>7. VersionTo(req[q]) = nth[b + 1]
      <3>1. nth[b + 1] = Bump[nth[(b + 1) - 1]] /\ (b + 1) - 1 = b
        BY <2>5, <2>6 DEF BumpedInTurn
      <3>2. QED
        BY <2>2, <3>1
    <2>8. \A l \in log : l.bump => l.to # row.to
      BY <1>3, <2>6, <2>7 DEF AtBump
    <2>9. LogDiffers'
      BY <1>1, <2>8 DEF LogDiffers
    <2>10. ASSUME NEW p \in Request PROVE ~Bumping(p)'
      <3>1. req'[p] = IF p = q THEN Idle ELSE req[p]
        BY DEF CommitTx, Answer, Goto, BaseInv, RowsInv
      <3>2. p # q => ~Bumping(p)
        BY <2>1 DEF BumpsApart
      <3>3. QED
        BY <3>1, <3>2 DEF Bumping, Idle
    <2>11. \A l \in log' : l.bump => \E k \in 1 .. (b + 1) : l.to = nth[k]
      BY <1>1, <1>3, <2>6, <2>7 DEF AtBump
    <2>12. AtBump(nth, b + 1)'
      BY <2>5, <2>7, <2>10, <2>11 DEF AtBump
    <2>13. QED
      BY <2>6, <2>9, <2>12 DEF Climbed
  <1>6. QED
    BY <1>2, <1>4, <1>5

\* A version made by hand is not current.
LEMMA CreationClimbs ==
  ASSUME BaseInv, [Next]_vars, NEW nth, BumpedInTurn(nth),
         NEW b \in 0 .. Cardinality(versions), AtBump(nth, b),
         NEW q \in Request, NEW v \in Version, NEW current \in BOOLEAN,
         CreateVersion(q, v, current)
  PROVE  Climbed(nth)'
  <1> DEFINE new == [id |-> NextId(versions), version |-> v, current |-> FALSE]
  <1>1. versions' = versions \cup {new} /\ UNCHANGED log
    BY DEF CreateVersion
  <1>2. ~new.current
    OBVIOUS
  <1> HIDE DEF new
  <1>3. AtBump(nth, b)'
    BY <1>1, <1>2, HeldIsCurrent DEF AtBump
  <1>4. IsFiniteSet(versions) /\ IsFiniteSet(versions')
    BY <1>1, FS_AddElement DEF BaseInv, RowsInv, Counted
  <1>5. /\ Cardinality(versions) \in Nat /\ Cardinality(versions') \in Nat
        /\ Cardinality(versions) <= Cardinality(versions')
    BY <1>1, <1>4, FS_Subset, FS_CardinalityType
  <1>6. b \in 0 .. Cardinality(versions')
    BY <1>5
  <1>7. QED
    BY <1>3, <1>6 DEF Climbed

LEMMA StepClimbs ==
  ASSUME NEW nth, BumpedInTurn(nth),
         \A m, n \in 1 .. MaxVersion : nth[m] = nth[n] => m = n,
         BaseInv, BumpsApart, LogDiffers, Climbed(nth), [Next]_vars
  PROVE  LogDiffers' /\ Climbed(nth)'
  <1>1. PICK b \in 0 .. Cardinality(versions) : AtBump(nth, b)
    BY DEF Climbed
  <1>2. CASE UNCHANGED <<versions, log>>
    <2>1. AtBump(nth, b)'
      BY <1>1, <1>2, HeldIsCurrent DEF AtBump
    <2>2. QED
      BY <1>2, <2>1 DEF LogDiffers, Climbed
  <1>3. ASSUME NEW q \in Request, CommitTx(q) PROVE LogDiffers' /\ Climbed(nth)'
    BY <1>1, <1>3, CommitClimbs
  <1>4. ASSUME NEW q \in Request, NEW v \in Version, NEW current \in BOOLEAN,
               CreateVersion(q, v, current)
        PROVE  LogDiffers' /\ Climbed(nth)'
    <2>1. LogDiffers'
      BY <1>4 DEF CreateVersion, LogDiffers
    <2>2. QED
      BY <1>1, <1>4, <2>1, CreationClimbs
  <1>5. \A q \in Request : ~SetCurrent(q)
    BY DEF BumpsApart, SetCurrent
  <1>6. QED
    BY <1>2, <1>3, <1>4, <1>5, RowsMove

\* Every archive that bumps gives the project a version that no archive gave it
\* before (TC-ARCH-01), until two of them have held a version to bump at once or
\* somebody has made one current by hand, and as long as bumpPatchVersion itself
\* does not come round.
THEOREM BumpsAlwaysDiffer == BumpsClimb => (Spec => []BumpsDiffer)
  <1> SUFFICES ASSUME NEW CONSTANT nth, BumpedInTurn(nth),
                      \A m, n \in 1 .. MaxVersion : nth[m] = nth[n] => m = n
               PROVE  Spec => []BumpsDiffer
    BY DEF BumpsClimb
  <1> DEFINE Climbing == ~mixed => LogDiffers /\ Climbed(nth)
  <1>1. Init => Climbing
    <2> SUFFICES ASSUME Init PROVE LogDiffers /\ Climbed(nth)
      OBVIOUS
    <2>1. \A q \in Request : req[q].at = "idle"
      BY DEF Init, Idle
    <2>2. LogDiffers /\ AtBump(nth, 0)
      BY <2>1 DEF Bumping, LogDiffers, AtBump, Init, BumpedInTurn
    <2>3. Cardinality(versions) = 0
      BY FS_EmptySet DEF Init
    <2>4. QED
      BY <2>2, <2>3 DEF Climbed
  <1>2. BaseInv /\ Climbing /\ [Next]_vars => Climbing'
    <2> SUFFICES ASSUME BaseInv, Climbing, [Next]_vars, ~mixed'
                 PROVE  LogDiffers' /\ Climbed(nth)'
      OBVIOUS
    <2>1. ~mixed /\ LogDiffers /\ Climbed(nth)
      <3>1. ~mixed
        BY DEF Next, Remember, vars
      <3>2. QED
        BY <3>1
    <2>2. CASE Next
      <3>1. BumpsApart
        BY <2>2 DEF Next, Remember
      <3>2. QED
        BY <2>1, <3>1, StepClimbs
    <2>3. CASE UNCHANGED vars
      <3>1. UNCHANGED <<versions, log, req>>
        BY <2>3 DEF vars, system, archiveVars, rows
      <3>2. QED
        BY <2>1, <3>1 DEF LogDiffers, Climbed, AtBump, Bumping
    <2>4. QED
      BY <2>2, <2>3
  <1>3. Climbing => BumpsDiffer
    BY DEF LogDiffers, BumpsDiffer
  <1>4. QED
    BY <1>1, <1>2, <1>3, InitBase, StepBase, PTL DEF Spec
=============================================================================
