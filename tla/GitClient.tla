------------------------------ MODULE GitClient ------------------------------
(***************************************************************************)
(* GoGitClient (internal/git/go_git_client.go): one work directory that    *)
(* archives, the goroutines that sync pending scripts, and a saved Git     *)
(* configuration share without a lock.                                     *)
(*                                                                         *)
(* A step is one file written, or one read or write of the repository: the *)
(* calls into go-git that read something first and write it later, Add and *)
(* Commit, take two.  A commit's parents are what its branch held, so a    *)
(* branch is the set of the commits it reaches, its head the youngest; tree *)
(* is what the paths hold in a commit.  Files are never deleted one by one, *)
(* and nobody rewrites the remote branch by other means.                   *)
(***************************************************************************)
EXTENDS Integers, FiniteSets

CONSTANTS
  Call,        \* callers of CommitAndPush that may be active at once
  Path,        \* paths in the repository
  Text,        \* what a file may contain
  NoText,      \* the path does not exist
  MayFail,     \* may the network, the disk or the process fail?
  Outsiders,   \* do other people push to the remote?
  MayReinit,   \* may a Git configuration be saved while others work?
  MaxCommit    \* bound: commits ever created

ASSUME NoTextAssumption == NoText \notin Text
ASSUME GitFlagAssumption == {MayFail, Outsiders, MayReinit} \subseteq BOOLEAN
ASSUME MaxCommitAssumption == MaxCommit \in Nat

VARIABLES
  cloned,      \* does the work directory hold a repository?
  disk,        \* the files of the work directory
  index,       \* the staged files
  objects,     \* commits stored in the work directory
  local,       \* commits of the local branch
  remote,      \* commits of the remote branch
  tree,        \* the files of every commit
  nextCommit,
  call,        \* local state of every CommitAndPush
  reinit       \* local state of the handler that runs InitRepo

gitVars == <<cloned, disk, index, objects, local, remote, tree, nextCommit, call, reinit>>
repository == <<cloned, disk, index, objects, local, remote, tree, nextCommit>>

-----------------------------------------------------------------------------
CommitId == 1 .. MaxCommit
Tree     == [Path -> Text \cup {NoText}]
Files    == UNION {[paths -> Text] : paths \in SUBSET Path}
NoFiles  == [p \in Path |-> NoText]

\* The map of files; then the files not written yet, the files go-git saw when
\* it began to add, the commit it has stored, the hash it has returned.
Writing   == [at : {"open", "write"}, files : Files, todo : SUBSET Path]
Staging   == [at : {"stage"}, files : Files, staged : Tree]
Committing == [at : {"commit"}, files : Files]
              \cup [at : {"update"}, files : Files, hash : CommitId,
                    parents : SUBSET CommitId]
Pushing   == [at : {"push", "pushed"}, files : Files, hash : CommitId]
Ended     == [at : {"idle", "failed"}]
CallLocal == Writing \cup Staging \cup Committing \cup Pushing \cup Ended

GitTypeOK ==
  /\ cloned \in BOOLEAN
  /\ disk \in Tree /\ index \in Tree
  /\ {objects, local, remote} \subseteq SUBSET CommitId
  /\ tree \in [CommitId -> Tree]
  /\ nextCommit \in Nat \ {0}
  /\ call \in [Call -> CallLocal]
  /\ reinit \in {"idle", "removed"}

\* The remote is empty or has a commit that holds none of our files; the work
\* directory is not there yet.
GitInit ==
  /\ cloned = FALSE
  /\ disk = NoFiles /\ index = NoFiles
  /\ objects = {} /\ local = {}
  /\ \/ remote = {} /\ nextCommit = 1
     \/ remote = {1} /\ nextCommit = 2 /\ MaxCommit >= 1
  /\ tree = [n \in CommitId |-> NoFiles]
  /\ call = [c \in Call |-> [at |-> "idle"]]
  /\ reinit = "idle"

Head(branch) == CHOOSE n \in branch : \A m \in branch : m <= n
HeadTree(branch) == IF branch = {} THEN NoFiles ELSE tree[Head(branch)]

\* The repository can be read: its branch names no commit that was removed.
Sound == cloned /\ local \subseteq objects

CallAt(c, place) == call[c].at = place
Become(c, to) == call' = [call EXCEPT ![c] = to]
Fail(c) == Become(c, [at |-> "failed"])

\* PlainClone: the remote's files; files written before it stay on disk.
Clone ==
  /\ cloned' = TRUE
  /\ local' = remote
  /\ objects' = objects \cup remote
  /\ index' = HeadTree(remote)
  /\ disk' = [p \in Path |-> IF HeadTree(remote)[p] = NoText THEN disk[p]
                                                           ELSE HeadTree(remote)[p]]
  /\ UNCHANGED <<remote, tree, nextCommit>>

\* initEmptyRepo: a repository with one commit of a README, pushed or not.
InitEmptyRepo(pushed) ==
  /\ nextCommit \in CommitId
  /\ cloned' = TRUE
  /\ local' = {nextCommit}
  /\ objects' = objects \cup {nextCommit}
  /\ index' = NoFiles
  /\ nextCommit' = nextCommit + 1
  /\ tree' = [tree EXCEPT ![nextCommit] = NoFiles]
  /\ remote' = IF pushed THEN {nextCommit} ELSE remote
  /\ UNCHANGED disk

\* A clone, or an empty remote filled: the work directory is ready.
Prepare ==
  \/ remote # {} /\ Clone
  \/ remote = {} /\ InitEmptyRepo(TRUE)

\* PlainClone cleans up after a failure only a directory that was empty; else,
\* or if the process dies in it, a repository without a branch is left.
HalfClone ==
  /\ cloned' = TRUE
  /\ local' = {}
  /\ index' = NoFiles
  /\ UNCHANGED <<disk, objects, remote, tree, nextCommit>>

\* A failure of the network: nothing is left; half a clone is; or the error
\* read like an empty remote and the first commit was not pushed, or was, but
\* its answer was lost.
PrepareFails ==
  /\ MayFail
  /\ \/ UNCHANGED repository
     \/ disk # NoFiles /\ HalfClone
     \/ InitEmptyRepo(FALSE)
     \/ remote = {} /\ InitEmptyRepo(TRUE)

-----------------------------------------------------------------------------
(* CommitAndPush.                                                          *)

\* The call is made with a map of files.
CommitAndPush(c, files) ==
  Become(c, [at |-> "open", files |-> files, todo |-> DOMAIN files])

\* 1. Open the repository, or clone it, or fill an empty remote.
Open(c) ==
  /\ CallAt(c, "open")
  /\ \/ /\ cloned
        /\ Become(c, [call[c] EXCEPT !.at = "write"])
        /\ UNCHANGED repository
     \/ /\ ~cloned
        /\ Prepare
        /\ Become(c, [call[c] EXCEPT !.at = "write"])
     \/ /\ ~cloned
        /\ PrepareFails
        /\ Fail(c)
  /\ UNCHANGED reinit

\* 2. Write the files, in the order in which Go ranges over a map: any.
WriteFile(c) ==
  /\ CallAt(c, "write")
  /\ \E p \in call[c].todo :
       \/ /\ disk' = [disk EXCEPT ![p] = call[c].files[p]]
          /\ Become(c, [call[c] EXCEPT !.todo = @ \ {p}])
       \/ /\ MayFail
          /\ Fail(c)
          /\ UNCHANGED disk
  /\ UNCHANGED <<cloned, index, objects, local, remote, tree, nextCommit, reinit>>

\* 3. git add . looks at the whole work directory, others' files included ...
Add(c) ==
  /\ CallAt(c, "write")
  /\ call[c].todo = {}
  /\ \/ /\ Sound
        /\ Become(c, [at |-> "stage", files |-> call[c].files, staged |-> disk])
     \/ (~Sound \/ MayFail) /\ Fail(c)
  /\ UNCHANGED <<repository, reinit>>

\* ... and then writes the index.
SetIndex(c) ==
  /\ CallAt(c, "stage")
  /\ \/ /\ index' = call[c].staged
        /\ Become(c, [at |-> "commit", files |-> call[c].files])
     \/ /\ ~cloned \/ MayFail
        /\ Fail(c)
        /\ UNCHANGED index
  /\ UNCHANGED <<cloned, disk, objects, local, remote, tree, nextCommit, reinit>>

\* 4. Commit stores the index with the head as its parent; a commit that
\* changes nothing may be refused ...
Commit(c) ==
  /\ CallAt(c, "commit")
  /\ \/ /\ nextCommit \in CommitId
        /\ tree' = [tree EXCEPT ![nextCommit] = index]
        /\ objects' = objects \cup {nextCommit}
        /\ nextCommit' = nextCommit + 1
        /\ Become(c, [at |-> "update", files |-> call[c].files,
                      hash |-> nextCommit, parents |-> local])
     \/ /\ ~cloned \/ index = HeadTree(local) \/ MayFail
        /\ Fail(c)
        /\ UNCHANGED <<tree, objects, nextCommit>>
  /\ UNCHANGED <<cloned, disk, index, local, remote, reinit>>

\* ... and then moves the branch, wherever it is by now.
UpdateHead(c) ==
  /\ CallAt(c, "update")
  /\ \/ /\ cloned
        /\ local' = call[c].parents \cup {call[c].hash}
        /\ Become(c, [at |-> "push", files |-> call[c].files, hash |-> call[c].hash])
     \/ /\ ~cloned \/ MayFail
        /\ Fail(c)
        /\ UNCHANGED local
  /\ UNCHANGED <<cloned, disk, index, objects, remote, tree, nextCommit, reinit>>

\* Fault: a refused push is taken for one that was not needed.
PushAnyway(c) ==
  /\ CallAt(c, "push")
  /\ remote' = IF Sound /\ remote \subseteq local THEN local ELSE remote
  /\ Become(c, [call[c] EXCEPT !.at = "pushed"])
  /\ UNCHANGED <<cloned, disk, index, objects, local, tree, nextCommit, reinit>>

\* Fault: the push is forced.
ForcePush(c) ==
  /\ CallAt(c, "push")
  /\ Sound
  /\ remote' = local
  /\ Become(c, [call[c] EXCEPT !.at = "pushed"])
  /\ UNCHANGED <<cloned, disk, index, objects, local, tree, nextCommit, reinit>>

\* 5. Push the branch, whatever it holds.  One that equals the remote's is
\* "already up-to-date"; one that lacks a commit of the remote is refused.
\* The answer of the remote may be lost.
Push(c) ==
  /\ CallAt(c, "push")
  /\ \/ /\ Sound
        /\ remote \subseteq local
        /\ remote' = local
        /\ \/ Become(c, [call[c] EXCEPT !.at = "pushed"])
           \/ MayFail /\ Fail(c)
     \/ /\ ~Sound \/ MayFail \/ ~(remote \subseteq local)
        /\ Fail(c)
        /\ UNCHANGED remote
  /\ UNCHANGED <<cloned, disk, index, objects, local, tree, nextCommit, reinit>>

GitStep(c) == \/ Open(c) \/ WriteFile(c) \/ Add(c) \/ SetIndex(c)
              \/ Commit(c) \/ UpdateHead(c) \/ Push(c)

\* Someone else commits to the remote; nobody here ever pulls.
OutsiderPush ==
  /\ Outsiders
  /\ nextCommit \in CommitId
  /\ remote' = remote \cup {nextCommit}
  /\ tree' = [tree EXCEPT ![nextCommit] = HeadTree(remote)]
  /\ nextCommit' = nextCommit + 1
  /\ UNCHANGED <<cloned, disk, index, objects, local, call, reinit>>

-----------------------------------------------------------------------------
(* InitRepo, as ajaxSaveGitConfig calls it for the same repository.        *)

RemoveWorkDir ==
  /\ MayReinit
  /\ reinit = "idle"
  /\ reinit' = "removed"
  /\ cloned' = FALSE
  /\ disk' = NoFiles /\ index' = NoFiles
  /\ objects' = {} /\ local' = {}
  /\ UNCHANGED <<remote, tree, nextCommit, call>>

\* The clone fails if a CommitAndPush has cloned in the meantime.
CloneAgain ==
  /\ reinit = "removed"
  /\ reinit' = "idle"
  /\ \/ ~cloned /\ (Prepare \/ PrepareFails)
     \/ cloned /\ UNCHANGED repository
  /\ UNCHANGED call

ReinitStep == RemoveWorkDir \/ CloneAgain

-----------------------------------------------------------------------------
\* The process dies.  What is on disk stays as it is, a clone half made too.
GitCrash ==
  /\ \/ UNCHANGED repository
     \/ /\ ~cloned
        /\ reinit = "removed" \/ \E c \in Call : CallAt(c, "open")
        /\ HalfClone
  /\ call' = [c \in Call |-> [at |-> "idle"]]
  /\ reinit' = "idle"

-----------------------------------------------------------------------------
\* The code has no lock; this says that its users happened not to need one.
Active(c) == call[c].at \in {"write", "stage", "commit", "update", "push"}
Serial ==
  /\ \A c, d \in Call : Active(c) /\ Active(d) => c = d
  /\ reinit = "removed" => \A c \in Call : ~Active(c)

Holds(n, files) == \A p \in DOMAIN files : tree[n][p] = files[p]

\* git.go:13, "stages the given files ..., pushes to the configured remote, and
\* returns the resulting commit hash": the remote has the commit whose hash is
\* returned, and the commit has the files.
HashIsPushed == \A c \in Call :
  CallAt(c, "pushed") => call[c].hash \in remote /\ Holds(call[c].hash, call[c].files)
=============================================================================
