------------------------------ MODULE MCServer ------------------------------
(***************************************************************************)
(* Server for TLC.  The users of a behaviour are administrators of Git,    *)
(* administrators of datasources, or visitors; what these three kinds do   *)
(* touches different variables, but for the process, which starts and      *)
(* stops under all of them.                                                *)
(***************************************************************************)
EXTENDS Server, TLC

VARIABLE users

Symmetry == Permutations(Request) \cup Permutations(Repo)

MCInit == Init /\ users \in {"git", "datasource", "visitor"}

\* Tokens are drawn in order; who administers Git or datasources logs in once.
Enter ==
  \E t \in Session :
    /\ \A u \in Session : u < t => u \in given
    /\ users = "visitor" \/ session = {}
    /\ Login(t)

GitNext(q) ==
  \/ \E ajax \in BOOLEAN, r \in Repo, t \in Typed : ReadSettings(q, ajax, r, t)
  \/ ConfigStep(q)
  \/ \E via \in {"git", "archiver"} : BeginPush(q, via)
  \/ PushStep(q)

DatasourceNext(q) ==
  \/ \E d \in Datasource, new \in Typed :
       CreateDatasource(q, d, new) \/ ReadDatasource(q, d, new)
  \/ UpdateDatasource(q)

MCNext ==
  /\ \/ Start \/ Stop \/ EnableAES \/ Enter
     \/ \E q \in Request, t \in Session : Arrive(q, t)
     \/ \E q \in Request : LoadUser(q) \/ Leave(q)
     \/ users = "visitor" /\ \E t \in Session : Logout(t)
     \/ users = "git" /\ \E q \in Request : GitNext(q)
     \/ users = "datasource" /\ \E q \in Request : DatasourceNext(q)
  /\ UNCHANGED users
MCSpec == MCInit /\ [][MCNext]_<<vars, users>>

\* What the page sends: it saves with ajaxSaveGitConfig only.
PageNext ==
  /\ \/ Start \/ Stop \/ EnableAES \/ Enter
     \/ \E q \in Request, t \in Session : Arrive(q, t)
     \/ \E q \in Request : LoadUser(q) \/ ConfigStep(q)
     \/ \E q \in Request, r \in Repo, t \in Typed : ReadSettings(q, TRUE, r, t)
  /\ UNCHANGED users
PageSpec == MCInit /\ [][PageNext]_<<vars, users>>
=============================================================================
