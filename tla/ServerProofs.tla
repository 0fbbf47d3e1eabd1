---------------------------- MODULE ServerProofs ----------------------------
(* Theorems about Server, for every value of its constants.                *)
EXTENDS Server, TLAPS

-----------------------------------------------------------------------------
(* Type correctness.                                                       *)

Local == {Idle} \cup Visit \cup SaveWork \cup PushWork \cup EditWork
ClientPlaces  == {"init", "clone", "setGit", "setArchiver"}
InstallPlaces == {"setGit", "setArchiver"}

\* Nobody is served while the process is down.
Down == ~up => \A q \in Request : At(q, "idle")

\* What is called is there: the client a handler looked for, and the repository
\* of the configuration that is saved.
Served ==
  \A q \in Request :
    /\ At(q, "call") => InUse(req[q].via) \in Client
    /\ At(q, "save") => req[q].row.repo \in Repo

\* The place of a request tells the shape of its local state.
LEMMA Shapes ==
  ASSUME TypeOK, NEW q \in Request
  PROVE  /\ At(q, "user") => req[q].cookie \in Session
         /\ At(q, "save") =>
              req[q] \in [at : {"save"}, ajax : BOOLEAN, row : Config, plain : Value,
                          solo : BOOLEAN]
         /\ req[q].at \in ClientPlaces =>
              req[q] \in [at : ClientPlaces, client : Client, solo : BOOLEAN]
         /\ At(q, "call") =>
              req[q] \in [at : {"call"}, via : {"git", "archiver"}]
         /\ At(q, "pushing") =>
              req[q] \in [at : {"pushing"}, client : Client, calm : BOOLEAN]
         /\ At(q, "update") => req[q] \in EditWork
  <1>1. req[q] \in Local
    BY DEF TypeOK, Local
  <1>2. QED
    BY <1>1 DEF At, Local, Idle, Visit, SaveWork, PushWork, EditWork, ClientPlaces

\* Moving a request to a well-formed local state keeps req well-formed.
LEMMA GotoType ==
  ASSUME TypeOK, NEW q \in Request, NEW local \in Local, Goto(q, local)
  PROVE  req' \in [Request -> Local]
  BY DEF TypeOK, Goto, Local

LEMMA AnswerType ==
  ASSUME TypeOK, NEW q \in Request, Answer(q)
  PROVE  req' \in [Request -> Local]
  BY GotoType DEF Answer, Local

\* The record of a request that saves has a field that says whether it is alone,
\* and stays well-formed if that changes.
LEMMA SoloType ==
  ASSUME NEW l \in Local, "solo" \in DOMAIN l
  PROVE  [l EXCEPT !.solo = FALSE] \in Local
  BY DEF Local, Idle, Visit, SaveWork, PushWork, EditWork

LEMMA DisturbType ==
  ASSUME TypeOK, NEW q \in Request, NEW local \in Local, Disturb(q, local)
  PROVE  req' \in [Request -> Local]
  <1>1. \A p \in Request : req[p] \in Local
    BY DEF TypeOK, Local
  <1>2. QED
    BY <1>1, SoloType DEF Disturb

LEMMA CryptoType ==
  ASSUME NEW v \in Value
  PROVE  /\ v.layers = 0 /\ aes \in BOOLEAN => Encrypt(v) \in Value
         /\ Decrypt(v) \in Value
         /\ v \notin {NoRow}
  BY DEF Value, Encrypt, Decrypt, NoRow

\* A client is none of those that stand for no client.
LEMMA ClientIs ==
  ASSUME TypeOK
  PROVE  /\ git \in Client <=> git # NoClient
         /\ archiver \in Client <=> archiver # NoClient
  BY RepoAssumption DEF TypeOK, Client, NoClient

LEMMA InitType == Init => TypeOK
  <1> SUFFICES ASSUME Init PROVE TypeOK
    OBVIOUS
  <1>1. \A v \in Typed : Plain(v) \in Value
    BY DEF Plain, Value
  <1>2. conf \in [repo : Repo \cup {NoRepo}, token : Value, aes : BOOLEAN]
    BY <1>1 DEF Init
  <1>3. settings \in Config /\ {git, archiver} \subseteq Client \cup {NoClient}
    BY <1>1 DEF Init, Config, NoRow, Typed
  <1>4. /\ password \in [Datasource -> Value \cup {NoRow}]
        /\ typed \in [Datasource -> Typed] /\ overtaken \in [Datasource -> BOOLEAN]
    BY DEF Init, Typed
  <1>5. req \in [Request -> {Idle} \cup Visit \cup SaveWork \cup PushWork \cup EditWork]
    BY DEF Init
  <1>6. QED
    BY <1>2, <1>3, <1>4, <1>5 DEF Init, TypeOK

LEMMA StartType ==
  ASSUME TypeOK, Start
  PROVE  TypeOK'
  <1>1. \A c \in Config : (IF c.repo = NoRepo THEN NoClient ELSE c) \in Client \cup {NoClient}
    BY DEF Config, Client
  <1>2. settings \in Config /\ NoRow \in Config
        /\ [repo |-> conf.repo, token |-> conf.token] \in Config
    BY DEF TypeOK, Config, NoRow, Value, Plain, Typed
  <1>3. git' \in Client \cup {NoClient}
    BY <1>1, <1>2 DEF Start
  <1>4. QED
    BY <1>3 DEF TypeOK, Start, secrets, logins

LEMMA ProcessType ==
  ASSUME TypeOK, Stop \/ EnableAES
  PROVE  TypeOK'
  <1>1. CASE Stop
    BY <1>1, ClientIs DEF TypeOK, Stop, secrets, workDir
  <1>2. CASE EnableAES
    BY <1>2 DEF TypeOK, EnableAES, secrets, workDir, deps, logins
  <1>3. QED
    BY <1>1, <1>2

LEMMA LogType ==
  ASSUME TypeOK, NEW t \in Session, Login(t) \/ Logout(t)
  PROVE  TypeOK'
  <1>1. CASE Login(t)
    BY <1>1 DEF TypeOK, Login, secrets, workDir, deps
  <1>2. CASE Logout(t)
    BY <1>2 DEF TypeOK, Logout, secrets, workDir, deps
  <1>3. QED
    BY <1>1, <1>2

LEMMA ArriveType ==
  ASSUME TypeOK, NEW q \in Request, NEW t \in Session, Arrive(q, t)
  PROVE  TypeOK'
  <1>1. [at |-> "user", cookie |-> t] \in Local
    BY DEF Local, Visit
  <1>2. req' \in [Request -> Local]
    BY <1>1, GotoType DEF Arrive
  <1>3. QED
    BY <1>2 DEF TypeOK, Local, Arrive, secrets, workDir, deps, logins

LEMMA LoadUserType ==
  ASSUME TypeOK, NEW q \in Request, LoadUser(q)
  PROVE  TypeOK'
  <1>1. req[q].cookie \in Session /\ [req[q] EXCEPT !.at = "admitted"] \in Local
    BY DEF TypeOK, LoadUser, At, Local, Idle, Visit, SaveWork, PushWork, EditWork
  <1>2. req' \in [Request -> Local]
    BY <1>1, GotoType, AnswerType DEF LoadUser
  <1>3. QED
    BY <1>1, <1>2 DEF TypeOK, Local, LoadUser, secrets, workDir, deps, logins

LEMMA LeaveType ==
  ASSUME TypeOK, NEW q \in Request, Leave(q)
  PROVE  TypeOK'
  <1>1. req' \in [Request -> Local]
    BY AnswerType DEF Leave
  <1>2. QED
    BY <1>1 DEF TypeOK, Local, Leave, secrets, workDir, deps, logins

LEMMA ReadSettingsType ==
  ASSUME TypeOK, NEW q \in Request, NEW ajax \in BOOLEAN, NEW r \in Repo, NEW t \in Typed,
         ReadSettings(q, ajax, r, t)
  PROVE  TypeOK'
  <1> DEFINE token == IF t = Blank THEN settings.token ELSE Encrypt(Plain(t))
             local == [at |-> "save", ajax |-> ajax, row |-> [repo |-> r, token |-> token],
                       plain |-> Decrypt(token), solo |-> NobodySaves]
  <1>1. token \in Value
    <2>1. Plain(t) \in Value /\ Plain(t).layers = 0
      BY DEF Plain, Value
    <2>2. settings.token \in Value
      BY DEF TypeOK, Config
    <2>3. QED
      BY <2>1, <2>2, CryptoType DEF TypeOK
  <1>2. Decrypt(token) \in Value
    BY <1>1, CryptoType
  <1>3. local \in Local
    <2>1. NobodySaves \in BOOLEAN
      BY DEF NobodySaves
    <2>2. [repo |-> r, token |-> token] \in Config
      BY <1>1 DEF Config
    <2>3. QED
      BY <1>2, <2>1, <2>2 DEF Local, SaveWork
  <1>4. Disturb(q, local)
    BY DEF ReadSettings
  <1>5. req' \in [Request -> Local]
    <2> HIDE DEF local
    <2> QED
      BY <1>3, <1>4, DisturbType
  <1>6. QED
    BY <1>5 DEF TypeOK, Local, ReadSettings, secrets, workDir, deps, logins

LEMMA SaveSettingsType ==
  ASSUME TypeOK, Served, NEW q \in Request, SaveSettings(q)
  PROVE  TypeOK'
  <1>1. req[q] \in [at : {"save"}, ajax : BOOLEAN, row : Config, plain : Value,
                    solo : BOOLEAN]
    BY Shapes DEF SaveSettings
  <1>2. req[q].row.repo \in Repo
    BY DEF Served, SaveSettings
  <1>3. [at |-> "init", solo |-> req[q].solo,
         client |-> [repo |-> req[q].row.repo, token |-> req[q].plain]] \in Local
    BY <1>1, <1>2 DEF Local, SaveWork, Client
  <1>4. req' \in [Request -> Local]
    BY <1>3, GotoType, AnswerType DEF SaveSettings
  <1>5. QED
    BY <1>1, <1>4 DEF TypeOK, Local, SaveSettings, secrets, workDir, deps, logins

\* A save that goes on keeps its client.
LEMMA ClientStepType ==
  ASSUME TypeOK, NEW q \in Request, req[q].at \in ClientPlaces, NEW place \in ClientPlaces
  PROVE  [req[q] EXCEPT !.at = place] \in Local
  <1>1. req[q] \in [at : ClientPlaces, client : Client, solo : BOOLEAN]
    BY Shapes
  <1>2. [req[q] EXCEPT !.at = place] \in [at : ClientPlaces, client : Client, solo : BOOLEAN]
    BY <1>1
  <1>3. QED
    BY <1>2 DEF Local, SaveWork, ClientPlaces

LEMMA ConfigType ==
  ASSUME TypeOK, Served, NEW q \in Request, ConfigStep(q)
  PROVE  TypeOK'
  <1>1. req[q].at \in ClientPlaces => req[q].client \in Client /\ req[q].solo \in BOOLEAN
                                      /\ req[q].client.repo \in Repo
    BY Shapes DEF Client
  <1>2. CASE SaveSettings(q)
    BY <1>2, SaveSettingsType
  <1>3. CASE RemoveWorkDir(q)
    <2>1. [req[q] EXCEPT !.at = "clone"] \in Local
      BY <1>3, ClientStepType DEF RemoveWorkDir, At, ClientPlaces
    <2>2. \A p \in Request : At(p, "pushing") => [req[p] EXCEPT !.calm = FALSE] \in Local
      BY Shapes DEF Local, PushWork
    <2>3. \A p \in Request : req[p] \in Local
      BY DEF TypeOK, Local
    <2>4. req' \in [Request -> Local]
      BY <1>3, <2>1, <2>2, <2>3 DEF RemoveWorkDir
    <2>5. QED
      BY <1>3, <2>4 DEF TypeOK, Local, RemoveWorkDir, secrets, deps, logins
  <1>4. CASE InitRepo(q)
    <2>1. req' \in [Request -> Local]
      BY <1>4, ClientStepType, GotoType DEF InitRepo, At, ClientPlaces
    <2>2. QED
      BY <1>1, <1>4, <2>1 DEF TypeOK, Local, InitRepo, secrets, deps, logins, At, ClientPlaces
  <1>5. CASE InitRepoFails(q)
    <2>1. req' \in [Request -> Local]
      BY <1>5, AnswerType DEF InitRepoFails
    <2>2. QED
      BY <1>1, <1>5, <2>1 DEF TypeOK, Local, InitRepoFails, workDir, secrets, deps, logins,
                              At, ClientPlaces
  <1>6. CASE SetGit(q)
    <2>1. req' \in [Request -> Local]
      BY <1>6, ClientStepType, GotoType DEF SetGit, At, ClientPlaces
    <2>2. QED
      BY <1>1, <1>6, <2>1 DEF TypeOK, Local, SetGit, secrets, workDir, logins, At, ClientPlaces
  <1>7. CASE SetArchiver(q)
    <2>1. req' \in [Request -> Local]
      BY <1>7, AnswerType DEF SetArchiver
    <2>2. QED
      BY <1>1, <1>7, <2>1 DEF TypeOK, Local, SetArchiver, secrets, logins, At, ClientPlaces
  <1>8. QED
    BY <1>2, <1>3, <1>4, <1>5, <1>6, <1>7 DEF ConfigStep

LEMMA BeginPushType ==
  ASSUME TypeOK, NEW q \in Request, NEW via \in {"git", "archiver"}, BeginPush(q, via)
  PROVE  TypeOK'
  <1>1. [at |-> "call", via |-> via] \in Local
    BY DEF Local, PushWork
  <1>2. req' \in [Request -> Local]
    BY <1>1, GotoType DEF BeginPush
  <1>3. QED
    BY <1>2 DEF TypeOK, Local, BeginPush, secrets, workDir, deps, logins

LEMMA PushStepType ==
  ASSUME TypeOK, Served, NEW q \in Request, PushStep(q)
  PROVE  TypeOK'
  <1>1. CASE OpenWorkDir(q)
    <2>1. InUse(req[q].via) \in Client
      BY <1>1 DEF OpenWorkDir, Served
    <2>2. [at |-> "pushing", client |-> InUse(req[q].via),
           calm |-> \A p \in Request : ~Installing(p)] \in Local
      BY <2>1 DEF Local, PushWork
    <2>3. req' \in [Request -> Local]
      BY <1>1, <2>2, GotoType DEF OpenWorkDir
    <2>4. origin' \in Repo \cup {NoRepo}
      BY <1>1, <2>1 DEF OpenWorkDir, TypeOK, Client
    <2>5. QED
      BY <1>1, <2>3, <2>4 DEF TypeOK, Local, OpenWorkDir, secrets, deps, logins
  <1>2. CASE Push(q)
    <2>1. req' \in [Request -> Local]
      BY <1>2, AnswerType DEF Push
    <2>2. QED
      BY <1>2, <2>1 DEF TypeOK, Local, Push, secrets, workDir, deps, logins
  <1>3. QED
    BY <1>1, <1>2 DEF PushStep

LEMMA EncryptTyped ==
  ASSUME TypeOK, NEW v \in Typed
  PROVE  Encrypt(Plain(v)) \in Value /\ Encrypt(Plain(v)).of = v
  <1>1. Plain(v) \in Value /\ Plain(v).layers = 0 /\ Plain(v).of = v
    BY DEF Plain, Value
  <1>2. Encrypt(Plain(v)) \in Value
    BY <1>1, CryptoType DEF TypeOK
  <1>3. Encrypt(Plain(v)).of = v
    BY <1>1 DEF Encrypt, Value
  <1>4. QED
    BY <1>2, <1>3

LEMMA CreateDatasourceType ==
  ASSUME TypeOK, NEW q \in Request, NEW d \in Datasource, NEW new \in Typed,
         CreateDatasource(q, d, new)
  PROVE  TypeOK'
  <1>1. req' \in [Request -> Local]
    BY AnswerType DEF CreateDatasource
  <1>2. QED
    BY <1>1, EncryptTyped DEF TypeOK, Local, CreateDatasource, workDir, deps, logins

LEMMA ReadDatasourceType ==
  ASSUME TypeOK, NEW q \in Request, NEW d \in Datasource, NEW new \in Typed,
         ReadDatasource(q, d, new)
  PROVE  TypeOK'
  <1>1. (IF new = Blank THEN password[d] ELSE Encrypt(Plain(new))) \in Value
    BY EncryptTyped DEF TypeOK, ReadDatasource, Created
  <1>2. [at |-> "update", ds |-> d, new |-> new, fresh |-> TRUE,
         value |-> IF new = Blank THEN password[d] ELSE Encrypt(Plain(new))] \in Local
    BY <1>1 DEF Local, EditWork
  <1>3. req' \in [Request -> Local]
    BY <1>2, GotoType DEF ReadDatasource
  <1>4. QED
    BY <1>3 DEF TypeOK, Local, ReadDatasource, secrets, workDir, deps, logins

LEMMA UpdateDatasourceType ==
  ASSUME TypeOK, NEW q \in Request, UpdateDatasource(q)
  PROVE  TypeOK'
  <1>1. \A p \in Request : At(p, "update") => req[p] \in EditWork
    BY Shapes
  <1>2. \A l \in EditWork : \A b \in BOOLEAN : [l EXCEPT !.fresh = b] \in EditWork
    BY DEF EditWork
  <1>3. \A p \in Request : At(p, "update") =>
          [req[p] EXCEPT !.fresh = req[p].fresh /\ req[p].ds # req[q].ds] \in Local
    BY <1>1, <1>2 DEF Local
  <1>4. req' \in [Request -> Local]
    BY <1>3 DEF UpdateDatasource, TypeOK, Local
  <1>5. /\ req[q].ds \in Datasource /\ req[q].value \in Value
        /\ req[q].new \in Typed /\ req[q].value.of \in Typed
    BY <1>1 DEF UpdateDatasource, EditWork, Value
  <1>6. /\ password' \in [Datasource -> Value \cup {NoRow}]
        /\ typed' \in [Datasource -> Typed] /\ overtaken' \in [Datasource -> BOOLEAN]
    BY <1>5 DEF UpdateDatasource, TypeOK
  <1>7. QED
    BY <1>4, <1>6 DEF TypeOK, Local, UpdateDatasource, workDir, deps, logins

\* All requests together.
LEMMA NextType ==
  ASSUME TypeOK, Served, [Next]_vars
  PROVE  TypeOK'
  <1>1. CASE UNCHANGED vars
    BY <1>1 DEF TypeOK, vars, secrets, workDir, deps, logins
  <1>2. CASE Next
    BY <1>2, StartType, ProcessType, LogType, ArriveType, LoadUserType, LeaveType,
       ReadSettingsType, ConfigType, BeginPushType, PushStepType, CreateDatasourceType,
       ReadDatasourceType, UpdateDatasourceType DEF Next
  <1>3. QED
    BY <1>1, <1>2

-----------------------------------------------------------------------------
(* The inductive invariant.                                                *)

\* Only AES encrypts, and it stays in use.
Layered(v) == v.layers = 1 => conf.aes
Layers ==
  /\ aes = (up /\ conf.aes)
  /\ Layered(settings.token)
  /\ \A d \in Datasource : Created(d) => Layered(password[d])
  /\ \A q \in Request : /\ At(q, "save") => Layered(req[q].row.token)
                        /\ At(q, "update") => Layered(req[q].value)

\* A save that is alone is, and so is a push with the work directory it has opened.
Alone ==
  \A q \in Request :
    /\ Saving(q) /\ req[q].solo => \A p \in Request : p # q => ~Saving(p)
    /\ At(q, "pushing") /\ req[q].calm => \A p \in Request : ~Installing(p)

\* What a save has in its hands is what it wrote, and what it did so far stays.
Saves ==
  \A q \in Request :
    /\ At(q, "save") => req[q].plain = Plain(req[q].row.token.of)
    /\ req[q].at \in ClientPlaces /\ req[q].solo =>
         req[q].client = [repo |-> settings.repo, token |-> Plain(settings.token.of)]
    /\ req[q].at \in InstallPlaces /\ req[q].solo => origin = req[q].client.repo
    /\ At(q, "setArchiver") /\ req[q].solo => git = req[q].client

\* Between saves everybody uses one client, and the work directory is its own.
Settled ==
  up /\ ~adrift /\ (\A q \in Request : req[q].at \notin InstallPlaces)
    => git = archiver /\ origin \in {NoRepo, git.repo}

\* An edit that keeps the password has the one that is stored; any other, its own.
Kept ==
  \A q \in Request : At(q, "update") =>
    /\ Created(req[q].ds)
    /\ req[q].new = Blank /\ req[q].fresh => req[q].value = password[req[q].ds]
    /\ req[q].new # Blank => req[q].value.of = req[q].new

\* What is stored is what was typed last, under some layers, if nothing that an
\* edit has kept was written over it.
Recorded ==
  \A d \in Datasource : Created(d) /\ ~overtaken[d] => password[d].of = typed[d]

\* Only tokens that were given are in use, were, or are looked at.
Given ==
  /\ session \subseteq given /\ ended \subseteq given
  /\ \A q \in Request : At(q, "user") => req[q].cookie \in given

IInv ==
  /\ TypeOK /\ Down /\ Served /\ Layers /\ Alone /\ Saves /\ Settled
  /\ Kept /\ Recorded /\ Given
  /\ PushGoesToClient /\ EndedStaysEnded

\* What the configuration and the passwords need of the state.
Safe == Served /\ Layers /\ Alone /\ Saves /\ Settled /\ Kept /\ Recorded /\ PushGoesToClient

\* The configuration, the passwords and the process stay as they are.
Still == UNCHANGED <<conf, settings, secrets, workDir, deps>>

\* A request that goes to a place where it holds nothing breaks nothing.
LEMMA QuietStep ==
  ASSUME IInv, NEW q \in Request, NEW l \in Local, Goto(q, l), Still,
         l.at \in {"idle", "user", "admitted"}, req[q].at \notin InstallPlaces
  PROVE  Safe'
  <1> USE DEF IInv, Still, Goto, TypeOK, At, Saving, workDir, deps, secrets
  <1>1. \A p \in Request : req'[p] = IF p = q THEN l ELSE req[p]
    OBVIOUS
  <1>2. Served'
    BY <1>1 DEF Served, InUse
  <1>3. Layers'
    BY <1>1 DEF Layers, Layered, Created
  <1>4. Alone'
    BY <1>1 DEF Alone, NobodySaves, Installing
  <1>5. Saves'
    BY <1>1 DEF Saves, ClientPlaces, InstallPlaces
  <1>6. Settled'
    BY <1>1 DEF Settled, InstallPlaces
  <1>7. Kept' /\ Recorded'
    BY <1>1 DEF Kept, Recorded, Created
  <1>8. PushGoesToClient'
    BY <1>1 DEF PushGoesToClient
  <1>9. QED
    BY <1>2, <1>3, <1>4, <1>5, <1>6, <1>7, <1>8 DEF Safe

\* The steps of others change nothing in a request but whether it is alone.
LEMMA DisturbIs ==
  ASSUME TypeOK, NEW q \in Request, NEW l \in Local, Disturb(q, l)
  PROVE  /\ req'[q] = l
         /\ \A p \in Request : p # q =>
              /\ req'[p].at = req[p].at
              /\ At(p, "save") => req'[p].row = req[p].row /\ req'[p].plain = req[p].plain
                                  /\ req'[p].solo = FALSE
              /\ req[p].at \in ClientPlaces =>
                   req'[p].client = req[p].client /\ req'[p].solo = FALSE
              /\ req[p].at \in {"call", "pushing", "update"} => req'[p] = req[p]
  <1>1. req'[q] = l
    BY DEF Disturb, TypeOK
  <1>2. ASSUME NEW p \in Request, p # q
        PROVE  /\ "solo" \in DOMAIN req[p] => req'[p] = [req[p] EXCEPT !.solo = FALSE]
               /\ "solo" \notin DOMAIN req[p] => req'[p] = req[p]
    BY <1>2 DEF Disturb, TypeOK
  <1>3. ASSUME NEW p \in Request
        PROVE  req[p].at \in {"save"} \cup ClientPlaces => "solo" \in DOMAIN req[p]
    BY Shapes DEF At
  <1>4. ASSUME NEW p \in Request, p # q, "solo" \in DOMAIN req[p]
        PROVE  /\ req'[p].at = req[p].at /\ req'[p].solo = FALSE
               /\ At(p, "save") => req'[p].row = req[p].row /\ req'[p].plain = req[p].plain
               /\ req[p].at \in ClientPlaces => req'[p].client = req[p].client
    <2>1. req[p] \in Local
      BY DEF TypeOK, Local
    <2>2. CASE req[p] \in {Idle} \cup Visit \cup EditWork \cup PushWork
      BY <1>4, <2>2 DEF Idle, Visit, EditWork, PushWork
    <2>3. CASE req[p] \in SaveWork
      BY <1>2, <1>4, <2>3 DEF SaveWork, At, ClientPlaces
    <2>4. QED
      BY <2>1, <2>2, <2>3 DEF Local
  <1>5. ASSUME NEW p \in Request, req[p].at \in {"call", "pushing", "update"}
        PROVE  "solo" \notin DOMAIN req[p]
    BY <1>5, Shapes DEF At, EditWork
  <1>6. QED
    BY <1>1, <1>2, <1>3, <1>4, <1>5 DEF At

LEMMA EncryptIs ==
  ASSUME TypeOK, Layers, up, NEW v \in Typed
  PROVE  /\ Layered(Encrypt(Plain(v)))
         /\ Encrypt(Plain(v)).of = v
  BY EncryptTyped DEF Layers, Layered, Encrypt, Plain, TypeOK

LEMMA DecryptIs ==
  ASSUME TypeOK, Layers, up, NEW v \in Value, Layered(v)
  PROVE  Decrypt(v) = Plain(v.of)
  <1>1. CASE v.layers = 0
    BY <1>1 DEF Decrypt, Value, Plain
  <1>2. CASE v.layers = 1
    <2>1. aes
      BY <1>2 DEF Layers, Layered
    <2>2. Decrypt(v) = [v EXCEPT !.layers = 0]
      BY <1>2, <2>1 DEF Decrypt, Value
    <2>3. QED
      BY <2>2 DEF Value, Plain
  <1>3. QED
    BY <1>1, <1>2 DEF Value

\* Only one that is admitted begins a save, and from then on nobody is alone.
LEMMA ReadSettingsSafe ==
  ASSUME IInv, NEW q \in Request, NEW ajax \in BOOLEAN, NEW r \in Repo, NEW t \in Typed,
         ReadSettings(q, ajax, r, t)
  PROVE  Safe'
  <1> DEFINE token == IF t = Blank THEN settings.token ELSE Encrypt(Plain(t))
             local == [at |-> "save", ajax |-> ajax, row |-> [repo |-> r, token |-> token],
                       plain |-> Decrypt(token), solo |-> NobodySaves]
  <1>1. TypeOK /\ Layers /\ up /\ At(q, "admitted") /\ Disturb(q, local)
    BY DEF IInv, ReadSettings, Down, At
  <1>2. token \in Value /\ Layered(token)
    BY <1>1, EncryptTyped, EncryptIs DEF Layers, TypeOK, Config
  <1>3. Decrypt(token) = Plain(token.of)
    BY <1>1, <1>2, DecryptIs
  <1>4. /\ local.at = "save" /\ local.row.repo = r /\ local.row.token = token
        /\ local.plain = Plain(token.of) /\ local.solo = NobodySaves
    BY <1>3
  <1> HIDE DEF local, token
  <1>5. /\ req'[q] = local
        /\ \A p \in Request : p # q =>
             /\ req'[p].at = req[p].at
             /\ At(p, "save") => req'[p].row = req[p].row /\ req'[p].plain = req[p].plain
                                 /\ req'[p].solo = FALSE
             /\ req[p].at \in ClientPlaces =>
                  req'[p].client = req[p].client /\ req'[p].solo = FALSE
             /\ req[p].at \in {"call", "pushing", "update"} => req'[p] = req[p]
    <2>1. req[q].at = "admitted"
      BY <1>1 DEF At
    <2>2. local \in Local
      BY <1>2, <1>3 DEF local, Local, SaveWork, Config, Plain, Value, NobodySaves
    <2>3. QED
      BY <1>1, <2>2, DisturbIs
  <1>6. UNCHANGED <<conf, settings, secrets, workDir, deps>>
    BY DEF ReadSettings
  <1> USE DEF At, Saving, workDir, deps, secrets
  <1>7. Served'
    BY <1>4, <1>5, <1>6 DEF IInv, Served, InUse
  <1>8. Layers'
    BY <1>2, <1>4, <1>5, <1>6 DEF IInv, Layers, Layered, Created
  <1>9. Alone'
    <2>1. \A p \in Request : p # q => (Saving(p) <=> Saving(p)')
      BY <1>5
    <2>2. \A p \in Request : p # q /\ Saving(p)' => req'[p].solo = FALSE
      BY <1>5 DEF ClientPlaces
    <2>3. \A p \in Request : /\ Installing(p)' => Installing(p)
                             /\ req'[p].at = "pushing" => req[p] = req'[p]
      BY <1>4, <1>5 DEF Installing
    <2>4. req'[q].solo => \A p \in Request : ~Saving(p)
      BY <1>4, <1>5 DEF NobodySaves
    <2>5. Saving(q)'
      BY <1>4, <1>5
    <2> QED
      BY <2>1, <2>2, <2>3, <2>4, <2>5 DEF IInv, Alone
  <1>10. Saves'
    BY <1>4, <1>5, <1>6 DEF IInv, Saves, ClientPlaces, InstallPlaces
  <1>11. Settled'
    BY <1>1, <1>4, <1>5, <1>6 DEF IInv, Settled, InstallPlaces
  <1>12. Kept' /\ Recorded'
    BY <1>4, <1>5, <1>6 DEF IInv, Kept, Recorded, Created
  <1>13. PushGoesToClient'
    BY <1>4, <1>5, <1>6 DEF IInv, PushGoesToClient
  <1>14. QED
    BY <1>7, <1>8, <1>9, <1>10, <1>11, <1>12, <1>13 DEF Safe

\* Every other step moves one request.
LEMMA GotoIs ==
  ASSUME TypeOK, NEW q \in Request, NEW l, Goto(q, l)
  PROVE  \A p \in Request : req'[p] = IF p = q THEN l ELSE req[p]
  BY DEF TypeOK, Goto

LEMMA SaveSettingsSafe ==
  ASSUME IInv, NEW q \in Request, SaveSettings(q)
  PROVE  Safe'
  <1> DEFINE local == IF req[q].ajax
                        THEN [at |-> "init", solo |-> req[q].solo,
                              client |-> [repo |-> req[q].row.repo, token |-> req[q].plain]]
                        ELSE Idle
  <1>1. TypeOK /\ At(q, "save") /\ Goto(q, local) /\ settings' = req[q].row
    BY DEF IInv, SaveSettings, Answer
  <1>2. /\ req[q].plain = Plain(req[q].row.token.of) /\ Layered(req[q].row.token)
        /\ req[q].row.repo \in Repo
    BY <1>1 DEF IInv, Saves, Layers, Served
  <1>3. local.at \in {"init", "idle"}
        /\ (local.at = "init" => /\ local.solo = req[q].solo
                                 /\ local.client = [repo |-> req[q].row.repo,
                                                    token |-> Plain(req[q].row.token.of)])
    BY <1>2 DEF Idle
  <1>4. \A p \in Request : req'[p] = IF p = q THEN local ELSE req[p]
    BY <1>1, GotoIs
  <1>5. UNCHANGED <<conf, secrets, workDir, deps>>
    BY DEF SaveSettings
  <1> HIDE DEF local
  <1> USE DEF At, Saving, workDir, deps, secrets
  <1>6. Served'
    BY <1>3, <1>4, <1>5 DEF IInv, Served, InUse
  <1>7. Layers'
    BY <1>1, <1>2, <1>3, <1>4, <1>5 DEF IInv, Layers, Layered, Created
  <1>8. Alone'
    BY <1>1, <1>3, <1>4 DEF IInv, Alone, NobodySaves, Installing
  <1>9. Saves'
    BY <1>1, <1>3, <1>4, <1>5 DEF IInv, Saves, Alone, ClientPlaces, InstallPlaces
  <1>10. Settled'
    BY <1>1, <1>3, <1>4, <1>5 DEF IInv, Settled, InstallPlaces
  <1>11. Kept' /\ Recorded'
    BY <1>3, <1>4, <1>5 DEF IInv, Kept, Recorded, Created
  <1>12. PushGoesToClient'
    BY <1>3, <1>4, <1>5 DEF IInv, PushGoesToClient
  <1>13. QED
    BY <1>6, <1>7, <1>8, <1>9, <1>10, <1>11, <1>12 DEF Safe

\* What a save holds while it goes on.
LEMMA ClientStepIs ==
  ASSUME TypeOK, NEW q \in Request, req[q].at \in ClientPlaces, NEW place \in ClientPlaces,
         Goto(q, [req[q] EXCEPT !.at = place])
  PROVE  /\ \A p \in Request : p # q => req'[p] = req[p]
         /\ req'[q].at = place /\ req'[q].client = req[q].client /\ req'[q].solo = req[q].solo
         /\ req[q].client \in Client /\ req[q].client.repo \in Repo
         /\ req[q].solo \in BOOLEAN
  <1>1. req[q] \in [at : ClientPlaces, client : Client, solo : BOOLEAN]
    BY Shapes
  <1>2. QED
    BY <1>1, GotoIs DEF Client

\* While anybody saves nobody else saves alone, and while he installs nobody pushes
\* in calm.
LEMMA SavingExcludes ==
  ASSUME IInv, NEW q \in Request, Saving(q)
  PROVE  \A p \in Request : p # q =>
           /\ Saving(p) => ~req[p].solo /\ ~req[q].solo
           /\ Installing(q) /\ At(p, "pushing") => ~req[p].calm
  BY DEF IInv, Alone

LEMMA RemoveWorkDirSafe ==
  ASSUME IInv, NEW q \in Request, RemoveWorkDir(q)
  PROVE  Safe'
  <1>1. TypeOK /\ req[q].at = "init" /\ Saving(q) /\ origin' = NoRepo
    BY DEF IInv, RemoveWorkDir, At, Saving
  <1>2. /\ \A p \in Request : p # q =>
             /\ req'[p].at = req[p].at
             /\ At(p, "pushing") => req'[p].calm = FALSE
             /\ ~At(p, "pushing") => req'[p] = req[p]
        /\ req'[q].at = "clone" /\ req'[q].client = req[q].client
        /\ req'[q].solo = req[q].solo
    <2>1. /\ req[q] \in [at : ClientPlaces, client : Client, solo : BOOLEAN]
          /\ \A p \in Request :
               At(p, "pushing") => req[p] \in [at : {"pushing"}, client : Client, calm : BOOLEAN]
      BY <1>1, Shapes DEF ClientPlaces
    <2>2. \A p \in Request :
            req'[p] = IF p = q THEN [req[p] EXCEPT !.at = "clone"]
                      ELSE IF At(p, "pushing") THEN [req[p] EXCEPT !.calm = FALSE]
                      ELSE req[p]
      BY DEF RemoveWorkDir
    <2>3. QED
      BY <2>1, <2>2
  <1>3. UNCHANGED <<conf, settings, secrets, adrift, deps>>
    BY DEF RemoveWorkDir
  <1>4. \A p \in Request : p # q => (Saving(p) => ~req[p].solo /\ ~req[q].solo)
    BY <1>1, SavingExcludes
  <1> USE DEF At, Saving, deps, secrets
  <1>5. Served'
    BY <1>1, <1>2, <1>3 DEF IInv, Served, InUse
  <1>6. Layers'
    BY <1>1, <1>2, <1>3 DEF IInv, Layers, Layered, Created
  <1>7. Alone'
    BY <1>1, <1>2 DEF IInv, Alone, NobodySaves, Installing
  <1>8. Saves'
    BY <1>1, <1>2, <1>3, <1>4 DEF IInv, Saves, ClientPlaces, InstallPlaces
  <1>9. Settled'
    BY <1>1, <1>2, <1>3 DEF IInv, Settled, InstallPlaces
  <1>10. Kept' /\ Recorded'
    BY <1>1, <1>2, <1>3 DEF IInv, Kept, Recorded, Created
  <1>11. PushGoesToClient'
    BY <1>1, <1>2 DEF PushGoesToClient
  <1>12. QED
    BY <1>5, <1>6, <1>7, <1>8, <1>9, <1>10, <1>11 DEF Safe

LEMMA InitRepoSafe ==
  ASSUME IInv, NEW q \in Request, InitRepo(q)
  PROVE  Safe'
  <1>1. TypeOK /\ req[q].at = "clone" /\ Saving(q) /\ origin' = req[q].client.repo
    BY DEF IInv, InitRepo, At, Saving
  <1>2. /\ \A p \in Request : p # q => req'[p] = req[p]
        /\ req'[q].at = "setGit" /\ req'[q].client = req[q].client
        /\ req'[q].solo = req[q].solo
    BY <1>1, ClientStepIs DEF InitRepo, ClientPlaces
  <1>3. UNCHANGED <<conf, settings, secrets, adrift, deps>>
    BY DEF InitRepo
  <1>4. \A p \in Request : p # q => /\ Saving(p) => ~req[p].solo /\ ~req[q].solo
                                    /\ req[p].at = "pushing" => ~req[p].calm
    BY <1>1, SavingExcludes DEF Installing, At
  <1> USE DEF At, Saving, deps, secrets
  <1>5. Served'
    BY <1>1, <1>2, <1>3 DEF IInv, Served, InUse
  <1>6. Layers'
    BY <1>1, <1>2, <1>3 DEF IInv, Layers, Layered, Created
  <1>7. Alone'
    BY <1>1, <1>2 DEF IInv, Alone, NobodySaves, Installing
  <1>8. Saves'
    BY <1>1, <1>2, <1>3, <1>4 DEF IInv, Saves, ClientPlaces, InstallPlaces
  <1>9. Settled'
    BY <1>2 DEF Settled, InstallPlaces
  <1>10. Kept' /\ Recorded'
    BY <1>1, <1>2, <1>3 DEF IInv, Kept, Recorded, Created
  <1>11. PushGoesToClient'
    BY <1>1, <1>2, <1>3, <1>4 DEF IInv, PushGoesToClient, Installing
  <1>12. QED
    BY <1>5, <1>6, <1>7, <1>8, <1>9, <1>10, <1>11 DEF Safe

LEMMA InitRepoFailsSafe ==
  ASSUME IInv, NEW q \in Request, InitRepoFails(q)
  PROVE  Safe'
  <1>1. TypeOK /\ req[q].at = "clone" /\ Saving(q)
    BY DEF IInv, InitRepoFails, At, Saving
  <1>2. \A p \in Request : req'[p] = IF p = q THEN Idle ELSE req[p]
    BY <1>1, GotoIs DEF InitRepoFails, Answer
  <1>3. UNCHANGED <<conf, settings, secrets, deps>>
    BY DEF InitRepoFails
  <1>4. \A p \in Request : p # q => /\ Saving(p) => ~req[p].solo /\ ~req[q].solo
                                    /\ req[p].at = "pushing" => ~req[p].calm
    BY <1>1, SavingExcludes DEF Installing, At
  <1>5. Idle.at = "idle"
    BY DEF Idle
  <1>6. (origin' = origin /\ adrift' = adrift) \/ adrift' = TRUE
    BY DEF InitRepoFails, workDir
  <1>7. \A p \in Request : p # q /\ req[p].at \in InstallPlaces /\ req[p].solo => FALSE
    BY <1>4 DEF Saving, InstallPlaces, At
  <1> USE DEF At, Saving, deps, secrets
  <1>8. Served'
    BY <1>2, <1>3, <1>5 DEF IInv, Served, InUse
  <1>9. Layers'
    BY <1>2, <1>3, <1>5 DEF IInv, Layers, Layered, Created
  <1>10. Alone'
    BY <1>2, <1>5 DEF IInv, Alone, NobodySaves, Installing
  <1>11. Saves'
    BY <1>2, <1>3, <1>5, <1>7 DEF IInv, Saves, ClientPlaces, InstallPlaces
  <1>12. Settled'
    BY <1>1, <1>2, <1>3, <1>5, <1>6 DEF IInv, Settled, InstallPlaces
  <1>13. Kept' /\ Recorded'
    BY <1>2, <1>3, <1>5 DEF IInv, Kept, Recorded, Created
  <1>14. PushGoesToClient'
    BY <1>2, <1>4, <1>5, <1>6 DEF IInv, PushGoesToClient, Installing
  <1>15. QED
    BY <1>8, <1>9, <1>10, <1>11, <1>12, <1>13, <1>14 DEF Safe

LEMMA SetGitSafe ==
  ASSUME IInv, NEW q \in Request, SetGit(q)
  PROVE  Safe'
  <1>1. TypeOK /\ req[q].at = "setGit" /\ Saving(q) /\ git' = req[q].client
    BY DEF IInv, SetGit, At, Saving
  <1>2. /\ \A p \in Request : p # q => req'[p] = req[p]
        /\ req'[q].at = "setArchiver" /\ req'[q].client = req[q].client
        /\ req'[q].solo = req[q].solo /\ req[q].client \in Client
    BY <1>1, ClientStepIs DEF SetGit, ClientPlaces
  <1>3. UNCHANGED <<conf, settings, secrets, workDir, up, aes, archiver>>
    BY DEF SetGit
  <1>4. \A p \in Request : p # q => /\ Saving(p) => ~req[p].solo /\ ~req[q].solo
                                    /\ req[p].at = "pushing" => ~req[p].calm
    BY <1>1, SavingExcludes DEF Installing, At
  <1> USE DEF At, Saving, workDir, secrets
  <1>5. Served'
    BY <1>1, <1>2, <1>3 DEF IInv, Served, InUse
  <1>6. Layers'
    BY <1>1, <1>2, <1>3 DEF IInv, Layers, Layered, Created
  <1>7. Alone'
    BY <1>1, <1>2 DEF IInv, Alone, NobodySaves, Installing
  <1>8. Saves'
    BY <1>1, <1>2, <1>3, <1>4 DEF IInv, Saves, ClientPlaces, InstallPlaces
  <1>9. Settled'
    BY <1>2 DEF Settled, InstallPlaces
  <1>10. Kept' /\ Recorded'
    BY <1>1, <1>2, <1>3 DEF IInv, Kept, Recorded, Created
  <1>11. PushGoesToClient'
    BY <1>1, <1>2, <1>3, <1>4 DEF IInv, PushGoesToClient, Installing
  <1>12. QED
    BY <1>5, <1>6, <1>7, <1>8, <1>9, <1>10, <1>11 DEF Safe

LEMMA SetArchiverSafe ==
  ASSUME IInv, NEW q \in Request, SetArchiver(q)
  PROVE  Safe'
  <1>1. TypeOK /\ req[q].at = "setArchiver" /\ Saving(q) /\ archiver' = req[q].client
        /\ req[q].client \in Client /\ req[q].solo \in BOOLEAN /\ adrift' = ~req[q].solo
    BY Shapes DEF IInv, SetArchiver, At, Saving, ClientPlaces
  <1>2. \A p \in Request : req'[p] = IF p = q THEN Idle ELSE req[p]
    BY <1>1, GotoIs DEF SetArchiver, Answer
  <1>3. UNCHANGED <<conf, settings, secrets, origin, up, aes, git>>
    BY DEF SetArchiver
  <1>4. \A p \in Request : p # q => /\ Saving(p) => ~req[p].solo /\ ~req[q].solo
                                    /\ req[p].at = "pushing" => ~req[p].calm
    BY <1>1, SavingExcludes DEF Installing, At
  <1>5. Idle.at = "idle"
    BY DEF Idle
  <1>6. req[q].solo => git = req[q].client /\ origin = req[q].client.repo
    BY <1>1 DEF IInv, Saves, InstallPlaces, At
  <1>7. \A p \in Request : p # q /\ req[p].at \in InstallPlaces /\ req[p].solo => FALSE
    BY <1>4 DEF Saving, InstallPlaces, At
  <1> USE DEF At, Saving, secrets
  <1>8. Served'
    BY <1>1, <1>2, <1>3, <1>5 DEF IInv, Served, InUse
  <1>9. Layers'
    BY <1>2, <1>3, <1>5 DEF IInv, Layers, Layered, Created
  <1>10. Alone'
    BY <1>2, <1>5 DEF IInv, Alone, NobodySaves, Installing
  <1>11. Saves'
    BY <1>2, <1>3, <1>5, <1>7 DEF IInv, Saves, ClientPlaces, InstallPlaces
  <1>12. Settled'
    BY <1>1, <1>3, <1>6 DEF Settled
  <1>13. Kept' /\ Recorded'
    BY <1>2, <1>3, <1>5 DEF IInv, Kept, Recorded, Created
  <1>14. PushGoesToClient'
    BY <1>2, <1>4, <1>5 DEF PushGoesToClient, Installing
  <1>15. QED
    BY <1>8, <1>9, <1>10, <1>11, <1>12, <1>13, <1>14 DEF Safe

\* A handler that has found a client keeps finding one.
LEMMA BeginPushSafe ==
  ASSUME IInv, NEW q \in Request, NEW via \in {"git", "archiver"}, BeginPush(q, via)
  PROVE  Safe'
  <1> DEFINE local == [at |-> "call", via |-> via]
  <1>1. TypeOK /\ req[q].at = "admitted" /\ InUse(via) \in Client
    BY ClientIs DEF IInv, BeginPush, At, InUse
  <1>2. local.at = "call" /\ local.via = via
    OBVIOUS
  <1>3. \A p \in Request : req'[p] = IF p = q THEN local ELSE req[p]
    BY <1>1, GotoIs DEF BeginPush
  <1>4. UNCHANGED <<conf, settings, secrets, workDir, deps>>
    BY DEF BeginPush
  <1> HIDE DEF local
  <1> USE DEF At, Saving, workDir, deps, secrets
  <1>5. Served'
    BY <1>1, <1>2, <1>3, <1>4 DEF IInv, Served, InUse
  <1>6. Layers'
    BY <1>2, <1>3, <1>4 DEF IInv, Layers, Layered, Created
  <1>7. Alone'
    BY <1>1, <1>2, <1>3 DEF IInv, Alone, NobodySaves, Installing
  <1>8. Saves'
    BY <1>2, <1>3, <1>4 DEF IInv, Saves, ClientPlaces, InstallPlaces
  <1>9. Settled'
    BY <1>1, <1>2, <1>3, <1>4 DEF IInv, Settled, InstallPlaces
  <1>10. Kept' /\ Recorded'
    BY <1>2, <1>3, <1>4 DEF IInv, Kept, Recorded, Created
  <1>11. PushGoesToClient'
    BY <1>2, <1>3, <1>4 DEF IInv, PushGoesToClient
  <1>12. QED
    BY <1>5, <1>6, <1>7, <1>8, <1>9, <1>10, <1>11 DEF Safe

\* The work directory that a push makes is its client's; one that is there is
\* too, if nobody installs another and nothing is adrift.
LEMMA OpenWorkDirSafe ==
  ASSUME IInv, NEW q \in Request, OpenWorkDir(q)
  PROVE  Safe'
  <1> DEFINE client == InUse(req[q].via)
             calm == \A p \in Request : ~Installing(p)
             local == [at |-> "pushing", client |-> client, calm |-> calm]
  <1>1. /\ TypeOK /\ req[q].at = "call" /\ up
        /\ client \in Client /\ client.repo \in Repo
        /\ origin' = IF origin = NoRepo THEN client.repo ELSE origin
    BY DEF IInv, OpenWorkDir, At, Down, Served, Client
  <1>2. local.at = "pushing" /\ local.client = client
        /\ (local.calm <=> \A p \in Request : ~Installing(p))
    OBVIOUS
  <1>3. \A p \in Request : req'[p] = IF p = q THEN local ELSE req[p]
    BY <1>1, GotoIs DEF OpenWorkDir
  <1>4. UNCHANGED <<conf, settings, secrets, adrift, deps>>
    BY DEF OpenWorkDir
  <1>5. ~adrift /\ (\A p \in Request : req[p].at \notin InstallPlaces) =>
          /\ git = archiver /\ client = git /\ origin \in {NoRepo, client.repo}
    BY <1>1 DEF IInv, Settled, InUse
  <1>6. local.calm => \A p \in Request : req[p].at \notin InstallPlaces
    BY <1>2 DEF Installing, InstallPlaces
  <1> HIDE DEF client, calm, local
  <1> USE DEF At, Saving, deps, secrets
  <1>7. Served'
    BY <1>2, <1>3, <1>4 DEF IInv, Served, InUse
  <1>8. Layers'
    BY <1>2, <1>3, <1>4 DEF IInv, Layers, Layered, Created
  <1>9. Alone'
    BY <1>1, <1>2, <1>3 DEF IInv, Alone, NobodySaves, Installing
  <1>10. Saves'
    <2>1. \A p \in Request : req[p].at \in InstallPlaces /\ req[p].solo => origin' = origin
      <3>1. \A p \in Request : req[p].at \in ClientPlaces => req[p].client.repo \in Repo
        BY <1>1, Shapes DEF Client
      <3>2. QED
        BY <1>1, <3>1, RepoAssumption DEF IInv, Saves, InstallPlaces, ClientPlaces
    <2>2. QED
      BY <1>2, <1>3, <1>4, <2>1 DEF IInv, Saves, ClientPlaces, InstallPlaces
  <1>11. Settled'
    BY <1>1, <1>2, <1>3, <1>4, <1>5 DEF Settled, InstallPlaces
  <1>12. Kept' /\ Recorded'
    BY <1>2, <1>3, <1>4 DEF IInv, Kept, Recorded, Created
  <1>13. PushGoesToClient'
    <2>1. ASSUME NEW p \in Request, p # q, req[p].at = "pushing", req[p].calm, ~adrift
          PROVE  origin' = req[p].client.repo
      <3>1. origin = req[p].client.repo
        BY <2>1 DEF IInv, PushGoesToClient
      <3>2. req[p].client.repo \in Repo
        BY <1>1, <2>1, Shapes DEF Client
      <3>3. QED
        BY <1>1, <3>1, <3>2, RepoAssumption
    <2>2. local.calm /\ ~adrift => origin' = client.repo
      BY <1>1, <1>5, <1>6
    <2>3. QED
      BY <1>2, <1>3, <1>4, <2>1, <2>2 DEF PushGoesToClient
  <1>14. QED
    BY <1>7, <1>8, <1>9, <1>10, <1>11, <1>12, <1>13 DEF Safe

\* A datasource keeps what it was created or saved with.
LEMMA CreateDatasourceSafe ==
  ASSUME IInv, NEW q \in Request, NEW d \in Datasource, NEW new \in Typed,
         CreateDatasource(q, d, new)
  PROVE  Safe'
  <1> DEFINE value == Encrypt(Plain(new))
  <1>1. TypeOK /\ Layers /\ up /\ req[q].at = "admitted" /\ ~Created(d)
    BY DEF IInv, CreateDatasource, At, Down
  <1>2. value \in Value /\ Layered(value) /\ value.of = new
    BY <1>1, EncryptTyped, EncryptIs
  <1>3. /\ password' = [password EXCEPT ![d] = value]
        /\ typed' = [typed EXCEPT ![d] = new] /\ overtaken' = [overtaken EXCEPT ![d] = FALSE]
        /\ UNCHANGED <<conf, settings, workDir, deps>>
    BY DEF CreateDatasource
  <1>4. \A p \in Request : req'[p] = IF p = q THEN Idle ELSE req[p]
    BY <1>1, GotoIs DEF CreateDatasource, Answer
  <1>5. Idle.at = "idle"
    BY DEF Idle
  <1>6. \A e \in Datasource : /\ password'[e] = IF e = d THEN value ELSE password[e]
                              /\ typed'[e] = IF e = d THEN new ELSE typed[e]
                              /\ e # d => overtaken'[e] = overtaken[e]
    BY <1>1, <1>3 DEF TypeOK
  <1> HIDE DEF value
  <1> USE DEF At, Saving, workDir, deps
  <1>7. Served'
    BY <1>3, <1>4, <1>5 DEF IInv, Served, InUse
  <1>8. Layers'
    BY <1>2, <1>3, <1>4, <1>5, <1>6 DEF IInv, Layers, Layered, Created
  <1>9. Alone'
    BY <1>4, <1>5 DEF IInv, Alone, NobodySaves, Installing
  <1>10. Saves'
    BY <1>3, <1>4, <1>5 DEF IInv, Saves, ClientPlaces, InstallPlaces
  <1>11. Settled'
    BY <1>1, <1>3, <1>4, <1>5 DEF IInv, Settled, InstallPlaces
  <1>12. Kept'
    <2>1. \A p \in Request : At(p, "update") => req[p].ds \in Datasource /\ req[p].ds # d
      BY <1>1, Shapes DEF IInv, Kept, EditWork
    <2>2. QED
      BY <1>4, <1>5, <1>6, <2>1 DEF IInv, Kept, Created, NoRow, Plain
  <1>13. Recorded'
    BY <1>2, <1>6 DEF IInv, Recorded, Created, NoRow, Plain
  <1>14. PushGoesToClient'
    BY <1>3, <1>4, <1>5 DEF IInv, PushGoesToClient
  <1>15. QED
    BY <1>7, <1>8, <1>9, <1>10, <1>11, <1>12, <1>13, <1>14 DEF Safe

LEMMA ReadDatasourceSafe ==
  ASSUME IInv, NEW q \in Request, NEW d \in Datasource, NEW new \in Typed,
         ReadDatasource(q, d, new)
  PROVE  Safe'
  <1> DEFINE value == IF new = Blank THEN password[d] ELSE Encrypt(Plain(new))
             local == [at |-> "update", ds |-> d, new |-> new, fresh |-> TRUE,
                       value |-> value]
  <1>1. TypeOK /\ Layers /\ up /\ req[q].at = "admitted" /\ Created(d)
    BY DEF IInv, ReadDatasource, At, Down
  <1>2. Layered(value) /\ (IF new = Blank THEN value = password[d] ELSE value.of = new)
    BY <1>1, EncryptIs DEF Layers
  <1>3. local.at = "update" /\ local.ds = d /\ local.new = new /\ local.value = value
    OBVIOUS
  <1>4. \A p \in Request : req'[p] = IF p = q THEN local ELSE req[p]
    BY <1>1, GotoIs DEF ReadDatasource
  <1>5. UNCHANGED <<conf, settings, secrets, workDir, deps>>
    BY DEF ReadDatasource
  <1> HIDE DEF value, local
  <1> USE DEF At, Saving, workDir, deps, secrets
  <1>6. Served'
    BY <1>3, <1>4, <1>5 DEF IInv, Served, InUse
  <1>7. Layers'
    BY <1>2, <1>3, <1>4, <1>5 DEF IInv, Layers, Layered, Created
  <1>8. Alone'
    BY <1>3, <1>4 DEF IInv, Alone, NobodySaves, Installing
  <1>9. Saves'
    BY <1>3, <1>4, <1>5 DEF IInv, Saves, ClientPlaces, InstallPlaces
  <1>10. Settled'
    BY <1>1, <1>3, <1>4, <1>5 DEF IInv, Settled, InstallPlaces
  <1>11. Kept'
    BY <1>1, <1>2, <1>3, <1>4, <1>5 DEF IInv, Kept, Created
  <1>12. Recorded'
    BY <1>5 DEF IInv, Recorded, Created
  <1>13. PushGoesToClient'
    BY <1>3, <1>4, <1>5 DEF IInv, PushGoesToClient
  <1>14. QED
    BY <1>6, <1>7, <1>8, <1>9, <1>10, <1>11, <1>12, <1>13 DEF Safe

LEMMA UpdateDatasourceSafe ==
  ASSUME IInv, NEW q \in Request, UpdateDatasource(q)
  PROVE  Safe'
  <1> DEFINE d == req[q].ds
             value == req[q].value
  <1>1. /\ TypeOK /\ req[q].at = "update" /\ req[q] \in EditWork
        /\ d \in Datasource /\ value \in Value /\ Layered(value) /\ Created(d)
    BY Shapes DEF IInv, UpdateDatasource, At, Layers, Kept, EditWork
  <1>2. value # NoRow
    BY <1>1, CryptoType
  <1>3. \A e \in Datasource :
          /\ password'[e] = IF e = d THEN value ELSE password[e]
          /\ e # d => typed'[e] = typed[e] /\ overtaken'[e] = overtaken[e]
    BY <1>1 DEF UpdateDatasource, TypeOK
  <1>4. ~overtaken'[d] => value.of = typed'[d]
    <2>1. CASE req[q].new = Blank /\ req[q].fresh
      <3>1. value = password[d]
        BY <1>1, <2>1 DEF IInv, Kept, At
      <3>2. typed'[d] = typed[d] /\ (overtaken'[d] <=> overtaken[d])
        BY <1>1, <2>1 DEF UpdateDatasource, TypeOK
      <3>3. QED
        BY <1>1, <3>1, <3>2 DEF IInv, Recorded
    <2>2. CASE req[q].new = Blank /\ ~req[q].fresh
      BY <1>1, <2>2 DEF UpdateDatasource, TypeOK
    <2>3. CASE req[q].new # Blank
      <3>1. value.of = req[q].new
        BY <1>1, <2>3 DEF IInv, Kept, At
      <3>2. typed'[d] = req[q].new
        BY <1>1, <2>3 DEF UpdateDatasource, TypeOK
      <3>3. QED
        BY <3>1, <3>2
    <2>4. QED
      BY <2>1, <2>2, <2>3
  <1>5. /\ req'[q] = Idle
        /\ \A p \in Request : p # q =>
             /\ req'[p].at = req[p].at
             /\ ~At(p, "update") => req'[p] = req[p]
             /\ At(p, "update") =>
                  /\ req'[p].ds = req[p].ds /\ req'[p].new = req[p].new
                  /\ req'[p].value = req[p].value
                  /\ req'[p].fresh => req[p].fresh /\ req[p].ds # d
    <2>1. req'[q] = Idle
      BY <1>1 DEF UpdateDatasource, TypeOK
    <2>2. ASSUME NEW p \in Request, p # q, At(p, "update")
          PROVE  req'[p] = [req[p] EXCEPT !.fresh = req[p].fresh /\ req[p].ds # d]
      BY <2>2 DEF UpdateDatasource, TypeOK
    <2>3. ASSUME NEW p \in Request, p # q, ~At(p, "update")
          PROVE  req'[p] = req[p]
      BY <2>3 DEF UpdateDatasource, TypeOK
    <2>4. \A p \in Request : At(p, "update") => req[p] \in EditWork
      BY <1>1, Shapes
    <2>5. QED
      BY <2>1, <2>2, <2>3, <2>4 DEF EditWork, At
  <1>6. UNCHANGED <<conf, settings, workDir, deps>>
    BY DEF UpdateDatasource
  <1>7. Idle.at = "idle"
    BY DEF Idle
  <1> HIDE DEF d, value
  <1> USE DEF At, Saving, workDir, deps
  <1>8. Served'
    BY <1>5, <1>6, <1>7 DEF IInv, Served, InUse
  <1>9. Layers'
    BY <1>1, <1>3, <1>5, <1>6, <1>7 DEF IInv, Layers, Layered, Created
  <1>10. Alone'
    BY <1>5, <1>7 DEF IInv, Alone, NobodySaves, Installing
  <1>11. Saves'
    BY <1>5, <1>6, <1>7 DEF IInv, Saves, ClientPlaces, InstallPlaces
  <1>12. Settled'
    BY <1>1, <1>5, <1>6, <1>7 DEF IInv, Settled, InstallPlaces
  <1>13. Kept'
    <2>1. \A p \in Request : At(p, "update") => req[p].ds \in Datasource
      BY <1>1, Shapes DEF EditWork
    <2>2. NoRow' = NoRow
      BY DEF NoRow, Plain
    <2>3. QED
      BY <1>2, <1>3, <1>5, <1>7, <2>1, <2>2 DEF IInv, Kept, Created
  <1>14. Recorded'
    <2>1. NoRow' = NoRow
      BY DEF NoRow, Plain
    <2>2. QED
      BY <1>1, <1>3, <1>4, <2>1 DEF IInv, Recorded, Created
  <1>15. PushGoesToClient'
    BY <1>5, <1>6, <1>7 DEF IInv, PushGoesToClient
  <1>16. QED
    BY <1>8, <1>9, <1>10, <1>11, <1>12, <1>13, <1>14, <1>15 DEF Safe

\* The process starts with one client for all, and everybody is idle.
LEMMA StartSafe ==
  ASSUME IInv, Start
  PROVE  Safe'
  <1>1. /\ TypeOK /\ \A q \in Request : req[q].at = "idle"
        /\ archiver' = git' /\ adrift' = (origin \notin {NoRepo, git'.repo})
        /\ up' = TRUE /\ aes' = conf.aes
        /\ UNCHANGED <<conf, settings, secrets, origin, req>>
    BY DEF IInv, Start, Down, At
  <1> USE DEF At, Saving, secrets
  <1>2. Served' /\ Alone' /\ Saves' /\ PushGoesToClient'
    BY <1>1 DEF Served, Alone, Saves, PushGoesToClient, ClientPlaces,
                InstallPlaces
  <1>3. Layers'
    BY <1>1 DEF IInv, Layers, Layered, Created, TypeOK
  <1>4. Settled'
    BY <1>1 DEF Settled
  <1>5. Kept' /\ Recorded'
    BY <1>1 DEF IInv, Kept, Recorded, Created
  <1>6. QED
    BY <1>2, <1>3, <1>4, <1>5 DEF Safe

LEMMA StopSafe ==
  ASSUME IInv, Stop
  PROVE  Safe'
  <1>1. /\ up' = FALSE /\ aes' = FALSE
        /\ \A q \in Request : req'[q].at = "idle"
        /\ UNCHANGED <<conf, settings, secrets>>
    BY DEF Stop, Idle
  <1> USE DEF At, Saving, secrets
  <1>2. Served' /\ Alone' /\ Saves' /\ PushGoesToClient'
    BY <1>1 DEF Served, Alone, Saves, PushGoesToClient, ClientPlaces,
                InstallPlaces
  <1>3. Layers'
    BY <1>1 DEF IInv, Layers, Layered, Created
  <1>4. Settled'
    BY <1>1 DEF Settled
  <1>5. Kept' /\ Recorded'
    BY <1>1 DEF IInv, Kept, Recorded, Created
  <1>6. QED
    BY <1>2, <1>3, <1>4, <1>5 DEF Safe

LEMMA EnableAESSafe ==
  ASSUME IInv, EnableAES
  PROVE  Safe'
  <1>1. /\ up = FALSE /\ conf'.aes = TRUE
        /\ UNCHANGED <<settings, secrets, workDir, deps, req>>
    BY DEF IInv, TypeOK, EnableAES
  <1>2. aes = FALSE
    BY <1>1 DEF IInv, Layers
  <1> USE DEF At, Saving, secrets, workDir, deps
  <1>3. Served' /\ Alone' /\ Saves' /\ PushGoesToClient' /\ Settled'
    BY <1>1 DEF IInv, Served, Alone, Saves, PushGoesToClient, Settled, InUse, Installing
  <1>4. Layers'
    BY <1>1, <1>2 DEF Layers, Layered
  <1>5. Kept' /\ Recorded'
    BY <1>1 DEF IInv, Kept, Recorded, Created
  <1>6. QED
    BY <1>3, <1>4, <1>5 DEF Safe

LEMMA UnchangedSafe ==
  ASSUME IInv, UNCHANGED <<conf, settings, secrets, workDir, deps, req>>
  PROVE  Safe'
  BY DEF IInv, Safe, Served, Layers, Layered, Alone, Saves, Settled, Kept, Recorded,
         PushGoesToClient, InUse, Installing, Created, At, Saving, secrets, workDir, deps

LEMMA VisitSafe ==
  ASSUME IInv, NEW q \in Request,
         (\E t \in Session : Arrive(q, t)) \/ LoadUser(q) \/ Leave(q) \/ Push(q)
  PROVE  Safe'
  <1>1. TypeOK
    BY DEF IInv
  <1>2. CASE \E t \in Session : Arrive(q, t)
    <2>1. PICK t \in Session : Arrive(q, t)
      BY <1>2
    <2>2. [at |-> "user", cookie |-> t] \in Local
      BY DEF Local, Visit
    <2>3. QED
      BY <2>1, <2>2, QuietStep DEF Arrive, At, Still, InstallPlaces
  <1>3. CASE LoadUser(q)
    <2>1. /\ [req[q] EXCEPT !.at = "admitted"] \in Local
          /\ [req[q] EXCEPT !.at = "admitted"].at = "admitted"
      BY <1>1, <1>3 DEF TypeOK, LoadUser, At, Local, Idle, Visit, SaveWork, PushWork, EditWork
    <2>2. Idle \in Local /\ Idle.at = "idle"
      BY DEF Local, Idle
    <2>3. QED
      BY <1>3, <2>1, <2>2, QuietStep DEF LoadUser, Answer, At, Still, InstallPlaces
  <1>4. CASE Leave(q) \/ Push(q)
    <2>1. Idle \in Local /\ Idle.at = "idle"
      BY DEF Local, Idle
    <2>2. QED
      BY <1>4, <2>1, QuietStep DEF Leave, Push, Answer, At, Still, InstallPlaces
  <1>5. QED
    BY <1>2, <1>3, <1>4

LEMMA NextSafe ==
  ASSUME IInv, [Next]_vars
  PROVE  Safe'
  <1>1. CASE UNCHANGED vars \/ \E t \in Session : Login(t) \/ Logout(t)
    BY <1>1, UnchangedSafe DEF vars, Login, Logout
  <1>2. CASE \E q \in Request : ConfigStep(q) \/ PushStep(q)
    BY <1>2, SaveSettingsSafe, RemoveWorkDirSafe, InitRepoSafe, InitRepoFailsSafe, SetGitSafe,
       SetArchiverSafe, OpenWorkDirSafe, VisitSafe DEF ConfigStep, PushStep
  <1>3. CASE \E q \in Request :
               \/ \E t \in Session : Arrive(q, t)
               \/ LoadUser(q) \/ Leave(q)
    BY <1>3, VisitSafe
  <1>4. CASE \E q \in Request :
               \/ \E ajax \in BOOLEAN, r \in Repo, t \in Typed : ReadSettings(q, ajax, r, t)
               \/ \E via \in {"git", "archiver"} : BeginPush(q, via)
    BY <1>4, ReadSettingsSafe, BeginPushSafe
  <1>5. CASE \E q \in Request :
               \/ \E d \in Datasource, new \in Typed : CreateDatasource(q, d, new)
                                                       \/ ReadDatasource(q, d, new)
               \/ UpdateDatasource(q)
    BY <1>5, CreateDatasourceSafe, ReadDatasourceSafe, UpdateDatasourceSafe
  <1>6. CASE Start \/ Stop \/ EnableAES
    BY <1>6, StartSafe, StopSafe, EnableAESSafe
  <1>7. QED
    BY <1>1, <1>2, <1>3, <1>4, <1>5, <1>6 DEF Next

\* Only a running process has requests.
LEMMA DownKept ==
  ASSUME IInv, [Next]_vars
  PROVE  Down'
  <1>1. TypeOK /\ Down
    BY DEF IInv
  <1>2. CASE UNCHANGED vars \/ Start \/ EnableAES \/ \E t \in Session : Login(t) \/ Logout(t)
    BY <1>1, <1>2 DEF vars, deps, Start, EnableAES, Login, Logout, Down, At
  <1>3. CASE Stop
    BY <1>3 DEF Stop, Down, At, Idle
  <1>4. ASSUME NEW q \in Request,
               \/ \E t \in Session : Arrive(q, t)
               \/ LoadUser(q) \/ Leave(q) \/ ConfigStep(q) \/ PushStep(q)
               \/ \E ajax \in BOOLEAN, r \in Repo, t \in Typed : ReadSettings(q, ajax, r, t)
               \/ \E via \in {"git", "archiver"} : BeginPush(q, via)
               \/ \E d \in Datasource, new \in Typed : CreateDatasource(q, d, new)
                                                       \/ ReadDatasource(q, d, new)
               \/ UpdateDatasource(q)
        PROVE  up /\ up' = up
    BY <1>1, <1>4 DEF Down, At, Arrive, LoadUser, Leave, ConfigStep, PushStep, ReadSettings,
                      BeginPush, CreateDatasource, ReadDatasource, UpdateDatasource,
                      SaveSettings, RemoveWorkDir, InitRepo, InitRepoFails, SetGit,
                      SetArchiver, OpenWorkDir, Push, deps
  <1>5. QED
    BY <1>2, <1>3, <1>4 DEF Next, Down

\* Who loads a user found the session, earlier or in this step.
LEMMA UserArrived ==
  ASSUME IInv, [Next]_vars, NEW p \in Request, At(p, "user")'
  PROVE  \/ At(p, "user") /\ req'[p].cookie = req[p].cookie
         \/ req'[p].cookie \in session /\ given' = given
  <1>1. TypeOK
    BY DEF IInv
  <1>2. CASE UNCHANGED req
    BY <1>2 DEF At
  <1>3. CASE Stop
    BY <1>3 DEF Stop, At, Idle
  <1>4. ASSUME NEW q \in Request, NEW l, Goto(q, l), l.at # "user"
        PROVE  req'[p] = req[p]
    BY <1>1, <1>4, GotoIs DEF At
  <1>5. ASSUME NEW q \in Request, Answer(q)
        PROVE  req'[p] = req[p]
    BY <1>4, <1>5 DEF Answer, Idle
  <1>6. ASSUME NEW q \in Request, NEW t \in Session, Arrive(q, t)
        PROVE  \/ req'[p] = req[p]
               \/ req'[p].cookie \in session /\ given' = given
    BY <1>1, <1>6, GotoIs DEF Arrive, logins
  <1>7. ASSUME NEW q \in Request, LoadUser(q)
        PROVE  req'[p] = req[p]
    <2>1. [req[q] EXCEPT !.at = "admitted"].at # "user"
      BY <1>1, <1>7 DEF TypeOK, LoadUser, At, Idle, Visit, SaveWork, PushWork, EditWork
    <2>2. QED
      BY <1>4, <1>5, <1>7, <2>1 DEF LoadUser
  <1>8. ASSUME NEW q \in Request, NEW ajax \in BOOLEAN, NEW r \in Repo, NEW t \in Typed,
               ReadSettings(q, ajax, r, t)
        PROVE  req'[p] = req[p]
    BY <1>1, <1>8, Shapes DEF ReadSettings, Disturb, TypeOK, At, Idle, Visit, SaveWork,
                              PushWork, EditWork
  <1>9. ASSUME NEW q \in Request, ConfigStep(q)
        PROVE  req'[p] = req[p]
    <2>1. CASE SaveSettings(q)
      BY <1>4, <1>5, <2>1 DEF SaveSettings
    <2>2. CASE InitRepoFails(q) \/ SetArchiver(q)
      BY <1>5, <2>2 DEF InitRepoFails, SetArchiver
    <2>3. CASE InitRepo(q) \/ SetGit(q)
      <3>1. \A place \in ClientPlaces : req[q].at \in ClientPlaces =>
              [req[q] EXCEPT !.at = place].at # "user"
        BY <1>1, Shapes DEF ClientPlaces
      <3>2. QED
        BY <1>4, <2>3, <3>1 DEF InitRepo, SetGit, At, ClientPlaces
    <2>4. CASE RemoveWorkDir(q)
      <3>1. /\ At(q, "init") => [req[q] EXCEPT !.at = "clone"].at # "user"
            /\ At(p, "pushing") => [req[p] EXCEPT !.calm = FALSE].at # "user"
        BY <1>1, Shapes DEF ClientPlaces, At
      <3>2. QED
        BY <1>1, <2>4, <3>1 DEF RemoveWorkDir, At
    <2>5. QED
      BY <1>9, <2>1, <2>2, <2>3, <2>4 DEF ConfigStep
  <1>10. ASSUME NEW q \in Request, NEW d \in Datasource, NEW new \in Typed,
                CreateDatasource(q, d, new) \/ ReadDatasource(q, d, new)
         PROVE  req'[p] = req[p]
    BY <1>4, <1>5, <1>10 DEF CreateDatasource, ReadDatasource
  <1>11. ASSUME NEW q \in Request, NEW via \in {"git", "archiver"},
                Leave(q) \/ BeginPush(q, via) \/ PushStep(q)
         PROVE  req'[p] = req[p]
    BY <1>4, <1>5, <1>11 DEF Leave, BeginPush, PushStep, OpenWorkDir, Push
  <1>12. ASSUME NEW q \in Request, UpdateDatasource(q)
         PROVE  req'[p] = req[p]
    <2>1. At(p, "update") => req[p] \in EditWork
      BY <1>1, Shapes
    <2>2. QED
      BY <1>1, <1>12, <2>1 DEF UpdateDatasource, TypeOK, At, Idle, EditWork
  <1>13. QED
    BY <1>2, <1>3, <1>6, <1>7, <1>8, <1>9, <1>10, <1>11, <1>12
    DEF Next, vars, Start, EnableAES, Login, Logout, At

\* Sessions come from tokens that were never given before.
LEMMA SessionsKept ==
  ASSUME IInv, [Next]_vars
  PROVE  Given' /\ EndedStaysEnded'
  <1>1. TypeOK /\ Given /\ EndedStaysEnded
    BY DEF IInv
  <1>2. CASE UNCHANGED logins
    <2>1. \A p \in Request : At(p, "user")' => req'[p].cookie \in given'
      BY <1>1, <1>2, UserArrived DEF Given, logins
    <2>2. QED
      BY <1>1, <1>2, <2>1 DEF logins, Given, EndedStaysEnded
  <1>3. CASE Stop
    BY <1>1, <1>3 DEF Stop, Given, EndedStaysEnded, At, Idle
  <1>4. ASSUME NEW t \in Session, Login(t) \/ Logout(t)
        PROVE  Given' /\ EndedStaysEnded'
    BY <1>1, <1>4 DEF Login, Logout, Given, EndedStaysEnded, At
  <1>5. ASSUME NEW q \in Request, LoadUser(q)
        PROVE  Given' /\ EndedStaysEnded'
    <2>1. CASE UNCHANGED logins
      BY <1>2, <2>1
    <2>2. CASE /\ session' = session \ {req[q].cookie}
               /\ ended' = ended \cup {req[q].cookie}
               /\ given' = given
      <3>1. \A p \in Request : At(p, "user")' => req'[p].cookie \in given'
        BY <1>1, <2>2, UserArrived DEF Given
      <3>2. req[q].cookie \in given
        BY <1>1, <1>5 DEF LoadUser, Given
      <3>3. QED
        BY <1>1, <2>2, <3>1, <3>2 DEF Given, EndedStaysEnded
    <2>3. QED
      BY <1>5, <2>1, <2>2 DEF LoadUser
  <1>6. QED
    BY <1>2, <1>3, <1>4, <1>5
    DEF Next, vars, Start, EnableAES, Arrive, Leave, ReadSettings, ConfigStep, SaveSettings,
        RemoveWorkDir, InitRepo, InitRepoFails, SetGit, SetArchiver, BeginPush, PushStep,
        OpenWorkDir, Push, CreateDatasource, ReadDatasource, UpdateDatasource

LEMMA InitInvariant == Init => IInv
  <1> SUFFICES ASSUME Init PROVE IInv
    OBVIOUS
  <1>1. TypeOK
    BY InitType
  <1>2. \A q \in Request : req[q].at = "idle"
    BY DEF Init, Idle
  <1>3. Down /\ Served /\ Alone /\ Saves /\ PushGoesToClient
    BY <1>2 DEF Down, Served, Alone, Saves, PushGoesToClient, ClientPlaces,
                InstallPlaces, At, Saving
  <1>4. \A d \in Datasource : ~Created(d)
    BY DEF Init, Created
  <1>5. Layers
    <2>1. Layered(settings.token)
      BY DEF Init, Layered, NoRow, Plain
    <2>2. QED
      BY <1>2, <1>4, <2>1 DEF Layers, Init, At
  <1>6. Kept /\ Recorded
    BY <1>2, <1>4 DEF Kept, Recorded, At
  <1>7. Settled /\ Given /\ EndedStaysEnded
    BY <1>2 DEF Init, Settled, Given, EndedStaysEnded, At
  <1>8. QED
    BY <1>1, <1>3, <1>5, <1>6, <1>7 DEF IInv

LEMMA NextKeepsInvariant == IInv /\ [Next]_vars => IInv'
  <1> SUFFICES ASSUME IInv, [Next]_vars PROVE IInv'
    OBVIOUS
  <1>1. TypeOK'
    BY NextType DEF IInv
  <1>2. QED
    BY <1>1, NextSafe, DownKept, SessionsKept DEF IInv, Safe

\* The inductive invariant holds of every behaviour.
THEOREM Invariance == Spec => []IInv
  BY InitInvariant, NextKeepsInvariant, PTL DEF Spec

-----------------------------------------------------------------------------
(* The properties, for every value of the constants.                       *)

\* The state of the process, its requests and its rows is well typed: nothing is
\* encrypted twice, and no handler calls a client that is not there.
THEOREM TypeCorrect == Spec => []TypeOK
  <1>1. IInv => TypeOK
    BY DEF IInv
  <1>2. QED
    BY <1>1, Invariance, PTL

\* Whenever AES is enabled, a running process decrypts the stored password of a
\* datasource to one that was typed; and to the one last typed, unless an edit that
\* left it blank has overwritten another that came after it had read the row.
THEOREM PasswordsUsable == Spec => []PasswordUsable
  <1>1. IInv => PasswordUsable
    <2> SUFFICES ASSUME IInv, up, NEW d \in Datasource, Created(d)
                 PROVE  /\ Decrypt(password[d]).layers = 0
                        /\ ~overtaken[d] => Decrypt(password[d]).of = typed[d]
      BY DEF PasswordUsable
    <2>1. TypeOK /\ Layers /\ password[d] \in Value /\ Layered(password[d])
      BY DEF IInv, TypeOK, Layers, Created
    <2>2. ~overtaken[d] => password[d].of = typed[d]
      BY DEF IInv, Recorded
    <2>3. Decrypt(password[d]) = Plain(password[d].of)
      BY <2>1, DecryptIs
    <2>4. QED
      BY <2>2, <2>3 DEF Plain
  <1>2. QED
    BY <1>1, Invariance, PTL

\* A commit goes to the repository of its client, also if the configuration was
\* replaced after the handler had looked for a client: except where a save has
\* removed the work directory and not yet set both clients, or it is adrift.
THEOREM PushesGoToClients == Spec => []PushGoesToClient
  <1>1. IInv => PushGoesToClient
    BY DEF IInv
  <1>2. QED
    BY <1>1, Invariance, PTL

\* No request brings a session back that was ended under it.
THEOREM EndedSessionsStayEnded == Spec => []EndedStaysEnded
  <1>1. IInv => EndedStaysEnded
    BY DEF IInv
  <1>2. QED
    BY <1>1, Invariance, PTL

\* A save that overlapped no other and ends well is served by everybody.
THEOREM SavesAreServed == Spec => SaveServes
  <1>1. IInv /\ [Next]_vars =>
          [\A q \in Request : SetArchiver(q) /\ req[q].solo => Serves']_vars
    <2> SUFFICES ASSUME IInv, NEW q \in Request, SetArchiver(q), req[q].solo
                 PROVE  Serves'
      OBVIOUS
    <2>1. req[q].at = "setArchiver"
      BY DEF SetArchiver, At
    <2>2. /\ req[q].client = [repo |-> settings.repo, token |-> Plain(settings.token.of)]
          /\ origin = req[q].client.repo /\ git = req[q].client
      BY <2>1 DEF IInv, Saves, ClientPlaces, InstallPlaces, At
    <2>3. UNCHANGED <<settings, origin, git>> /\ archiver' = req[q].client
      BY DEF SetArchiver
    <2>4. QED
      BY <2>2, <2>3 DEF Serves, Plain
  <1>2. QED
    BY <1>1, Invariance, PTL DEF Spec, SaveServes
=============================================================================
