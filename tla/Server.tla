------------------------------- MODULE Server -------------------------------
(***************************************************************************)
(* The process and what it keeps in memory beside the database: the crypto *)
(* in use, the Git client and the archiver's client (web.Deps), and the    *)
(* sessions; how they are built at start-up (cmd/server/main.go) and       *)
(* changed by the handlers of internal/web/git.go, auth.go, datasource.go  *)
(* and script.go that run at the same time.                                *)
(*                                                                         *)
(* A step is one access to the database, to a field of Deps, to the map of *)
(* sessions or to the work directory of Git.  A request first passes       *)
(* AuthMiddleware.  The background sync of a script is a request that has  *)
(* passed it.                                                              *)
(***************************************************************************)
EXTENDS Integers, FiniteSets

CONSTANTS
  Repo, NoRepo,     \* Git repositories; no address: ""
  Secret, Blank,    \* Git tokens and passwords; an empty field
  Datasource,
  Session,          \* the random tokens that log-ins may draw
  Request, MayFail  \* requests at once; may the database or the network fail?

ASSUME SecretAssumption == Blank \notin Secret
ASSUME RepoAssumption   == NoRepo \notin Repo
ASSUME FailAssumption   == MayFail \in BOOLEAN

VARIABLES
  conf,       \* config.yaml: address, token, and whether admin_pw_hash is set
  settings,   \* the row of settings; no row reads as an empty one
  password,   \* datasource.password_enc
  origin,     \* the remote of the work directory, which outlives the process
  up, aes,    \* is the process serving; is the crypto in use AES?
  git,        \* Deps.Git
  archiver,   \* the client in Deps.Archiver
  session,    \* sessionStore.tokens
  req,        \* local state of every request
  given,      \* history: session tokens ever given
  ended,      \* history: sessions that were ended
  typed,      \* history: the password somebody last typed for a datasource
  overtaken,  \* history: an edit that left it blank has overwritten another since
  adrift      \* history: a start-up, a save that failed or saves that overlapped
              \* may have left the work directory to another repository

deps    == <<up, aes, git, archiver>>
secrets == <<password, typed, overtaken>>
logins  == <<session, given, ended>>
workDir == <<origin, adrift>>
vars == <<conf, settings, secrets, workDir, deps, logins, req>>

-----------------------------------------------------------------------------
(* internal/crypto.  A value is what somebody typed under so many layers   *)
(* of encryption; the key stays the same.                                  *)

Typed == Secret \cup {Blank}
Value == [of : Typed, layers : 0 .. 1]
Plain(v) == [of |-> v, layers |-> 0]

\* Stub.Encrypt is the identity.
Encrypt(v) == IF aes THEN [v EXCEPT !.layers = @ + 1] ELSE v

\* Fault: what does not decrypt is not noticed.
DecryptAlways(v) == IF aes THEN [v EXCEPT !.layers = @ - 1] ELSE v

\* AES.Decrypt returns a value that it cannot decrypt as it is.
Decrypt(v) == IF aes /\ v.layers > 0 THEN [v EXCEPT !.layers = @ - 1] ELSE v

-----------------------------------------------------------------------------
Config   == [repo : Repo \cup {NoRepo}, token : Value]
Client   == [repo : Repo, token : Value]
NoClient == [repo |-> NoRepo, token |-> Plain(Blank)]
NoRow    == [repo |-> NoRepo, token |-> Plain(Blank)]

Idle == [at |-> "idle"]
Visit    == [at : {"user", "admitted"}, cookie : Session]
SaveWork == [at : {"save"}, ajax : BOOLEAN, row : Config, plain : Value, solo : BOOLEAN]
            \cup [at : {"init", "clone", "setGit", "setArchiver"}, client : Client,
                  solo : BOOLEAN]
PushWork == [at : {"call"}, via : {"git", "archiver"}]
            \cup [at : {"pushing"}, client : Client, calm : BOOLEAN]
EditWork == [at : {"update"}, ds : Datasource, new : Typed, value : Value, fresh : BOOLEAN]

TypeOK ==
  /\ conf \in [repo : Repo \cup {NoRepo}, token : Value, aes : BOOLEAN]
  /\ settings \in Config
  /\ password \in [Datasource -> Value \cup {NoRow}]
  /\ origin \in Repo \cup {NoRepo}
  /\ up \in BOOLEAN /\ aes \in BOOLEAN
  /\ {git, archiver} \subseteq Client \cup {NoClient}
  /\ session \subseteq Session
  /\ req \in [Request -> {Idle} \cup Visit \cup SaveWork \cup PushWork \cup EditWork]
  /\ given \subseteq Session /\ ended \subseteq Session
  /\ typed \in [Datasource -> Typed] /\ overtaken \in [Datasource -> BOOLEAN]
  /\ adrift \in BOOLEAN

\* A new installation, or one that used the stub and config.yaml.
Init ==
  /\ conf \in [repo : Repo \cup {NoRepo}, token : {Plain(v) : v \in Typed}, aes : BOOLEAN]
  /\ settings = NoRow
  /\ password = [d \in Datasource |-> NoRow]
  /\ origin = NoRepo /\ adrift = FALSE
  /\ up = FALSE /\ aes = FALSE /\ git = NoClient /\ archiver = NoClient
  /\ session = {} /\ given = {} /\ ended = {}
  /\ req = [q \in Request |-> Idle]
  /\ typed = [d \in Datasource |-> Blank] /\ overtaken = [d \in Datasource |-> FALSE]

At(q, place) == req[q].at = place
Goto(q, l) == req' = [req EXCEPT ![q] = l]
Answer(q) == Goto(q, Idle)
Saving(q) == req[q].at \in {"save", "init", "clone", "setGit", "setArchiver"}
NobodySaves == \A q \in Request : ~Saving(q)

\* Request q has removed the work directory and not yet set both clients.
Installing(q) == req[q].at \in {"clone", "setGit", "setArchiver"}

\* Request q begins to save: others that save are no longer alone.
Disturb(q, l) ==
  req' = [p \in Request |->
            IF p = q THEN l
            ELSE IF "solo" \in DOMAIN req[p] THEN [req[p] EXCEPT !.solo = FALSE]
            ELSE req[p]]

-----------------------------------------------------------------------------
(* The process: cmd/server/main.go.                                        *)

\* Steps 1-4 of main: a saved configuration takes precedence over config.yaml,
\* unless it cannot be read; the token is handed on as it is stored.
Start ==
  /\ ~up
  /\ up' = TRUE /\ aes' = conf.aes
  /\ \E row \in {settings} \cup (IF MayFail THEN {NoRow} ELSE {}) :
       LET c == IF row.repo # NoRepo THEN row ELSE [repo |-> conf.repo, token |-> conf.token]
       IN git' = IF c.repo = NoRepo THEN NoClient ELSE c
  /\ archiver' = git'
  /\ adrift' = (origin \notin {NoRepo, git'.repo})
  /\ UNCHANGED <<conf, settings, secrets, origin, logins, req>>

\* A crash, or a shutdown, which waits ten seconds for handlers and not at all
\* for the goroutines that sync scripts.  The memory is lost.
Stop ==
  /\ up
  /\ up' = FALSE /\ aes' = FALSE
  /\ git' = NoClient /\ archiver' = NoClient
  /\ session' = {} /\ ended' = ended \cup session
  /\ req' = [q \in Request |-> Idle]
  /\ UNCHANGED <<conf, settings, secrets, workDir, given>>

\* The operator sets admin_pw_hash, "during the transition from Stub to AES".
EnableAES ==
  /\ ~up /\ ~conf.aes
  /\ conf' = [conf EXCEPT !.aes = TRUE]
  /\ UNCHANGED <<settings, secrets, workDir, deps, logins, req>>

-----------------------------------------------------------------------------
(* Sessions: internal/web/auth.go.                                         *)

\* loginSubmit, with the right password.
Login(t) ==
  /\ up /\ t \notin given
  /\ session' = session \cup {t} /\ given' = given \cup {t}
  /\ UNCHANGED <<conf, settings, secrets, workDir, deps, req, ended>>

Logout(t) ==
  /\ up /\ t \in session
  /\ session' = session \ {t} /\ ended' = ended \cup {t}
  /\ UNCHANGED <<conf, settings, secrets, workDir, deps, req, given>>

\* AuthMiddleware: the session is looked up under the lock.
Arrive(q, t) ==
  /\ up /\ At(q, "idle")
  /\ t \in session
  /\ Goto(q, [at |-> "user", cookie |-> t])
  /\ UNCHANGED <<conf, settings, secrets, workDir, deps, logins>>

\* Fault: a visit renews the session.
Renew(q) ==
  /\ At(q, "user")
  /\ Goto(q, [req[q] EXCEPT !.at = "admitted"])
  /\ session' = session \cup {req[q].cookie}
  /\ UNCHANGED <<conf, settings, secrets, workDir, deps, given, ended>>

\* Then the user is loaded without it; on any error the session is deleted.
LoadUser(q) ==
  /\ At(q, "user")
  /\ \/ /\ Goto(q, [req[q] EXCEPT !.at = "admitted"])
        /\ UNCHANGED logins
     \/ /\ MayFail
        /\ session' = session \ {req[q].cookie}
        /\ ended' = ended \cup {req[q].cookie}
        /\ Answer(q) /\ UNCHANGED given
  /\ UNCHANGED <<conf, settings, secrets, workDir, deps>>

\* A page that only reads, a refused form, or a statement that failed.
Leave(q) ==
  /\ At(q, "admitted") \/ (MayFail /\ (At(q, "save") \/ At(q, "update")))
  /\ Answer(q)
  /\ UNCHANGED <<conf, settings, secrets, workDir, deps, logins>>

-----------------------------------------------------------------------------
(* The Git configuration: internal/web/git.go, internal/repo/settings.go.  *)

\* Fault: a token that is kept is used as it is stored.
ReadSettingsRaw(q, ajax, r, t) ==
  /\ At(q, "admitted")
  /\ LET token == IF t = Blank THEN settings.token ELSE Encrypt(Plain(t))
     IN Disturb(q, [at |-> "save", ajax |-> ajax, row |-> [repo |-> r, token |-> token],
                    plain |-> token, solo |-> NobodySaves])
  /\ UNCHANGED <<conf, settings, secrets, workDir, deps, logins>>

\* saveGitConfig (a form) and ajaxSaveGitConfig (the page): the row is read; a
\* token left blank is kept, and decrypted for the client.
ReadSettings(q, ajax, r, t) ==
  /\ At(q, "admitted")
  /\ LET token == IF t = Blank THEN settings.token ELSE Encrypt(Plain(t))
     IN Disturb(q, [at |-> "save", ajax |-> ajax, row |-> [repo |-> r, token |-> token],
                    plain |-> Decrypt(token), solo |-> NobodySaves])
  /\ UNCHANGED <<conf, settings, secrets, workDir, deps, logins>>

\* SaveSettings writes the whole row.  The form is answered without a client.
SaveSettings(q) ==
  /\ At(q, "save")
  /\ settings' = req[q].row
  /\ IF req[q].ajax
       THEN Goto(q, [at |-> "init", solo |-> req[q].solo,
                     client |-> [repo |-> req[q].row.repo, token |-> req[q].plain]])
       ELSE Answer(q)
  /\ UNCHANGED <<conf, secrets, workDir, deps, logins>>

\* Fault: InitRepo opens a work directory that is there.
KeepWorkDir(q) ==
  /\ At(q, "init")
  /\ Goto(q, [req[q] EXCEPT !.at = IF origin = NoRepo THEN "clone" ELSE "setGit"])
  /\ UNCHANGED <<conf, settings, secrets, workDir, deps, logins>>

\* InitRepo removes the work directory, also under those who push from it,
RemoveWorkDir(q) ==
  /\ At(q, "init")
  /\ origin' = NoRepo
  /\ req' = [p \in Request |-> IF p = q THEN [req[p] EXCEPT !.at = "clone"]
                               ELSE IF At(p, "pushing") THEN [req[p] EXCEPT !.calm = FALSE]
                               ELSE req[p]]
  /\ UNCHANGED <<conf, settings, secrets, adrift, deps, logins>>

\* and clones the repository, or fills an empty one.
InitRepo(q) ==
  /\ At(q, "clone") /\ origin = NoRepo
  /\ origin' = req[q].client.repo
  /\ Goto(q, [req[q] EXCEPT !.at = "setGit"])
  /\ UNCHANGED <<conf, settings, secrets, adrift, deps, logins>>

\* It fails: the work directory was made anew meanwhile; or the network did,
\* and left nothing, or a repository whose first commit was not pushed.
InitRepoFails(q) ==
  /\ At(q, "clone") /\ (MayFail \/ origin # NoRepo)
  /\ \/ UNCHANGED workDir
     \/ /\ origin = NoRepo
        /\ origin' = req[q].client.repo /\ adrift' = TRUE
  /\ Answer(q)
  /\ UNCHANGED <<conf, settings, secrets, deps, logins>>

\* Two writes without a lock.
SetGit(q) ==
  /\ At(q, "setGit")
  /\ git' = req[q].client
  /\ Goto(q, [req[q] EXCEPT !.at = "setArchiver"])
  /\ UNCHANGED <<conf, settings, secrets, workDir, up, aes, archiver, logins>>

SetArchiver(q) ==
  /\ At(q, "setArchiver")
  /\ archiver' = req[q].client
  /\ adrift' = ~req[q].solo
  /\ Answer(q)
  /\ UNCHANGED <<conf, settings, secrets, origin, up, aes, git, logins>>

-----------------------------------------------------------------------------
(* The users of the client: pushScriptToPending, and Archive.              *)

InUse(via) == IF via = "git" THEN git ELSE archiver

\* The handler sees that there is a client,
BeginPush(q, via) ==
  /\ At(q, "admitted")
  /\ InUse(via) # NoClient
  /\ Goto(q, [at |-> "call", via |-> via])
  /\ UNCHANGED <<conf, settings, secrets, workDir, deps, logins>>

\* and calls the one that is there by then: CommitAndPush opens whatever
\* repository the work directory holds, or clones its own.
OpenWorkDir(q) ==
  /\ At(q, "call")
  /\ origin' = IF origin = NoRepo THEN InUse(req[q].via).repo ELSE origin
  /\ Goto(q, [at |-> "pushing", client |-> InUse(req[q].via),
              calm |-> \A p \in Request : ~Installing(p)])
  /\ UNCHANGED <<conf, settings, secrets, adrift, deps, logins>>

\* The commit goes to the remote of the work directory; or an error ends it.
Push(q) ==
  /\ At(q, "pushing") \/ (At(q, "call") /\ MayFail)
  /\ Answer(q)
  /\ UNCHANGED <<conf, settings, secrets, workDir, deps, logins>>

-----------------------------------------------------------------------------
(* The passwords of datasources: internal/web/datasource.go.               *)

Created(d) == password[d] # NoRow

\* createDatasource and ajaxCreateDatasource, a blank password included.
CreateDatasource(q, d, new) ==
  /\ At(q, "admitted") /\ ~Created(d)
  /\ password' = [password EXCEPT ![d] = Encrypt(Plain(new))]
  /\ typed' = [typed EXCEPT ![d] = new] /\ overtaken' = [overtaken EXCEPT ![d] = FALSE]
  /\ Answer(q)
  /\ UNCHANGED <<conf, settings, workDir, deps, logins>>

\* Fault: the password that is kept is encrypted once more.
ReadDatasourceTwice(q, d, new) ==
  /\ At(q, "admitted") /\ Created(d)
  /\ Goto(q, [at |-> "update", ds |-> d, new |-> new, fresh |-> TRUE,
              value |-> Encrypt(IF new = Blank THEN password[d] ELSE Plain(new))])
  /\ UNCHANGED <<conf, settings, secrets, workDir, deps, logins>>

\* updateDatasource and ajaxUpdateDatasource read the row; a password left
\* blank is kept.
ReadDatasource(q, d, new) ==
  /\ At(q, "admitted") /\ Created(d)
  /\ Goto(q, [at |-> "update", ds |-> d, new |-> new, fresh |-> TRUE,
              value |-> IF new = Blank THEN password[d] ELSE Encrypt(Plain(new))])
  /\ UNCHANGED <<conf, settings, secrets, workDir, deps, logins>>

\* DatasourceRepo.Update writes the whole row, what is kept included: a blank
\* edit that another one overtook puts back the password it has read.
UpdateDatasource(q) ==
  /\ At(q, "update")
  /\ password' = [password EXCEPT ![req[q].ds] = req[q].value]
  /\ IF req[q].new = Blank
       THEN /\ UNCHANGED typed
            /\ overtaken' = [overtaken EXCEPT ![req[q].ds] = @ \/ ~req[q].fresh]
       ELSE /\ typed' = [typed EXCEPT ![req[q].ds] = req[q].new]
            /\ overtaken' = [overtaken EXCEPT ![req[q].ds] = FALSE]
  /\ req' = [p \in Request |->
               IF p = q THEN Idle
               ELSE IF At(p, "update") THEN [req[p] EXCEPT !.fresh = @ /\ req[p].ds # req[q].ds]
               ELSE req[p]]
  /\ UNCHANGED <<conf, settings, workDir, deps, logins>>
-----------------------------------------------------------------------------
ConfigStep(q) ==
  \/ SaveSettings(q) \/ RemoveWorkDir(q) \/ InitRepo(q) \/ InitRepoFails(q)
  \/ SetGit(q) \/ SetArchiver(q)
PushStep(q) == OpenWorkDir(q) \/ Push(q)

Next ==
  \/ Start \/ Stop \/ EnableAES
  \/ \E t \in Session : Login(t) \/ Logout(t)
  \/ \E q \in Request :
       \/ \E t \in Session : Arrive(q, t)
       \/ LoadUser(q) \/ Leave(q)
       \/ \E ajax \in BOOLEAN, r \in Repo, t \in Typed : ReadSettings(q, ajax, r, t)
       \/ ConfigStep(q)
       \/ \E via \in {"git", "archiver"} : BeginPush(q, via)
       \/ PushStep(q)
       \/ \E d \in Datasource, new \in Typed : CreateDatasource(q, d, new)
                                               \/ ReadDatasource(q, d, new)
       \/ UpdateDatasource(q)

Spec == Init /\ [][Next]_vars

-----------------------------------------------------------------------------
\* "with backward compatibility": in every process that comes after it, with the
\* stub or with AES, the stored password of a datasource decrypts to something
\* that was typed; and to the last that was, for an edit that leaves it blank
\* keeps it (TC-DS-04), unless such an edit has overwritten one that was saved
\* after it had read the row: it puts back the password of its time.
PasswordUsable ==
  \A d \in Datasource : up /\ Created(d) =>
    LET value == Decrypt(password[d])
    IN value.layers = 0 /\ (~overtaken[d] => value.of = typed[d])

\* The saved configuration is in use: by the syncs, the archiver and the work
\* directory, and the token as it was typed.
Serves ==
  /\ git = archiver
  /\ git.repo = settings.repo /\ origin \in {settings.repo, NoRepo}
  /\ git.token = Plain(settings.token.of)

\* Line 257, "subsequent requests use the new client": when a save by the page
\* that overlapped no other ends well, everybody uses what the row says, however
\* pushes with the old client run meanwhile.
SaveServes == [][\A q \in Request : SetArchiver(q) /\ req[q].solo => Serves']_vars

\* A commit goes to the repository of the client that makes it, also if the
\* configuration was replaced between the handler's look at Deps and its call, or
\* is read and written while it pushes.  Outside of it are a push while a save has
\* removed the work directory and not yet set both clients (req[q].calm), and what
\* leaves the work directory to another repository (adrift).
PushGoesToClient ==
  \A q \in Request :
    At(q, "pushing") /\ req[q].calm /\ ~adrift => origin = req[q].client.repo

\* A session that ended, by a log-out, a failed look-up or a restart, is never
\* back, whatever requests that found it earlier do.
EndedStaysEnded == session \cap ended = {}

\* "Settings saved via the web UI take precedence over config.yaml" (main.go:51):
\* while no save is under way and none went wrong, also after a restart, the
\* configuration that was saved is the one in use.
SavedIsInUse == up /\ settings # NoRow /\ ~adrift /\ NobodySaves => Serves
=============================================================================
