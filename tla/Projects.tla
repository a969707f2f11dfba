------------------------------ MODULE Projects ------------------------------
(***************************************************************************)
(* Projects and their credentials.  Operators run `testrr project create`, *)
(* `rotate-password` and `delete` as processes of their own, two of which  *)
(* look up the project by its slug in one statement and write by its id in *)
(* another; beside them requests of CI jobs read a credential, compare the *)
(* password for some time, and store a run.                                *)
(*                                                                         *)
(* A secret is a username with a password: GetProjectCredential looks for  *)
(* the one and ComparePassword checks the other, on one row that was read. *)
(***************************************************************************)
EXTENDS Integers, FiniteSets

CONSTANTS
    Slugs,      \* names an operator may give a project
    Secrets,    \* usernames with passwords
    Operators,  \* shells in which operators type commands
    Requests,   \* upload requests
    NoId,       \* no project: ErrNotFound
    MaxProjects \* bound on the projects ever created

Ids == 1 .. MaxProjects

ASSUME ProjectsAssumption ==
    /\ MaxProjects \in Nat
    /\ NoId \notin Ids

VARIABLES
    slugOf,     \* every project ever created; newID never gives an id twice
    projects,   \* rows of the projects table: ids
    credentials,\* rows of project_credentials: the secret of each project
    known,      \* history: the secrets each project has had
    runs,       \* rows of the runs table: <<request, project, secret>>
    op,         \* what each operator is doing
    request     \* what each request is doing

vars == <<slugOf, projects, credentials, known, runs, op, request>>

Born == DOMAIN slugOf

\* GetProjectBySlug: slug is UNIQUE.
ProjectOf(s) ==
    LET found == {i \in projects : slugOf[i] = s} IN
    IF found = {} THEN NoId ELSE CHOOSE i \in found : TRUE

-----------------------------------------------------------------------------
(* Commands.  An operator types the next one when the last one has ended.  *)

Free(o) == op[o].state \in {"idle", "ok", "error"}

\* since: history, the projects there have been when the command began.
Command(cmd, s, x, id, state) ==
    [cmd |-> cmd, slug |-> s, secret |-> x, id |-> id, since |-> Born, state |-> state]

\* The UNIQUE constraint on projects.slug.
BadSlugIsFree(s) == TRUE
SlugIsFree(s) == \A i \in projects : slugOf[i] # s

\* CreateProject: both rows in one transaction,
CreateProject(o, s, x) ==
    /\ Free(o)
    /\ SlugIsFree(s)
    /\ \E i \in Ids \ Born :
          /\ slugOf' = [k \in Born \cup {i} |-> IF k = i THEN s ELSE slugOf[k]]
          /\ projects' = projects \cup {i}
          /\ credentials' = [k \in DOMAIN credentials \cup {i} |->
                               IF k = i THEN x ELSE credentials[k]]
          /\ known' = [known EXCEPT ![i] = {x}]
          /\ op' = [op EXCEPT ![o] = Command("create", s, x, i, "ok")]
    /\ UNCHANGED <<runs, request>>

\* or an error: the slug is taken, or any statement is refused with SQLITE_BUSY.
CreateProjectFails(o, s, x) ==
    /\ Free(o)
    /\ op' = [op EXCEPT ![o] = Command("create", s, x, NoId, "error")]
    /\ UNCHANGED <<slugOf, projects, credentials, known, runs, request>>

\* The first statement of RotateProjectCredential and of DeleteProject.
BadAfterFind(id) == "found"
AfterFind(id) == IF id = NoId THEN "error" ELSE "found"

FindProject(o, cmd, s, x) ==
    /\ Free(o)
    /\ op' = [op EXCEPT ![o] =
                Command(cmd, s, x, ProjectOf(s), AfterFind(ProjectOf(s)))]
    /\ UNCHANGED <<slugOf, projects, credentials, known, runs, request>>

\* RowsAffected = 0 is ErrNotFound.
BadAfterUpdate(id) == "ok"
AfterUpdate(id) == IF id \in DOMAIN credentials THEN "ok" ELSE "error"

\* The UPDATE of RotateProjectCredential.
RotateCredential(o) ==
    LET id == op[o].id IN
    /\ op[o].cmd = "rotate" /\ op[o].state = "found"
    /\ credentials' = [k \in DOMAIN credentials |->
                         IF k = id THEN op[o].secret ELSE credentials[k]]
    /\ known' = IF id \in DOMAIN credentials
                THEN [known EXCEPT ![id] = @ \cup {op[o].secret}] ELSE known
    /\ op' = [op EXCEPT ![o].state = AfterUpdate(id)]
    /\ UNCHANGED <<slugOf, projects, runs, request>>

\* Rows that the DELETE matches.
BadToDelete(o) == {i \in projects : slugOf[i] = op[o].slug}
ToDelete(o) == {i \in projects : i = op[o].id}

\* What the foreign key of project_credentials does.
BadCascade(deleted) == credentials
Cascade(deleted) == [i \in DOMAIN credentials \ deleted |-> credentials[i]]

\* The DELETE of DeleteProject, which says "deleted" whatever it has found.
DeleteProject(o) ==
    /\ op[o].cmd = "delete" /\ op[o].state = "found"
    /\ projects' = projects \ ToDelete(o)
    /\ credentials' = Cascade(ToDelete(o))
    /\ runs' = {run \in runs : run[2] \notin ToDelete(o)}
    /\ op' = [op EXCEPT ![o].state = "ok"]
    /\ UNCHANGED <<slugOf, known, request>>

\* The command is interrupted, or its write is refused with SQLITE_BUSY.
Interrupt(o) ==
    /\ op[o].state = "found"
    /\ op' = [op EXCEPT ![o].state = "error"]
    /\ UNCHANGED <<slugOf, projects, credentials, known, runs, request>>

-----------------------------------------------------------------------------
(* Requests.                                                               *)

\* AuthenticateBasic: the credential is read once, the password is compared
\* with what was read.
Authenticate(r, s, x) ==
    LET id == ProjectOf(s)
        ok == id # NoId /\ credentials[id] = x
    IN  /\ request[r].state = "idle"
        /\ request' = [request EXCEPT ![r] =
                         [slug |-> s, secret |-> x, id |-> IF ok THEN id ELSE NoId,
                          state |-> IF ok THEN "authenticated" ELSE "refused"]]
        /\ UNCHANGED <<slugOf, projects, credentials, known, runs, op>>

\* The project a run is stored for: the one that was read.
BadProjectOfRun(r) == ProjectOf(request[r].slug)
ProjectOfRun(r) == request[r].id

\* CreateRun: the foreign key refuses a run of a project that is gone.
StoreRun(r) ==
    LET id == ProjectOfRun(r) IN
    /\ request[r].state = "authenticated"
    /\ runs' = IF id \in projects THEN runs \cup {<<r, id, request[r].secret>>} ELSE runs
    /\ request' = [request EXCEPT ![r].state = IF id \in projects THEN "created" ELSE "failed"]
    /\ UNCHANGED <<slugOf, projects, credentials, known, op>>

-----------------------------------------------------------------------------
NoCommand == [cmd |-> "none", slug |-> NoId, secret |-> NoId, id |-> NoId,
              since |-> {}, state |-> "idle"]
NoRequest == [slug |-> NoId, secret |-> NoId, id |-> NoId, state |-> "idle"]

Init ==
    /\ slugOf = [i \in {} |-> NoId]
    /\ projects = {}
    /\ credentials = [i \in {} |-> NoId]
    /\ known = [i \in Ids |-> {}]
    /\ runs = {}
    /\ op = [o \in Operators |-> NoCommand]
    /\ request = [r \in Requests |-> NoRequest]

OperatorStep(o) ==
    \/ \E s \in Slugs, x \in Secrets : CreateProject(o, s, x) \/ CreateProjectFails(o, s, x)
    \/ \E s \in Slugs, x \in Secrets : FindProject(o, "rotate", s, x)
    \/ \E s \in Slugs : FindProject(o, "delete", s, NoId)
    \/ RotateCredential(o)
    \/ DeleteProject(o)
    \/ Interrupt(o)

RequestStep(r) ==
    \/ \E s \in Slugs, x \in Secrets : Authenticate(r, s, x)
    \/ StoreRun(r)

Next ==
    \/ \E o \in Operators : OperatorStep(o)
    \/ \E r \in Requests : RequestStep(r)

Spec == Init /\ [][Next]_vars

-----------------------------------------------------------------------------
(* Properties.                                                             *)

Commands == [cmd : {"none", "create", "rotate", "delete"}, slug : Slugs \cup {NoId},
             secret : Secrets \cup {NoId}, id : Ids \cup {NoId}, since : SUBSET Ids,
             state : {"idle", "found", "ok", "error"}]

RequestStates == [slug : Slugs \cup {NoId}, secret : Secrets \cup {NoId},
                  id : Ids \cup {NoId},
                  state : {"idle", "authenticated", "refused", "created", "failed"}]

\* Tables and processes keep the types of their columns and variables, and a
\* command goes on only with a project it has found.
TypeOK ==
    /\ Born \subseteq Ids
    /\ slugOf \in [Born -> Slugs]
    /\ projects \subseteq Born
    /\ DOMAIN credentials \subseteq Ids
    /\ credentials \in [DOMAIN credentials -> Secrets]
    /\ known \in [Ids -> SUBSET Secrets]
    /\ runs \subseteq Requests \X Ids \X Secrets
    /\ op \in [Operators -> Commands]
    /\ \A o \in Operators : op[o].state = "found" => op[o].id \in Born
    /\ request \in [Requests -> RequestStates]

\* Whatever operators create, rotate and delete at the same time, each project
\* has one credential, each credential and each run its project, and a slug
\* names one project: uploads to a slug never depend on which row is found.
TablesAgree ==
    /\ DOMAIN credentials = projects
    /\ \A run \in runs : run[2] \in projects
    /\ \A i, k \in projects : slugOf[i] = slugOf[k] => i = k

\* DeleteProject deletes by an id it has read before: no project disappears but
\* by a command `project delete` of its slug that began when it was there,
\* even if another project has had the slug in between.
NoNewProjectIsDeleted ==
    [][\A i \in projects :
          i \notin projects' =>
              \E o \in Operators : /\ op[o].cmd = "delete"
                                   /\ op[o].slug = slugOf[i]
                                   /\ i \in op[o].since]_vars

\* `project rotate-password` succeeds only if the project its slug names has the
\* new secret from then on: it fails rather than changing a project that is gone
\* while another one under the same slug keeps accepting the old secret.
RotationTakesEffect ==
    [][\A o \in Operators :
          (op[o].cmd = "rotate" /\ op[o].state = "found" /\ op'[o].state = "ok") =>
              \E i \in projects' : /\ slugOf'[i] = op[o].slug
                                   /\ credentials'[i] = op[o].secret]_vars

\* Rotations and deletions in two statements look like single steps, and a run
\* belongs to a project that has had the secret the run came with.
Service == INSTANCE Accounts WITH
    account <- [s \in Slugs |-> ProjectOf(s)], secret <- credentials,
    used <- Born, recorded <- runs

ImplementsAccounts == Service!Spec
=============================================================================
