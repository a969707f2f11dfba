--------------------------- MODULE ProjectsProofs ---------------------------
(***************************************************************************)
(* Proofs about Projects, for any number of operators, requests, slugs,    *)
(* secrets and projects.                                                   *)
(***************************************************************************)
EXTENDS Projects, TLAPS

-----------------------------------------------------------------------------
(* The inductive invariant: types, tables that agree, and what a process   *)
(* holds of what it has read is still true of the project it read, if not  *)
(* of the tables.                                                          *)

\* A command that goes on has read a project that was there when it began, and
\* a rotation has a secret.
CommandsRemember ==
    \A o \in Operators :
        /\ op[o].since \subseteq Born
        /\ op[o].cmd = "rotate" => op[o].secret \in Secrets
        /\ op[o].state = "found" => /\ op[o].id \in op[o].since
                                    /\ slugOf[op[o].id] = op[o].slug

\* Secrets in use, and those that requests came with, are known.
SecretsAreKnown ==
    /\ \A i \in DOMAIN credentials : credentials[i] \in known[i]
    /\ \A r \in Requests :
          request[r].state = "authenticated" =>
              /\ request[r].id \in Born
              /\ request[r].secret \in known[request[r].id]

IInv == TypeOK /\ TablesAgree /\ CommandsRemember /\ SecretsAreKnown

-----------------------------------------------------------------------------
(* What GetProjectBySlug returns.                                          *)

LEMMA FoundProject ==
    ASSUME NEW s, ProjectOf(s) # NoId
    PROVE  ProjectOf(s) \in projects /\ slugOf[ProjectOf(s)] = s
  BY DEF ProjectOf

LEMMA NoProject ==
    ASSUME NEW s, ProjectOf(s) = NoId, TypeOK
    PROVE  \A i \in projects : slugOf[i] # s
<1>1. SUFFICES ASSUME NEW i \in projects, slugOf[i] = s PROVE FALSE
  OBVIOUS
<1>2. {k \in projects : slugOf[k] = s} # {}
  BY <1>1
<1>3. ProjectOf(s) \in projects
  BY <1>2 DEF ProjectOf
<1>4. projects \subseteq Ids
  BY DEF TypeOK
<1> QED
  BY <1>3, <1>4, ProjectsAssumption

LEMMA TheProject ==
    ASSUME TypeOK, TablesAgree, NEW i \in projects
    PROVE  ProjectOf(slugOf[i]) = i
<1>1. ProjectOf(slugOf[i]) # NoId
  BY NoProject
<1>2. ProjectOf(slugOf[i]) \in projects /\ slugOf[ProjectOf(slugOf[i])] = slugOf[i]
  BY <1>1, FoundProject
<1> QED
  BY <1>2 DEF TablesAgree

-----------------------------------------------------------------------------
(* Every step keeps the inductive invariant.                               *)

LEMMA InitKeeps == Init => IInv
<1> SUFFICES ASSUME Init PROVE IInv
  OBVIOUS
<1>1. Born = {} /\ DOMAIN credentials = {}
  BY DEF Init, Born
<1>2. NoCommand \in Commands
  BY DEF NoCommand, Commands
<1>3. NoRequest \in RequestStates
  BY DEF NoRequest, RequestStates
<1>4. TypeOK
  BY <1>1, <1>2, <1>3 DEF Init, TypeOK, NoCommand, Born
<1>5. TablesAgree /\ CommandsRemember /\ SecretsAreKnown
  BY <1>1 DEF Init, TablesAgree, CommandsRemember, SecretsAreKnown, NoCommand, NoRequest
<1> QED
  BY <1>4, <1>5 DEF IInv

LEMMA CreateProjectKeeps ==
    ASSUME IInv, NEW o \in Operators, NEW s \in Slugs, NEW x \in Secrets, CreateProject(o, s, x)
    PROVE  IInv'
<1> USE DEF IInv
<1>1. PICK i \in Ids \ Born :
        /\ SlugIsFree(s)
        /\ slugOf' = [k \in Born \cup {i} |-> IF k = i THEN s ELSE slugOf[k]]
        /\ projects' = projects \cup {i}
        /\ credentials' = [k \in DOMAIN credentials \cup {i} |->
                             IF k = i THEN x ELSE credentials[k]]
        /\ known' = [known EXCEPT ![i] = {x}]
        /\ op' = [op EXCEPT ![o] = Command("create", s, x, i, "ok")]
        /\ UNCHANGED <<runs, request>>
  BY DEF CreateProject
<1> DEFINE c == Command("create", s, x, i, "ok")
<1>2. c \in Commands /\ c.since = Born /\ c.state = "ok" /\ c.cmd = "create"
  BY DEF Command, Commands, TypeOK
<1>3. op' = [op EXCEPT ![o] = c]
  BY <1>1
<1> HIDE DEF c
<1>4. Born' = Born \cup {i}
  BY <1>1 DEF Born
<1>5. DOMAIN credentials' = DOMAIN credentials \cup {i}
  BY <1>1
<1>6. TypeOK'
  <2>1. slugOf' \in [Born' -> Slugs]
    BY <1>1, <1>4 DEF TypeOK
  <2>2. credentials' \in [DOMAIN credentials' -> Secrets]
    BY <1>1, <1>5 DEF TypeOK
  <2>3. known' \in [Ids -> SUBSET Secrets]
    BY <1>1 DEF TypeOK
  <2>4. op' \in [Operators -> Commands]
    BY <1>2, <1>3 DEF TypeOK
  <2>5. \A q \in Operators : op'[q].state = "found" => op'[q].id \in Born'
    BY <1>2, <1>3, <1>4 DEF TypeOK
  <2> QED
    BY <1>1, <1>4, <1>5, <2>1, <2>2, <2>3, <2>4, <2>5 DEF TypeOK
<1>7. TablesAgree'
  <2>1. DOMAIN credentials' = projects'
    BY <1>1, <1>5 DEF TablesAgree
  <2>2. \A run \in runs' : run[2] \in projects'
    BY <1>1 DEF TablesAgree
  <2>3. \A k \in projects : slugOf'[k] = slugOf[k] /\ slugOf[k] # s /\ k # i
    BY <1>1 DEF TypeOK, SlugIsFree
  <2>4. slugOf'[i] = s
    BY <1>1
  <2> QED
    BY <1>1, <2>1, <2>2, <2>3, <2>4 DEF TablesAgree
<1>8. CommandsRemember'
  <2>1. SUFFICES ASSUME NEW q \in Operators
                 PROVE  /\ op'[q].since \subseteq Born'
                        /\ op'[q].cmd = "rotate" => op'[q].secret \in Secrets
                        /\ op'[q].state = "found" => /\ op'[q].id \in op'[q].since
                                                     /\ slugOf'[op'[q].id] = op'[q].slug
    BY DEF CommandsRemember
  <2>2. CASE q = o
    BY <2>2, <1>2, <1>3, <1>4 DEF TypeOK
  <2>3. CASE q # o
    <3>1. op'[q] = op[q]
      BY <2>3, <1>3 DEF TypeOK
    <3>2. \A k \in Born : slugOf'[k] = slugOf[k]
      BY <1>1
    <3> QED
      BY <3>1, <3>2, <1>4 DEF CommandsRemember
  <2> QED
    BY <2>2, <2>3
<1>9. SecretsAreKnown'
  <2>1. \A k \in Born : known'[k] = known[k]
    BY <1>1 DEF TypeOK
  <2>2. known'[i] = {x}
    BY <1>1 DEF TypeOK
  <2>3. \A k \in DOMAIN credentials' : credentials'[k] \in known'[k]
    BY <1>1, <2>1, <2>2 DEF SecretsAreKnown, TablesAgree, TypeOK
  <2>4. \A r \in Requests :
           request'[r].state = "authenticated" =>
               /\ request'[r].id \in Born'
               /\ request'[r].secret \in known'[request'[r].id]
    BY <1>1, <1>4, <2>1 DEF SecretsAreKnown
  <2> QED
    BY <2>3, <2>4 DEF SecretsAreKnown
<1> QED
  BY <1>6, <1>7, <1>8, <1>9

LEMMA CreateProjectFailsKeeps ==
    ASSUME IInv, NEW o \in Operators, NEW s \in Slugs, NEW x \in Secrets,
           CreateProjectFails(o, s, x)
    PROVE  IInv'
<1> USE DEF IInv
<1> DEFINE c == Command("create", s, x, NoId, "error")
<1>1. /\ op' = [op EXCEPT ![o] = c]
      /\ UNCHANGED <<slugOf, projects, credentials, known, runs, request>>
  BY DEF CreateProjectFails
<1>2. c \in Commands /\ c.since = Born /\ c.state = "error" /\ c.cmd = "create"
  BY DEF Command, Commands, TypeOK
<1> HIDE DEF c
<1>3. TypeOK'
  BY <1>1, <1>2 DEF TypeOK, Born
<1>4. CommandsRemember'
  BY <1>1, <1>2 DEF CommandsRemember, Born, TypeOK
<1>5. TablesAgree' /\ SecretsAreKnown'
  BY <1>1 DEF TablesAgree, SecretsAreKnown, Born
<1> QED
  BY <1>3, <1>4, <1>5

LEMMA FindProjectKeeps ==
    ASSUME IInv, NEW o \in Operators, NEW cmd \in {"rotate", "delete"}, NEW s \in Slugs,
           NEW x \in Secrets \cup {NoId}, cmd = "rotate" => x \in Secrets,
           FindProject(o, cmd, s, x)
    PROVE  IInv'
<1> USE DEF IInv
<1> DEFINE c == Command(cmd, s, x, ProjectOf(s), AfterFind(ProjectOf(s)))
<1>1. /\ op' = [op EXCEPT ![o] = c]
      /\ UNCHANGED <<slugOf, projects, credentials, known, runs, request>>
  BY DEF FindProject
<1>2. ProjectOf(s) # NoId => ProjectOf(s) \in projects /\ slugOf[ProjectOf(s)] = s
  BY FoundProject
<1>3. c \in Commands
  BY <1>2 DEF Command, Commands, AfterFind, TypeOK
<1>4. /\ c.since = Born /\ c.slug = s
      /\ c.cmd = "rotate" => c.secret \in Secrets
      /\ c.state = "found" => c.id \in Born /\ slugOf[c.id] = s
  BY <1>2 DEF Command, AfterFind, TypeOK
<1> HIDE DEF c
<1>5. TypeOK'
  BY <1>1, <1>3, <1>4 DEF TypeOK, Born
<1>6. CommandsRemember'
  BY <1>1, <1>4 DEF CommandsRemember, Born, TypeOK
<1>7. TablesAgree' /\ SecretsAreKnown'
  BY <1>1 DEF TablesAgree, SecretsAreKnown, Born
<1> QED
  BY <1>5, <1>6, <1>7

LEMMA RotateCredentialKeeps ==
    ASSUME IInv, NEW o \in Operators, RotateCredential(o)
    PROVE  IInv'
<1> USE DEF IInv
<1> DEFINE id == op[o].id
           x == op[o].secret
<1>1. op[o] \in Commands /\ op[o].state = "found" /\ op[o].cmd = "rotate"
  BY DEF RotateCredential, TypeOK
<1>2. /\ credentials' = [k \in DOMAIN credentials |-> IF k = id THEN x ELSE credentials[k]]
      /\ known' = IF id \in DOMAIN credentials THEN [known EXCEPT ![id] = @ \cup {x}] ELSE known
      /\ op' = [op EXCEPT ![o].state = AfterUpdate(id)]
      /\ UNCHANGED <<slugOf, projects, runs, request>>
  BY DEF RotateCredential
<1>3. AfterUpdate(id) \in {"ok", "error"}
  BY DEF AfterUpdate
<1>4. DOMAIN credentials' = DOMAIN credentials
  BY <1>2
<1>5. id \in DOMAIN credentials => x \in Secrets
  BY <1>1 DEF CommandsRemember
<1>6. TypeOK'
  <2>1. credentials' \in [DOMAIN credentials' -> Secrets]
    BY <1>2, <1>4, <1>5 DEF TypeOK
  <2>2. known' \in [Ids -> SUBSET Secrets]
    BY <1>2, <1>5 DEF TypeOK
  <2>3. op' \in [Operators -> Commands]
    BY <1>1, <1>2, <1>3 DEF TypeOK, Commands
  <2>4. \A q \in Operators : op'[q].state = "found" => op'[q].id \in Born'
    BY <1>1, <1>2, <1>3 DEF TypeOK, Commands, Born
  <2> QED
    BY <1>2, <1>4, <2>1, <2>2, <2>3, <2>4 DEF TypeOK, Born
<1>7. TablesAgree'
  BY <1>2, <1>4 DEF TablesAgree
<1>8. CommandsRemember'
  BY <1>1, <1>2, <1>3 DEF CommandsRemember, Commands, Born, TypeOK
<1>9. SecretsAreKnown'
  <2>1. \A k \in Ids : known[k] \subseteq known'[k]
    BY <1>2 DEF TypeOK
  <2>2. \A k \in DOMAIN credentials' : credentials'[k] \in known'[k]
    BY <1>2, <2>1 DEF SecretsAreKnown, TypeOK
  <2>3. \A r \in Requests :
           request'[r].state = "authenticated" =>
               /\ request'[r].id \in Born'
               /\ request'[r].secret \in known'[request'[r].id]
    BY <1>2, <2>1 DEF SecretsAreKnown, TypeOK, Born
  <2> QED
    BY <2>2, <2>3 DEF SecretsAreKnown
<1> QED
  BY <1>6, <1>7, <1>8, <1>9

LEMMA DeleteProjectKeeps ==
    ASSUME IInv, NEW o \in Operators, DeleteProject(o)
    PROVE  IInv'
<1> USE DEF IInv
<1> DEFINE gone == ToDelete(o)
<1>1. /\ projects' = projects \ gone
      /\ credentials' = [i \in DOMAIN credentials \ gone |-> credentials[i]]
      /\ runs' = {run \in runs : run[2] \notin gone}
      /\ op' = [op EXCEPT ![o].state = "ok"]
      /\ UNCHANGED <<slugOf, known, request>>
  BY DEF DeleteProject, Cascade
<1> HIDE DEF gone
<1>2. op[o] \in Commands
  BY DEF TypeOK
<1>3. DOMAIN credentials' = DOMAIN credentials \ gone
  BY <1>1
<1>4. TypeOK'
  <2>1. credentials' \in [DOMAIN credentials' -> Secrets]
    BY <1>1, <1>3 DEF TypeOK
  <2>2. op' \in [Operators -> Commands]
    BY <1>1, <1>2 DEF TypeOK, Commands
  <2>3. \A q \in Operators : op'[q].state = "found" => op'[q].id \in Born'
    BY <1>1, <1>2 DEF TypeOK, Commands, Born
  <2> QED
    BY <1>1, <1>3, <2>1, <2>2, <2>3 DEF TypeOK, Born
<1>5. TablesAgree'
  BY <1>1, <1>3 DEF TablesAgree
<1>6. CommandsRemember'
  BY <1>1, <1>2 DEF CommandsRemember, Commands, Born, TypeOK
<1>7. SecretsAreKnown'
  BY <1>1, <1>3 DEF SecretsAreKnown, Born
<1> QED
  BY <1>4, <1>5, <1>6, <1>7

LEMMA InterruptKeeps ==
    ASSUME IInv, NEW o \in Operators, Interrupt(o)
    PROVE  IInv'
<1> USE DEF IInv
<1>1. /\ op' = [op EXCEPT ![o].state = "error"]
      /\ UNCHANGED <<slugOf, projects, credentials, known, runs, request>>
  BY DEF Interrupt
<1>2. op[o] \in Commands
  BY DEF TypeOK
<1>3. TypeOK'
  BY <1>1, <1>2 DEF TypeOK, Commands, Born
<1>4. CommandsRemember'
  BY <1>1, <1>2 DEF CommandsRemember, Commands, Born, TypeOK
<1>5. TablesAgree' /\ SecretsAreKnown'
  BY <1>1 DEF TablesAgree, SecretsAreKnown, Born
<1> QED
  BY <1>3, <1>4, <1>5

LEMMA AuthenticateKeeps ==
    ASSUME IInv, NEW r \in Requests, NEW s \in Slugs, NEW x \in Secrets, Authenticate(r, s, x)
    PROVE  IInv'
<1> USE DEF IInv
<1> DEFINE id == ProjectOf(s)
           ok == id # NoId /\ credentials[id] = x
           q == [slug |-> s, secret |-> x, id |-> IF ok THEN id ELSE NoId,
                 state |-> IF ok THEN "authenticated" ELSE "refused"]
<1>1. /\ request' = [request EXCEPT ![r] = q]
      /\ UNCHANGED <<slugOf, projects, credentials, known, runs, op>>
  BY DEF Authenticate
<1>2. id # NoId => id \in projects
  BY FoundProject
<1>3. q \in RequestStates
  BY <1>2 DEF RequestStates, TypeOK
<1>4. q.state = "authenticated" => q.id \in Born /\ q.secret \in known[q.id]
  BY <1>2 DEF TypeOK, TablesAgree, SecretsAreKnown
<1> HIDE DEF q
<1>5. TypeOK'
  BY <1>1, <1>3 DEF TypeOK, Born
<1>6. SecretsAreKnown'
  BY <1>1, <1>4 DEF SecretsAreKnown, TypeOK, Born
<1>7. TablesAgree' /\ CommandsRemember'
  BY <1>1 DEF TablesAgree, CommandsRemember, Born
<1> QED
  BY <1>5, <1>6, <1>7

LEMMA StoreRunKeeps ==
    ASSUME IInv, NEW r \in Requests, StoreRun(r)
    PROVE  IInv'
<1> USE DEF IInv
<1> DEFINE id == request[r].id
<1>1. /\ request[r].state = "authenticated"
      /\ runs' = IF id \in projects THEN runs \cup {<<r, id, request[r].secret>>} ELSE runs
      /\ request' = [request EXCEPT ![r].state = IF id \in projects THEN "created" ELSE "failed"]
      /\ UNCHANGED <<slugOf, projects, credentials, known, op>>
  BY DEF StoreRun, ProjectOfRun
<1>2. request[r] \in RequestStates
  BY DEF TypeOK
<1>3. id \in Born /\ request[r].secret \in known[id] /\ known[id] \subseteq Secrets
  BY <1>1 DEF SecretsAreKnown, TypeOK
<1>4. TypeOK'
  <2>1. runs' \subseteq Requests \X Ids \X Secrets
    BY <1>1, <1>3 DEF TypeOK
  <2>2. request' \in [Requests -> RequestStates]
    BY <1>1, <1>2 DEF TypeOK, RequestStates
  <2> QED
    BY <1>1, <2>1, <2>2 DEF TypeOK, Born
<1>5. TablesAgree'
  BY <1>1 DEF TablesAgree
<1>6. SecretsAreKnown'
  BY <1>1, <1>2 DEF SecretsAreKnown, TypeOK, RequestStates, Born
<1>7. CommandsRemember'
  BY <1>1 DEF CommandsRemember, Born
<1> QED
  BY <1>4, <1>5, <1>6, <1>7

LEMMA NextKeeps ==
    ASSUME IInv, [Next]_vars
    PROVE  IInv'
<1>1. CASE UNCHANGED vars
  BY <1>1 DEF vars, IInv, TypeOK, TablesAgree, CommandsRemember, SecretsAreKnown, Born
<1>2. ASSUME NEW o \in Operators, OperatorStep(o) PROVE IInv'
  BY <1>2, CreateProjectKeeps, CreateProjectFailsKeeps, FindProjectKeeps,
     RotateCredentialKeeps, DeleteProjectKeeps, InterruptKeeps DEF OperatorStep
<1>3. ASSUME NEW r \in Requests, RequestStep(r) PROVE IInv'
  BY <1>3, AuthenticateKeeps, StoreRunKeeps DEF RequestStep
<1> QED
  BY <1>1, <1>2, <1>3 DEF Next

LEMMA Invariance == Spec => []IInv
<1>1. IInv /\ [Next]_vars => IInv'
  BY NextKeeps
<1> QED
  BY <1>1, InitKeeps, PTL DEF Spec

-----------------------------------------------------------------------------
(* The theorems.                                                           *)

\* Types are kept whatever operators and requests do at the same time.
THEOREM ProjectsTypeCorrect == Spec => []TypeOK
<1>1. IInv => TypeOK
  BY DEF IInv
<1> QED
  BY <1>1, Invariance, PTL

\* Each project has one credential, each run its project, and each slug one
\* project, for any number of operators and requests.
THEOREM TablesStayInAgreement == Spec => []TablesAgree
<1>1. IInv => TablesAgree
  BY DEF IInv
<1> QED
  BY <1>1, Invariance, PTL

\* A step of `project delete` takes a project that was there when the command
\* began and has its slug, whatever has happened to the slug since.
LEMMA DeletionIsMeant ==
    ASSUME IInv, [Next]_vars, NEW i \in projects, i \notin projects'
    PROVE  \E o \in Operators : /\ op[o].cmd = "delete"
                                /\ op[o].slug = slugOf[i]
                                /\ i \in op[o].since
<1>1. PICK o \in Operators : DeleteProject(o)
  BY DEF Next, vars, OperatorStep, RequestStep, CreateProject, CreateProjectFails, FindProject,
         RotateCredential, Interrupt, Authenticate, StoreRun
<1>2. i = op[o].id /\ op[o].state = "found" /\ op[o].cmd = "delete"
  BY <1>1 DEF DeleteProject, ToDelete
<1> QED
  BY <1>2 DEF IInv, CommandsRemember

THEOREM OnlyKnownProjectsAreDeleted == Spec => NoNewProjectIsDeleted
<1>1. IInv /\ [Next]_vars =>
        [\A i \in projects :
            i \notin projects' =>
                \E o \in Operators : /\ op[o].cmd = "delete"
                                     /\ op[o].slug = slugOf[i]
                                     /\ i \in op[o].since]_vars
  BY DeletionIsMeant
<1> QED
  BY <1>1, Invariance, PTL DEF Spec, NoNewProjectIsDeleted

\* A rotation ends with "ok" only after its UPDATE has found the credential of
\* the project the command has read, which is still the one its slug names.
LEMMA RotationIsMeant ==
    ASSUME IInv, [Next]_vars, NEW o \in Operators,
           op[o].cmd = "rotate", op[o].state = "found", op'[o].state = "ok"
    PROVE  \E i \in projects' : slugOf'[i] = op[o].slug /\ credentials'[i] = op[o].secret
<1>1. op \in [Operators -> Commands]
  BY DEF IInv, TypeOK
<1>2. ASSUME NEW q \in Operators, OperatorStep(q), q # o
      PROVE  op'[o] = op[o]
  BY <1>1, <1>2 DEF OperatorStep, CreateProject, CreateProjectFails, FindProject, RotateCredential,
                    DeleteProject, Interrupt
<1>3. OperatorStep(o)
  BY <1>2 DEF Next, vars, RequestStep, Authenticate, StoreRun
<1>4. ~ Free(o)
  BY DEF Free
<1>5. ~ DeleteProject(o)
  BY DEF DeleteProject
<1>6. ~ Interrupt(o)
  BY <1>1 DEF Interrupt, Commands
<1>7. RotateCredential(o)
  BY <1>3, <1>4, <1>5, <1>6 DEF OperatorStep, CreateProject, CreateProjectFails, FindProject
<1>8. op'[o].state = AfterUpdate(op[o].id)
  BY <1>1, <1>7 DEF RotateCredential, Commands
<1>9. op[o].id \in DOMAIN credentials
  BY <1>8 DEF AfterUpdate
<1>10. op[o].id \in projects' /\ slugOf'[op[o].id] = op[o].slug
  BY <1>7, <1>9 DEF RotateCredential, IInv, TablesAgree, CommandsRemember
<1>11. credentials'[op[o].id] = op[o].secret
  BY <1>7, <1>9 DEF RotateCredential
<1> QED
  BY <1>10, <1>11

\* A rotation that reports success has changed the secret of the project that
\* its slug names, whatever other operators have done since it looked it up.
THEOREM SuccessfulRotationsTakeEffect == Spec => RotationTakesEffect
<1>1. IInv /\ [Next]_vars =>
        [\A o \in Operators :
            (op[o].cmd = "rotate" /\ op[o].state = "found" /\ op'[o].state = "ok") =>
                \E i \in projects' : /\ slugOf'[i] = op[o].slug
                                     /\ credentials'[i] = op[o].secret]_vars
  BY RotationIsMeant
<1> QED
  BY <1>1, Invariance, PTL DEF Spec, RotationTakesEffect

-----------------------------------------------------------------------------
(* Projects implements Accounts.  Each lemma maps one action to a step of  *)
(* Service or to a stutter; IInv' is at hand since every step keeps it.    *)

\* The account behind a slug is the row with that slug, if there is one.
AccountsAreRows ==
    \A s : /\ \A i \in projects : slugOf[i] = s => ProjectOf(s) = i
           /\ (\A i \in projects : slugOf[i] # s) => ProjectOf(s) = NoId

LEMMA AccountOfRow == IInv => AccountsAreRows
<1> SUFFICES ASSUME IInv PROVE AccountsAreRows
  OBVIOUS
<1>1. ASSUME NEW s, \A i \in projects : slugOf[i] # s PROVE ProjectOf(s) = NoId
  BY <1>1 DEF ProjectOf
<1> QED
  BY <1>1, TheProject DEF AccountsAreRows, IInv

LEMMA AccountOfRowNext == IInv' => AccountsAreRows'
  BY AccountOfRow, PTL

LEMMA OpenAccounts ==
    ASSUME IInv
    PROVE  Service!Open = projects
<1>1. \A s \in Slugs : ProjectOf(s) # NoId => ProjectOf(s) \in projects
  BY FoundProject
<1>2. \A i \in projects : slugOf[i] \in Slugs /\ ProjectOf(slugOf[i]) = i /\ i # NoId
  BY TheProject, ProjectsAssumption DEF IInv, TypeOK
<1>3. \A s \in Slugs : [t \in Slugs |-> ProjectOf(t)][s] = ProjectOf(s)
  OBVIOUS
<1> QED
  BY <1>1, <1>2, <1>3 DEF Service!Open

\* A slug whose rows stay keeps its account.
LEMMA AccountStays ==
    ASSUME AccountsAreRows, AccountsAreRows', NEW s,
           \A i : (i \in projects' /\ slugOf'[i] = s) <=> (i \in projects /\ slugOf[i] = s)
    PROVE  ProjectOf(s)' = ProjectOf(s)
  BY DEF AccountsAreRows

LEMMA Stutters ==
    ASSUME UNCHANGED <<slugOf, projects, credentials, known, runs>>
    PROVE  UNCHANGED Service!accountVars
<1>1. \A s : ProjectOf(s)' = ProjectOf(s)
  BY DEF ProjectOf
<1> QED
  BY <1>1 DEF Service!accountVars, Born

LEMMA CreateProjectMaps ==
    ASSUME IInv, IInv', NEW o \in Operators, NEW s \in Slugs, NEW x \in Secrets,
           CreateProject(o, s, x)
    PROVE  [Service!Next]_Service!accountVars
<1>1. PICK i \in Ids \ Born :
        /\ SlugIsFree(s)
        /\ slugOf' = [k \in Born \cup {i} |-> IF k = i THEN s ELSE slugOf[k]]
        /\ projects' = projects \cup {i}
        /\ credentials' = [k \in DOMAIN credentials \cup {i} |->
                             IF k = i THEN x ELSE credentials[k]]
        /\ known' = [known EXCEPT ![i] = {x}]
        /\ UNCHANGED runs
  BY DEF CreateProject
<1>2. AccountsAreRows /\ AccountsAreRows'
  BY AccountOfRow, AccountOfRowNext
<1>3. projects \subseteq Born /\ i \notin projects
  BY DEF IInv, TypeOK
<1>4. Born' = Born \cup {i}
  BY <1>1 DEF Born
<1>5. ProjectOf(s) = NoId
  BY <1>1, <1>2 DEF SlugIsFree, AccountsAreRows
<1>6. ProjectOf(s)' = i
  BY <1>1, <1>2 DEF AccountsAreRows
<1>7. ASSUME NEW t, t # s PROVE ProjectOf(t)' = ProjectOf(t)
  BY <1>1, <1>2, <1>3, <1>7, AccountStays
<1>8. Service!OpenAccount(s, i, x)
  <2>1. [t \in Slugs |-> ProjectOf(t)]' = [[t \in Slugs |-> ProjectOf(t)] EXCEPT ![s] = i]
    BY <1>6, <1>7
  <2>2. credentials' = [k \in Service!Open \cup {i} |-> IF k = i THEN x ELSE credentials[k]]
    BY <1>1, OpenAccounts DEF IInv, TablesAgree
  <2> QED
    BY <1>1, <1>4, <1>5, <2>1, <2>2 DEF Service!OpenAccount
<1> QED
  BY <1>8 DEF Service!Next

LEMMA RotateCredentialMaps ==
    ASSUME IInv, IInv', NEW o \in Operators, RotateCredential(o)
    PROVE  [Service!Next]_Service!accountVars
<1> DEFINE id == op[o].id
           x == op[o].secret
           s == slugOf[id]
<1>1. /\ op[o].cmd = "rotate"
      /\ credentials' = [k \in DOMAIN credentials |-> IF k = id THEN x ELSE credentials[k]]
      /\ known' = IF id \in DOMAIN credentials THEN [known EXCEPT ![id] = @ \cup {x}] ELSE known
      /\ UNCHANGED <<slugOf, projects, runs>>
  BY DEF RotateCredential
<1>2. CASE id \notin DOMAIN credentials
  <2>1. credentials' = credentials
    BY <1>1, <1>2 DEF IInv, TypeOK
  <2> QED
    BY <1>1, <1>2, <2>1, Stutters
<1>3. CASE id \in DOMAIN credentials
  <2>1. id \in projects /\ s \in Slugs /\ x \in Secrets
    BY <1>1, <1>3 DEF IInv, TypeOK, TablesAgree, CommandsRemember
  <2>2. ProjectOf(s) = id /\ id # NoId
    BY <2>1, TheProject, ProjectsAssumption DEF IInv, TypeOK
  <2>3. credentials' = [credentials EXCEPT ![id] = x]
    BY <1>1, <1>3 DEF IInv, TypeOK
  <2>4. \A t : ProjectOf(t)' = ProjectOf(t)
    BY <1>1 DEF ProjectOf
  <2>5. UNCHANGED <<[t \in Slugs |-> ProjectOf(t)], Born, runs>>
    BY <1>1, <2>4 DEF Born
  <2>6. Service!ChangeSecret(s, x)
    BY <1>1, <1>3, <2>1, <2>2, <2>3, <2>5 DEF Service!ChangeSecret
  <2> QED
    BY <2>1, <2>6 DEF Service!Next
<1> QED
  BY <1>2, <1>3

LEMMA DeleteProjectMaps ==
    ASSUME IInv, IInv', NEW o \in Operators, DeleteProject(o)
    PROVE  [Service!Next]_Service!accountVars
<1> DEFINE id == op[o].id
<1>1. /\ projects' = projects \ ToDelete(o)
      /\ credentials' = [i \in DOMAIN credentials \ ToDelete(o) |-> credentials[i]]
      /\ runs' = {run \in runs : run[2] \notin ToDelete(o)}
      /\ UNCHANGED <<slugOf, known>>
  BY DEF DeleteProject, Cascade
<1>2. CASE id \notin projects
  <2>1. ToDelete(o) = {}
    BY <1>2 DEF ToDelete
  <2>2. credentials' = credentials
    BY <1>1, <2>1 DEF IInv, TypeOK
  <2> QED
    BY <1>1, <2>1, <2>2, Stutters
<1>3. CASE id \in projects
  <2>1. ToDelete(o) = {id}
    BY <1>3 DEF ToDelete
  <2>2. PICK s \in Slugs : s = slugOf[id] /\ id # NoId
    BY <1>3, ProjectsAssumption DEF IInv, TypeOK
  <2>3. AccountsAreRows /\ AccountsAreRows'
    BY AccountOfRow, AccountOfRowNext
  <2>4. ProjectOf(s) = id
    BY <1>3, <2>2, <2>3 DEF AccountsAreRows
  <2>5. ProjectOf(s)' = NoId
    <3>1. \A k \in projects' : slugOf'[k] # s
      BY <1>1, <1>3, <2>1, <2>2 DEF IInv, TablesAgree
    <3> QED
      BY <2>3, <3>1 DEF AccountsAreRows
  <2>6. ASSUME NEW t, t # s PROVE ProjectOf(t)' = ProjectOf(t)
    BY <1>1, <2>1, <2>2, <2>3, <2>6, AccountStays
  <2>7. [t \in Slugs |-> ProjectOf(t)]' = [[t \in Slugs |-> ProjectOf(t)] EXCEPT ![s] = NoId]
    BY <2>5, <2>6
  <2>8. [t \in Slugs |-> ProjectOf(t)][s] = id
    BY <2>2, <2>4
  <2>9. credentials' = [k \in Service!Open \ {id} |-> credentials[k]]
    BY <1>1, <2>1, OpenAccounts DEF IInv, TablesAgree
  <2>10. runs' = {run \in runs : run[2] # id} /\ Born' = Born
    BY <1>1, <2>1 DEF Born
  <2>11. Service!CloseAccount(s)
    BY <1>1, <2>2, <2>7, <2>8, <2>9, <2>10 DEF Service!CloseAccount
  <2> QED
    BY <2>2, <2>11 DEF Service!Next
<1> QED
  BY <1>2, <1>3

LEMMA StoreRunMaps ==
    ASSUME IInv, IInv', NEW r \in Requests, StoreRun(r)
    PROVE  [Service!Next]_Service!accountVars
<1> DEFINE id == request[r].id
           x == request[r].secret
<1>1. /\ request[r].state = "authenticated"
      /\ runs' = IF id \in projects THEN runs \cup {<<r, id, x>>} ELSE runs
      /\ UNCHANGED <<slugOf, projects, credentials, known>>
  BY DEF StoreRun, ProjectOfRun
<1>2. CASE id \notin projects
  BY <1>1, <1>2, Stutters
<1>3. CASE id \in projects
  <2>1. id \in Ids /\ x \in known[id] /\ x \in Secrets
    BY <1>1, <1>3 DEF IInv, TypeOK, SecretsAreKnown
  <2>2. \A t : ProjectOf(t)' = ProjectOf(t)
    BY <1>1 DEF ProjectOf
  <2>3. UNCHANGED <<[t \in Slugs |-> ProjectOf(t)], credentials, known, Born>>
    BY <1>1, <2>2 DEF Born
  <2>4. Service!Record(r, id, x)
    BY <1>1, <1>3, <2>1, <2>3, OpenAccounts DEF Service!Record
  <2> QED
    BY <2>1, <2>4 DEF Service!Next
<1> QED
  BY <1>2, <1>3

LEMMA NextMaps ==
    ASSUME IInv, IInv', [Next]_vars
    PROVE  [Service!Next]_Service!accountVars
<1>1. CASE UNCHANGED vars
  BY <1>1, Stutters DEF vars
<1>2. ASSUME NEW o \in Operators, OperatorStep(o)
      PROVE  [Service!Next]_Service!accountVars
  <2>1. \A cmd, s, x : FindProject(o, cmd, s, x) => UNCHANGED Service!accountVars
    BY Stutters DEF FindProject
  <2>2. Interrupt(o) => UNCHANGED Service!accountVars
    BY Stutters DEF Interrupt
  <2>3. \A s, x : CreateProjectFails(o, s, x) => UNCHANGED Service!accountVars
    BY Stutters DEF CreateProjectFails
  <2> QED
    BY <1>2, <2>1, <2>2, <2>3, CreateProjectMaps, RotateCredentialMaps, DeleteProjectMaps
       DEF OperatorStep
<1>3. ASSUME NEW r \in Requests, RequestStep(r)
      PROVE  [Service!Next]_Service!accountVars
  <2>1. \A s, x : Authenticate(r, s, x) => UNCHANGED Service!accountVars
    BY Stutters DEF Authenticate
  <2> QED
    BY <1>3, <2>1, StoreRunMaps DEF RequestStep
<1> QED
  BY <1>1, <1>2, <1>3 DEF Next

LEMMA InitMaps == Init => Service!Init
<1> SUFFICES ASSUME Init PROVE Service!Init
  OBVIOUS
<1>1. \A s : ProjectOf(s) = NoId
  BY DEF Init, ProjectOf
<1> QED
  BY <1>1 DEF Init, Born, Service!Init

\* To everyone outside, commands that look up a project in one statement and
\* write it in another behave like single steps, and a run is recorded for a
\* project that has had the secret it came with.
THEOREM ProjectsImplementAccounts == Spec => ImplementsAccounts
<1>1. IInv /\ IInv' /\ [Next]_vars => [Service!Next]_Service!accountVars
  BY NextMaps
<1> QED
  BY <1>1, InitMaps, Invariance, PTL DEF Spec, ImplementsAccounts, Service!Spec

=============================================================================
