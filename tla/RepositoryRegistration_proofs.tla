-------------------- MODULE RepositoryRegistration_proofs --------------------
(***************************************************************************)
(* Proofs about RepositoryRegistration, for every team of users and every  *)
(* set of URLs and names.                                                  *)
(***************************************************************************)
EXTENDS RepositoryRegistration, FiniteSetTheorems, TLAPS

(* The invariant, of a user's form, of a user's task, and of the secrets.   *)

TaskFields ==
  [none |-> {"at"}, register |-> {"at"},
   createSecret |-> {"at", "repository", "authSecretName"},
   registerRepository |-> {"at", "repository", "authSecretName"},
   repository |-> {"at", "repository"}, check |-> {"at", "repository"},
   unregister |-> {"at", "repository", "calls", "since"}]

Registering == {"createSecret", "registerRepository"}

\* A repository, registered or about to be, has the details of the content chosen.
AsChosen(r) ==
  /\ r.chosen \in Contents
  /\ r.content = RepositoryContentDetails[r.chosen].content
  /\ r.deployment = RepositoryContentDetails[r.chosen].deployment
  /\ r.label = RepositoryContentDetails[r.chosen].label

\* Only a git repository can have a secret.
SecretsAreOfGit(r) == r.type # "" /\ r.secretRef # NoSecret => r.type = "git"

FormOK(form) ==
  /\ DOMAIN form = DOMAIN EmptyForm
  /\ form.content \in Contents \cup {""}
  /\ form.type \notin {"", "git"} => form.authType # "token"
  /\ "token" \in form.authTypes => form.type = "git"
  /\ form.authSecretName # NoSecret

TaskOK(task) ==
  /\ task.at \in DOMAIN TaskFields
  /\ DOMAIN task = TaskFields[task.at]
  /\ task.at \in Registering => AsChosen(task.repository) /\ SecretsAreOfGit(task.repository)

UsersInv ==
  /\ team \in Teams /\ spoiled \in BOOLEAN
  /\ DOMAIN page = Users /\ DOMAIN draft = Users
  /\ \A u \in Users : FormOK(draft[u]) /\ TaskOK(page[u])
  /\ \A r \in repositories : AsChosen(r)

\* The secret that is about to be deleted is used by no other repository that
\* was there when its uses were looked up.
OnlyOwnSecret(u) ==
  page[u].at = "unregister" /\ "secret" \in page[u].calls =>
    \A r \in repositories : UsesSecret(r, page[u].repository.secretRef) =>
      r.name = page[u].repository.name \/ r.name \in page[u].since

DeletionInv == \A u \in Users : OnlyOwnSecret(u)

RefsOf(S) == {r.secretRef : r \in {q \in S : q.secretRef # NoSecret}}
OthersThan(own, S) == {r \in S : r.name # own.name}

\* How the secrets and the repositories differ in the middle of a task.
SecretsDuring(task, form) ==
  /\ task.at \in {"none", "register", "createSecret", "repository", "check"} =>
       secrets = RefsOf(repositories)
  /\ IF task.at = "register"
     THEN form.secretItems \cup {form.useSecret} \subseteq secrets \cup {New}
     ELSE task.at \in Registering \/ form = EmptyForm
  /\ task.at = "createSecret" /\ task.repository.type # "" =>
       task.repository.secretRef = task.authSecretName /\ task.authSecretName # NoSecret
  /\ task.at = "registerRepository" /\ task.repository.type # "" =>
       secrets = RefsOf(repositories \cup {task.repository})
  /\ task.at \in {"repository", "check"} => task.repository \in repositories
  /\ task.at = "check" => UsesSecret(task.repository, task.repository.secretRef)
                          /\ task.repository.secretRef # NoSecret
  /\ task.at = "unregister" =>
       LET rest == RefsOf(OthersThan(task.repository, repositories))
       IN  /\ task.calls \subseteq {"repository", "secret"}
           /\ IF "repository" \in task.calls THEN task.repository \in repositories
              ELSE repositories = OthersThan(task.repository, repositories)
           /\ IF "secret" \in task.calls
              THEN /\ secrets = rest \cup {task.repository.secretRef}
                   /\ task.repository.secretRef \notin rest
              ELSE secrets = rest

\* As long as one user is alone and nothing was spoiled.
AloneInv ==
  \A u \in Users : team = {u} /\ ~ spoiled =>
    /\ \A r \in repositories : SecretsAreOfGit(r) /\ r.type # ""
    /\ \A r, q \in repositories : r.name = q.name => r = q
    /\ SecretsDuring(page[u], draft[u])

Inv == UsersInv /\ DeletionInv /\ AloneInv

-----------------------------------------------------------------------------
(* The form *)

LEMMA EmptyFormOK == FormOK(EmptyForm)
BY DEF FormOK, EmptyForm, NoSecret

(* A type limits how to authenticate to what the type allows. *)
LEMMA WithTypeOK ==
    ASSUME NEW form, FormOK(form), NEW type
    PROVE  FormOK(WithType(form, type)) /\ WithType(form, type).secretItems = form.secretItems
                                        /\ WithType(form, type).useSecret = form.useSecret
<1>1. DOMAIN EmptyForm = {"name", "content", "type", "authType", "useSecret", "authSecretName",
                          "authTypes", "secretItems", "loaded"}
    BY DEF EmptyForm
<1> DEFINE types == AuthTypes(type)
           auth == IF form.authType \in types /\ types # {"none"} THEN form.authType ELSE "none"
           new == [form EXCEPT !.type = type, !.authTypes = types, !.authType = auth]
<1>2. WithType(form, type) = new
    BY DEF WithType
<1>3. type # "git" => types = {"none"} /\ auth = "none"
    BY DEF AuthTypes
<1> HIDE DEF types, auth
<1>4. /\ DOMAIN new = DOMAIN form
      /\ new.type = type /\ new.authTypes = types /\ new.authType = auth
      /\ new.content = form.content /\ new.authSecretName = form.authSecretName
      /\ new.secretItems = form.secretItems /\ new.useSecret = form.useSecret
    BY <1>1 DEF FormOK
<1> HIDE DEF new
<1>5. FormOK(new)
    BY <1>3, <1>4 DEF FormOK
<1>6. QED BY <1>2, <1>4, <1>5

LEMMA WithUrlOK ==
    ASSUME NEW form, FormOK(form), NEW url \in DOMAIN Urls
    PROVE  FormOK(WithUrl(form, url)) /\ WithUrl(form, url).secretItems = form.secretItems
                                      /\ WithUrl(form, url).useSecret = form.useSecret
<1>1. DOMAIN EmptyForm = {"name", "content", "type", "authType", "useSecret", "authSecretName",
                          "authTypes", "secretItems", "loaded"}
    BY DEF EmptyForm
<1> DEFINE known == Urls[url]
           content == IF known.content = "" THEN form.content ELSE known.content
           named == [form EXCEPT !.name = known.name, !.authSecretName = known.name,
                                 !.content = content]
<1>2. content \in Contents \cup {""} /\ known.name # NoSecret
    BY RegistrationAssumption DEF FormOK
<1>3. WithUrl(form, url) = IF known.type = "" THEN named ELSE WithType(named, known.type)
    BY DEF WithUrl
<1> HIDE DEF known, content
<1>4. /\ FormOK(named) /\ named.secretItems = form.secretItems
      /\ named.useSecret = form.useSecret
    BY <1>1, <1>2 DEF FormOK
<1> HIDE DEF named
<1>5. QED BY <1>3, <1>4, WithTypeOK

(* Every edit leaves a form that is well formed, and the secrets it offers. *)
LEMMA EditFormOK ==
    ASSUME UsersInv, NEW u \in Users, EditForm(u)
    PROVE  /\ page[u].at = "register"
           /\ \E form : /\ FormOK(form) /\ draft' = [draft EXCEPT ![u] = form]
                        /\ form.secretItems = draft[u].secretItems
                        /\ form.useSecret \in draft[u].secretItems \cup {draft[u].useSecret}
           /\ UNCHANGED <<team, page, repositories, secrets, spoiled>>
<1>0. FormOK(draft[u])
    BY DEF UsersInv
<1>1. DOMAIN EmptyForm = {"name", "content", "type", "authType", "useSecret", "authSecretName",
                          "authTypes", "secretItems", "loaded"}
    BY DEF EmptyForm
<1> DEFINE form == draft[u]
           Good(f) == /\ FormOK(f) /\ f.secretItems = form.secretItems
                      /\ f.useSecret \in form.secretItems \cup {form.useSecret}
<1> HIDE DEF form
<1>2. SUFFICES \E f : Good(f) /\ Edit(u, f)
    BY DEF Edit, form
<1>3. ASSUME NEW url \in DOMAIN Urls, TypeUrl(u, url) PROVE \E f : Good(f) /\ Edit(u, f)
    BY <1>0, <1>3, WithUrlOK DEF TypeUrl, form
<1>4. ASSUME NEW type, ChooseRepositoryType(u, type) PROVE \E f : Good(f) /\ Edit(u, f)
    BY <1>0, <1>4, WithTypeOK DEF ChooseRepositoryType, form
<1>5. ASSUME NEW type, ChooseAuthType(u, type) PROVE \E f : Good(f) /\ Edit(u, f)
    <2>1. type \in form.authTypes /\ Edit(u, [form EXCEPT !.authType = type])
        BY <1>5 DEF ChooseAuthType, form
    <2>2. Good([form EXCEPT !.authType = type])
        BY <1>0, <1>1, <2>1 DEF FormOK, form
    <2>3. QED BY <2>1, <2>2
<1>6. ASSUME NEW secret \in form.secretItems, ChooseSecret(u, secret)
      PROVE  \E f : Good(f) /\ Edit(u, f)
    <2>1. Edit(u, [form EXCEPT !.useSecret = secret])
        BY <1>6 DEF ChooseSecret, form
    <2>2. Good([form EXCEPT !.useSecret = secret])
        BY <1>0, <1>1 DEF FormOK, form
    <2>3. QED BY <2>1, <2>2
<1>7. ASSUME NEW name \in TypedNames, TypeSecretName(u, name) PROVE \E f : Good(f) /\ Edit(u, f)
    <2>1. Edit(u, [form EXCEPT !.authSecretName = name])
        BY <1>7 DEF TypeSecretName, form
    <2>2. Good([form EXCEPT !.authSecretName = name])
        BY <1>0, <1>1, RegistrationAssumption DEF FormOK, form
    <2>3. QED BY <2>1, <2>2
<1>8. ASSUME NEW name, TypeName(u, name) PROVE \E f : Good(f) /\ Edit(u, f)
    <2>1. Edit(u, [form EXCEPT !.name = name])
        BY <1>8 DEF TypeName, form
    <2>2. Good([form EXCEPT !.name = name])
        BY <1>0, <1>1 DEF FormOK, form
    <2>3. QED BY <2>1, <2>2
<1>9. ASSUME NEW content \in Contents, ChooseContent(u, content)
      PROVE  \E f : Good(f) /\ Edit(u, f)
    <2>1. Edit(u, [form EXCEPT !.content = content])
        BY <1>9 DEF ChooseContent, form
    <2>2. Good([form EXCEPT !.content = content])
        BY <1>0, <1>1 DEF FormOK, form
    <2>3. QED BY <2>1, <2>2
<1>10. QED BY <1>3, <1>4, <1>5, <1>6, <1>7, <1>8, <1>9 DEF EditForm, form

(* The repository a form describes is of the content chosen in it. *)
LEMMA RepositoryOfForm ==
    ASSUME NEW form, FormOK(form), form.content # ""
    PROVE  /\ AsChosen(getRepositoryResource(form))
           /\ SecretsAreOfGit(getRepositoryResource(form))
BY DEF FormOK, AsChosen, SecretsAreOfGit, getRepositoryResource

-----------------------------------------------------------------------------
(* The tasks *)

LEMMA TaskShapes ==
    ASSUME NEW task, TaskOK(task)
    PROVE  /\ TaskOK(NoTask) /\ TaskOK(RegisterRepositoryPage)
           /\ task.at = "createSecret" =>
                LET next == [task EXCEPT !.at = "registerRepository"]
                IN  TaskOK(next) /\ next.at = "registerRepository"
                                 /\ next.repository = task.repository
           /\ task.at = "repository" =>
                LET next == [task EXCEPT !.at = "check"]
                IN  TaskOK(next) /\ next.at = "check" /\ next.repository = task.repository
           /\ task.at = "check" =>
                LET next == [task EXCEPT !.at = "repository"]
                IN  TaskOK(next) /\ next.at = "repository"
           /\ task.at = "unregister" =>
                /\ \A calls : LET next == [task EXCEPT !.calls = calls]
                              IN  /\ TaskOK(next) /\ next.at = "unregister"
                                  /\ next.repository = task.repository
                                  /\ next.calls = calls /\ next.since = task.since
                /\ \A since : LET next == [task EXCEPT !.since = since]
                              IN  /\ TaskOK(next) /\ next.at = "unregister"
                                  /\ next.repository = task.repository
                                  /\ next.calls = task.calls /\ next.since = since
<1> USE DEF TaskOK, TaskFields, Registering
<1>1. TaskOK(NoTask) /\ TaskOK(RegisterRepositoryPage)
    BY DEF NoTask, RegisterRepositoryPage
<1>2. ASSUME task.at = "createSecret"
      PROVE  LET next == [task EXCEPT !.at = "registerRepository"]
             IN  TaskOK(next) /\ next.at = "registerRepository"
                              /\ next.repository = task.repository
    <2> DEFINE next == [task EXCEPT !.at = "registerRepository"]
    <2>1. /\ DOMAIN next = DOMAIN task /\ next.at = "registerRepository"
          /\ next.repository = task.repository
        BY <1>2
    <2> HIDE DEF next
    <2>2. TaskOK(next)
        BY <1>2, <2>1
    <2>3. QED BY <2>1, <2>2 DEF next
<1>3. ASSUME task.at = "repository"
      PROVE  LET next == [task EXCEPT !.at = "check"]
             IN  TaskOK(next) /\ next.at = "check" /\ next.repository = task.repository
    <2> DEFINE next == [task EXCEPT !.at = "check"]
    <2>1. DOMAIN next = DOMAIN task /\ next.at = "check" /\ next.repository = task.repository
        BY <1>3
    <2> HIDE DEF next
    <2>2. TaskOK(next)
        BY <1>3, <2>1
    <2>3. QED BY <2>1, <2>2 DEF next
<1>4. ASSUME task.at = "unregister", NEW calls
      PROVE  LET next == [task EXCEPT !.calls = calls]
             IN  /\ TaskOK(next) /\ next.at = "unregister"
                 /\ next.repository = task.repository
                 /\ next.calls = calls /\ next.since = task.since
    <2> DEFINE next == [task EXCEPT !.calls = calls]
    <2>1. /\ DOMAIN next = DOMAIN task /\ next.at = "unregister" /\ next.calls = calls
          /\ next.repository = task.repository /\ next.since = task.since
        BY <1>4
    <2> HIDE DEF next
    <2>2. TaskOK(next)
        BY <1>4, <2>1
    <2>3. QED BY <2>1, <2>2 DEF next
<1>5. ASSUME task.at = "unregister", NEW since
      PROVE  LET next == [task EXCEPT !.since = since]
             IN  /\ TaskOK(next) /\ next.at = "unregister"
                 /\ next.repository = task.repository
                 /\ next.calls = task.calls /\ next.since = since
    <2> DEFINE next == [task EXCEPT !.since = since]
    <2>1. /\ DOMAIN next = DOMAIN task /\ next.at = "unregister" /\ next.since = since
          /\ next.repository = task.repository /\ next.calls = task.calls
        BY <1>5
    <2> HIDE DEF next
    <2>2. TaskOK(next)
        BY <1>5, <2>1
    <2>3. QED BY <2>1, <2>2 DEF next
<1>6. ASSUME task.at = "check"
      PROVE  LET next == [task EXCEPT !.at = "repository"]
             IN  TaskOK(next) /\ next.at = "repository"
    <2> DEFINE next == [task EXCEPT !.at = "repository"]
    <2>1. DOMAIN next = DOMAIN task /\ next.at = "repository"
        BY <1>6
    <2> HIDE DEF next
    <2>2. TaskOK(next)
        BY <1>6, <2>1
    <2>3. QED BY <2>1, <2>2 DEF next
<1>7. QED BY <1>1, <1>2, <1>3, <1>4, <1>5, <1>6

LEMMA UnregisteringOK ==
    ASSUME NEW r, NEW calls
    PROVE  /\ TaskOK(Unregistering(r, calls))
           /\ Unregistering(r, calls).at = "unregister"
           /\ Unregistering(r, calls).repository = r
           /\ Unregistering(r, calls).calls = calls
BY DEF TaskOK, TaskFields, Registering, Unregistering

(* A step of one user that changes the user's own task and form. *)
LEMMA UsersInvKept ==
    ASSUME UsersInv, NEW u \in Users, team' = team, spoiled' \in BOOLEAN,
           NEW task, TaskOK(task), page' \in {page, [page EXCEPT ![u] = task]},
           NEW form, FormOK(form), draft' \in {draft, [draft EXCEPT ![u] = form]},
           \A r \in repositories' : AsChosen(r)
    PROVE  UsersInv'
<1>1. DOMAIN page' = Users /\ DOMAIN draft' = Users
    BY DEF UsersInv
<1>2. \A v \in Users : FormOK(draft'[v]) /\ TaskOK(page'[v])
    BY DEF UsersInv
<1>3. QED BY <1>1, <1>2 DEF UsersInv

LEMMA InitUsersInv == RegistrationInit => UsersInv
<1> SUFFICES ASSUME RegistrationInit PROVE UsersInv
    OBVIOUS
<1>1. \A r \in repositories : AsChosen(r)
    <2>1. \A n : AsChosen(FirstRepository(n))
        BY DEF AsChosen, FirstRepository, Contents, RepositoryContentDetails, Details
    <2>2. QED BY <2>1 DEF RegistrationInit
<1>2. TaskOK(NoTask)
    BY DEF TaskOK, TaskFields, NoTask, Registering
<1>3. QED BY <1>1, <1>2, EmptyFormOK DEF RegistrationInit, UsersInv

(* What the server answers leaves the user's task with one of these. *)
LEMMA AnsweredTask ==
    ASSUME NEW u \in Users, TaskOK(page[u]), page[u].at = "unregister", NEW call, NEW answer,
           Answered(u, call, answer)
    PROVE  \E task : TaskOK(task) /\ page' = [page EXCEPT ![u] = task]
<1>1. \A r : TaskOK(RepositoryPage(r))
    BY DEF TaskOK, TaskFields, Registering, RepositoryPage
<1>2. QED BY <1>1, TaskShapes DEF Answered

(* The team stays, and what was spoiled remains so. *)
LEMMA TeamKept ==
    ASSUME UsersInv, NEW u \in team,
           \/ OpenRegistration(u) \/ Leave(u) \/ LoadSecrets(u) \/ EditForm(u) \/ RegisterRepo(u)
           \/ CreateSecret(u) \/ RegisterRepository(u)
           \/ OpenRepository(u) \/ ExecuteUnregister(u) \/ CheckUsedByOtherRepository(u)
           \/ UnregisterRepository(u) \/ DeleteSecret(u)
    PROVE  team' = team /\ spoiled' \in BOOLEAN /\ (spoiled => spoiled')
<1>0. u \in Users /\ spoiled \in BOOLEAN
    BY DEF UsersInv, Users
<1>1. CASE OpenRegistration(u) \/ Leave(u) \/ LoadSecrets(u) \/ EditForm(u) \/ RegisterRepo(u)
    BY <1>0, <1>1, EditFormOK DEF OpenRegistration, Leave, LoadSecrets, RegisterRepo
<1>2. CASE RegisterRepository(u)
    BY <1>0, <1>2 DEF RegisterRepository, Fails, Called
<1>3. CASE CreateSecret(u) \/ CheckUsedByOtherRepository(u)
    BY <1>0, <1>3 DEF CreateSecret, CheckUsedByOtherRepository, Fails, Called
<1>4. CASE OpenRepository(u) \/ ExecuteUnregister(u)
    BY <1>0, <1>4 DEF OpenRepository, ExecuteUnregister
<1>5. CASE UnregisterRepository(u) \/ DeleteSecret(u)
    BY <1>0, <1>5 DEF UnregisterRepository, DeleteSecret, CallFails, Called
<1>6. QED BY <1>1, <1>2, <1>3, <1>4, <1>5

LEMMA UsersInvStep ==
    ASSUME UsersInv, NEW u \in team,
           \/ OpenRegistration(u) \/ Leave(u) \/ LoadSecrets(u) \/ EditForm(u) \/ RegisterRepo(u)
           \/ CreateSecret(u) \/ RegisterRepository(u)
           \/ OpenRepository(u) \/ ExecuteUnregister(u) \/ CheckUsedByOtherRepository(u)
           \/ UnregisterRepository(u) \/ DeleteSecret(u)
    PROVE  UsersInv'
<1>0. /\ u \in Users /\ FormOK(draft[u]) /\ TaskOK(page[u]) /\ FormOK(EmptyForm)
      /\ spoiled' \in BOOLEAN
      /\ TaskOK(NoTask) /\ TaskOK(RegisterRepositoryPage)
      /\ \A r \in repositories : AsChosen(r)
    <2>1. u \in Users
        BY DEF UsersInv, Users
    <2>2. QED BY <2>1, EmptyFormOK, TaskShapes, TeamKept DEF UsersInv
<1>1. CASE OpenRegistration(u)
    BY <1>0, <1>1, UsersInvKept DEF OpenRegistration
<1>2. CASE Leave(u)
    BY <1>0, <1>2, UsersInvKept DEF Leave
<1>3. CASE LoadSecrets(u)
    <2>1. ASSUME NEW items PROVE FormOK([draft[u] EXCEPT !.secretItems = items, !.loaded = TRUE])
        <3> DEFINE form == [draft[u] EXCEPT !.secretItems = items, !.loaded = TRUE]
        <3>1. /\ DOMAIN form = DOMAIN draft[u] /\ form.type = draft[u].type
              /\ form.content = draft[u].content /\ form.authType = draft[u].authType
              /\ form.authTypes = draft[u].authTypes
              /\ form.authSecretName = draft[u].authSecretName
            OBVIOUS
        <3> HIDE DEF form
        <3>2. QED BY <1>0, <3>1 DEF FormOK, form
    <2>2. draft' = [draft EXCEPT ![u] = [draft[u] EXCEPT !.secretItems = secrets \cup {New},
                                                         !.loaded = TRUE]]
        BY <1>3 DEF LoadSecrets
    <2>3. page' = page /\ team' = team /\ repositories' = repositories
        BY <1>3 DEF LoadSecrets
    <2>4. QED BY <1>0, <2>1, <2>2, <2>3, UsersInvKept
<1>4. CASE EditForm(u)
    BY <1>0, <1>4, EditFormOK, UsersInvKept
<1>5. CASE RegisterRepo(u)
    <2> DEFINE r == getRepositoryResource(draft[u])
               task == [at |-> IF draft[u].authType = "token" /\ draft[u].useSecret = New
                               THEN "createSecret" ELSE "registerRepository",
                        repository |-> r,
                        authSecretName |-> draft[u].authSecretName]
    <2>1. AsChosen(r) /\ SecretsAreOfGit(r)
        BY <1>0, <1>5, RepositoryOfForm DEF RegisterRepo
    <2>2. /\ page' = [page EXCEPT ![u] = task] /\ team' = team /\ repositories' = repositories
          /\ draft' = draft
        BY <1>5 DEF RegisterRepo
    <2> HIDE DEF r
    <2>3. TaskOK(task)
        BY <2>1 DEF TaskOK, TaskFields, Registering
    <2> HIDE DEF task
    <2>4. QED BY <1>0, <2>2, <2>3, UsersInvKept
<1>6. CASE CreateSecret(u)
    <2>1. team' = team /\ draft' = draft /\ repositories' = repositories
        BY <1>6 DEF CreateSecret, Called, Fails
    <2>2. \E task : TaskOK(task) /\ page' = [page EXCEPT ![u] = task]
        BY <1>0, <1>6, TaskShapes DEF CreateSecret, Fails
    <2>3. QED BY <1>0, <2>1, <2>2, UsersInvKept
<1>7. CASE RegisterRepository(u)
    <2>1. team' = team /\ draft' \in {draft, [draft EXCEPT ![u] = EmptyForm]}
        BY <1>7 DEF RegisterRepository, Called, Fails
    <2>2. CASE Fails(u, RegisterRepositoryPage)
        BY <1>0, <2>1, <2>2, UsersInvKept DEF Fails
    <2>3. CASE ~ Fails(u, RegisterRepositoryPage)
        <3> DEFINE name == page[u].repository.name
                   Since(v) == [page[v] EXCEPT !.since = page[v].since \cup {name}]
        <3>1. /\ repositories' = repositories \cup {page[u].repository}
              /\ page' = [v \in Users |-> IF v = u THEN NoTask
                                          ELSE IF page[v].at = "unregister" THEN Since(v)
                                          ELSE page[v]]
            BY <1>7, <2>3 DEF RegisterRepository
        <3>2. AsChosen(page[u].repository)
            BY <1>0, <1>7 DEF RegisterRepository, TaskOK, Registering
        <3>3. \A v \in Users : page[v].at = "unregister" => TaskOK(Since(v))
            BY TaskShapes DEF UsersInv
        <3> HIDE DEF Since
        <3>4. \A v \in Users : TaskOK(page'[v])
            BY <1>0, <3>1, <3>3 DEF UsersInv
        <3>5. DOMAIN draft' = Users /\ \A v \in Users : FormOK(draft'[v])
            BY <1>0, <2>1 DEF UsersInv
        <3>6. QED BY <1>0, <2>1, <3>1, <3>2, <3>4, <3>5 DEF UsersInv
    <2>4. QED BY <2>2, <2>3
<1>8. CASE OpenRepository(u)
    <2>1. \A r : TaskOK(RepositoryPage(r))
        BY DEF TaskOK, TaskFields, Registering, RepositoryPage
    <2>2. PICK r \in repositories : page' = [page EXCEPT ![u] = RepositoryPage(r)]
        BY <1>8 DEF OpenRepository
    <2>3. QED BY <1>0, <1>8, <2>1, <2>2, UsersInvKept DEF OpenRepository
<1>9. CASE ExecuteUnregister(u)
    <2>1. \E task : TaskOK(task) /\ page' = [page EXCEPT ![u] = task]
        BY <1>0, <1>9, TaskShapes, UnregisteringOK DEF ExecuteUnregister
    <2>2. QED BY <1>0, <1>9, <2>1, UsersInvKept DEF ExecuteUnregister
<1>10. CASE CheckUsedByOtherRepository(u)
    <2> DEFINE begun == [page[u] EXCEPT !.at = "repository"]
    <2>1. TaskOK(begun)
        BY <1>0, <1>10, TaskShapes DEF CheckUsedByOtherRepository
    <2>2. \/ page' = [page EXCEPT ![u] = begun]
          \/ \E calls : page' = [page EXCEPT ![u] = Unregistering(page[u].repository, calls)]
        BY <1>10 DEF CheckUsedByOtherRepository, Fails
    <2> HIDE DEF begun
    <2>3. \E task : TaskOK(task) /\ page' = [page EXCEPT ![u] = task]
        BY <2>1, <2>2, UnregisteringOK
    <2>4. team' = team /\ draft' = draft /\ repositories' = repositories
        BY <1>10 DEF CheckUsedByOtherRepository, Fails, Called
    <2>5. QED BY <1>0, <2>3, <2>4, UsersInvKept
<1>11. CASE UnregisterRepository(u)
    <2>1. \E task : TaskOK(task) /\ page' = [page EXCEPT ![u] = task]
        BY <1>0, <1>11, AnsweredTask DEF UnregisterRepository, CallFails
    <2>2. team' = team /\ draft' = draft /\ repositories' \subseteq repositories
        BY <1>11 DEF UnregisterRepository, CallFails, Called
    <2>3. QED BY <1>0, <2>1, <2>2, UsersInvKept
<1>12. CASE DeleteSecret(u)
    <2>1. \E task : TaskOK(task) /\ page' = [page EXCEPT ![u] = task]
        BY <1>0, <1>12, AnsweredTask DEF DeleteSecret, CallFails
    <2>2. team' = team /\ draft' = draft /\ repositories' = repositories
        BY <1>12 DEF DeleteSecret, CallFails, Called
    <2>3. QED BY <1>0, <2>1, <2>2, UsersInvKept
<1>13. QED BY <1>1, <1>2, <1>3, <1>4, <1>5, <1>6, <1>7, <1>8, <1>9, <1>10, <1>11, <1>12

LEMMA UsersInvNext == UsersInv /\ [RegistrationNext]_registrationVars => UsersInv'
<1>1. CASE UNCHANGED registrationVars
    BY <1>1 DEF UsersInv, registrationVars
<1>2. QED BY <1>1, UsersInvStep DEF RegistrationNext

-----------------------------------------------------------------------------
(* The deletion of secrets *)

OnlyOwnSecretOf(task) ==
  task.at = "unregister" /\ "secret" \in task.calls =>
    \A r \in repositories : UsesSecret(r, task.repository.secretRef) =>
      r.name = task.repository.name \/ r.name \in task.since

(* A step that registers nothing and gives the user a task that is allowed. *)
LEMMA DeletionInvKept ==
    ASSUME UsersInv, DeletionInv, NEW u \in Users,
           NEW task, OnlyOwnSecretOf(task), page' \in {page, [page EXCEPT ![u] = task]},
           repositories' \subseteq repositories
    PROVE  DeletionInv'
<1> SUFFICES ASSUME NEW v \in Users PROVE OnlyOwnSecret(v)'
    BY DEF DeletionInv
<1>1. page'[v] \in {page[v], task}
    BY DEF UsersInv
<1>2. QED BY <1>1 DEF DeletionInv, OnlyOwnSecret, OnlyOwnSecretOf

LEMMA DeletionInvStep ==
    ASSUME UsersInv, DeletionInv, NEW u \in team,
           \/ OpenRegistration(u) \/ Leave(u) \/ LoadSecrets(u) \/ EditForm(u) \/ RegisterRepo(u)
           \/ CreateSecret(u) \/ RegisterRepository(u)
           \/ OpenRepository(u) \/ ExecuteUnregister(u) \/ CheckUsedByOtherRepository(u)
           \/ UnregisterRepository(u) \/ DeleteSecret(u)
    PROVE  DeletionInv'
<1>0. /\ u \in Users /\ TaskOK(page[u]) /\ OnlyOwnSecretOf(page[u])
      /\ OnlyOwnSecretOf(NoTask) /\ OnlyOwnSecretOf(RegisterRepositoryPage)
    <2>1. u \in Users
        BY DEF UsersInv, Users
    <2>2. QED BY <2>1 DEF UsersInv, DeletionInv, OnlyOwnSecret, OnlyOwnSecretOf, NoTask,
                         RegisterRepositoryPage
<1>1. CASE OpenRegistration(u) \/ Leave(u) \/ LoadSecrets(u) \/ EditForm(u)
    <2>1. /\ page' \in {page, [page EXCEPT ![u] = NoTask], [page EXCEPT ![u] = RegisterRepositoryPage]}
          /\ repositories' = repositories
        BY <1>0, <1>1, EditFormOK DEF OpenRegistration, Leave, LoadSecrets
    <2>2. QED BY <1>0, <2>1, DeletionInvKept
<1>2. CASE RegisterRepo(u)
    <2> DEFINE at == IF draft[u].authType = "token" /\ draft[u].useSecret = New
                     THEN "createSecret" ELSE "registerRepository"
               task == [at |-> at, repository |-> getRepositoryResource(draft[u]),
                        authSecretName |-> draft[u].authSecretName]
    <2>1. page' = [page EXCEPT ![u] = task] /\ repositories' = repositories
        BY <1>2 DEF RegisterRepo
    <2>2. task.at # "unregister"
        OBVIOUS
    <2> HIDE DEF task
    <2>3. QED BY <1>0, <2>1, <2>2, DeletionInvKept DEF OnlyOwnSecretOf
<1>3. CASE CreateSecret(u)
    <2>1. /\ page' \in {[page EXCEPT ![u] = RegisterRepositoryPage],
                        [page EXCEPT ![u] = [page[u] EXCEPT !.at = "registerRepository"]]}
          /\ repositories' = repositories
        BY <1>3 DEF CreateSecret, Fails
    <2>2. OnlyOwnSecretOf([page[u] EXCEPT !.at = "registerRepository"])
        BY <1>0, <1>3, TaskShapes DEF CreateSecret, OnlyOwnSecretOf
    <2>3. QED BY <1>0, <2>1, <2>2, DeletionInvKept
<1>4. CASE RegisterRepository(u)
    <2>1. CASE Fails(u, RegisterRepositoryPage)
        BY <1>0, <2>1, DeletionInvKept DEF Fails
    <2>2. CASE ~ Fails(u, RegisterRepositoryPage)
        <3> DEFINE name == page[u].repository.name
                   Since(v) == [page[v] EXCEPT !.since = page[v].since \cup {name}]
        <3>1. /\ repositories' = repositories \cup {page[u].repository}
              /\ page' = [v \in Users |-> IF v = u THEN NoTask
                                          ELSE IF page[v].at = "unregister" THEN Since(v)
                                          ELSE page[v]]
            BY <1>4, <2>2 DEF RegisterRepository
        <3>2. SUFFICES ASSUME NEW v \in Users PROVE OnlyOwnSecret(v)'
            BY DEF DeletionInv
        <3>3. CASE v = u \/ page[v].at # "unregister"
            BY <3>1, <3>3 DEF OnlyOwnSecret, NoTask
        <3>4. CASE v # u /\ page[v].at = "unregister"
            <4>1. /\ Since(v).calls = page[v].calls /\ Since(v).repository = page[v].repository
                  /\ Since(v).since = page[v].since \cup {name}
                BY <3>4, TaskShapes DEF UsersInv
            <4>2. page'[v] = Since(v)
                BY <3>1, <3>4
            <4> HIDE DEF Since
            <4>3. QED BY <3>1, <3>4, <4>1, <4>2 DEF DeletionInv, OnlyOwnSecret
        <3>5. QED BY <3>3, <3>4
    <2>3. QED BY <2>1, <2>2
<1>5. CASE OpenRepository(u)
    <2>1. PICK r \in repositories : page' = [page EXCEPT ![u] = RepositoryPage(r)]
        BY <1>5 DEF OpenRepository
    <2>2. repositories' = repositories /\ OnlyOwnSecretOf(RepositoryPage(r))
        BY <1>5 DEF OpenRepository, OnlyOwnSecretOf, RepositoryPage
    <2>3. QED BY <1>0, <2>1, <2>2, DeletionInvKept
<1>6. CASE ExecuteUnregister(u)
    <2>1. /\ page' \in {[page EXCEPT ![u] = Unregistering(page[u].repository, {"repository"})],
                        [page EXCEPT ![u] = [page[u] EXCEPT !.at = "check"]]}
          /\ repositories' = repositories
        BY <1>6 DEF ExecuteUnregister
    <2>2. OnlyOwnSecretOf([page[u] EXCEPT !.at = "check"])
        BY <1>0, <1>6, TaskShapes DEF ExecuteUnregister, OnlyOwnSecretOf
    <2>3. OnlyOwnSecretOf(Unregistering(page[u].repository, {"repository"}))
        BY UnregisteringOK DEF OnlyOwnSecretOf
    <2>4. QED BY <1>0, <2>1, <2>2, <2>3, DeletionInvKept
<1>7. CASE CheckUsedByOtherRepository(u)
    <2> DEFINE own == page[u].repository
               shared == \E r \in repositories :
                           r.name # own.name /\ UsesSecret(r, own.secretRef)
               begun == [page[u] EXCEPT !.at = "repository"]
    <2>1. CASE Fails(u, begun)
        <3>1. OnlyOwnSecretOf(begun)
            BY <1>0, <1>7, TaskShapes DEF CheckUsedByOtherRepository, OnlyOwnSecretOf
        <3>2. QED BY <1>0, <2>1, <3>1, DeletionInvKept DEF Fails
    <2>2. CASE ~ Fails(u, begun)
        <3>1. /\ page' = [page EXCEPT ![u] = Unregistering(own, IF shared THEN {"repository"}
                                                               ELSE {"repository", "secret"})]
              /\ repositories' = repositories
            BY <1>7, <2>2 DEF CheckUsedByOtherRepository
        <3>2. OnlyOwnSecretOf(Unregistering(own, IF shared THEN {"repository"}
                                                 ELSE {"repository", "secret"}))
            BY UnregisteringOK DEF OnlyOwnSecretOf
        <3>3. QED BY <1>0, <3>1, <3>2, DeletionInvKept
    <2>3. QED BY <2>1, <2>2
<1>8. CASE UnregisterRepository(u) \/ DeleteSecret(u)
    <2>1. page[u].at = "unregister" /\ repositories' \subseteq repositories
        BY <1>8 DEF UnregisterRepository, DeleteSecret, CallFails
    <2>2. PICK call, answer : Answered(u, call, answer) /\ (answer = {} \/ answer = {"failed"})
        BY <1>8 DEF UnregisterRepository, DeleteSecret, CallFails
    <2> DEFINE calls == (page[u].calls \ {call}) \cup answer
               next == [page[u] EXCEPT !.calls = calls]
    <2>3. /\ next.at = "unregister" /\ next.repository = page[u].repository
          /\ next.calls = calls /\ next.since = page[u].since
        BY <1>0, <2>1, TaskShapes
    <2>4. "secret" \in calls => "secret" \in page[u].calls
        BY <2>2
    <2> HIDE DEF calls
    <2>5. page' \in {[page EXCEPT ![u] = NoTask],
                    [page EXCEPT ![u] = RepositoryPage(page[u].repository)],
                    [page EXCEPT ![u] = next]}
        BY <2>2 DEF Answered, calls
    <2> HIDE DEF next
    <2>6. OnlyOwnSecretOf(next) /\ OnlyOwnSecretOf(RepositoryPage(page[u].repository))
        BY <1>0, <2>1, <2>3, <2>4 DEF OnlyOwnSecretOf, RepositoryPage
    <2>7. QED BY <1>0, <2>1, <2>5, <2>6, DeletionInvKept
<1>9. QED BY <1>1, <1>2, <1>3, <1>4, <1>5, <1>6, <1>7, <1>8

(* Only DeleteSecret deletes a secret. *)
LEMMA DeletedByItsUser ==
    ASSUME UsersInv, DeletionInv, RegistrationNext, NEW secret \in secrets \ secrets'
    PROVE  \E u \in team :
             /\ page[u].at = "unregister"
             /\ \A r \in repositories : UsesSecret(r, secret) =>
                  r.name = page[u].repository.name \/ r.name \in page[u].since
<1>1. PICK u \in team : DeleteSecret(u)
    BY DEF RegistrationNext, OpenRegistration, Leave, LoadSecrets, EditForm, TypeUrl,
           ChooseRepositoryType, ChooseAuthType, ChooseSecret, TypeSecretName, TypeName,
           ChooseContent, Edit, RegisterRepo, CreateSecret, RegisterRepository, OpenRepository,
           ExecuteUnregister, CheckUsedByOtherRepository, UnregisterRepository, CallFails, Fails
<1>2. page[u].at = "unregister" /\ "secret" \in page[u].calls
      /\ secret = page[u].repository.secretRef
    BY <1>1 DEF DeleteSecret, CallFails
<1>3. OnlyOwnSecret(u)
    BY DEF UsersInv, Users, DeletionInv
<1>4. QED BY <1>2, <1>3 DEF OnlyOwnSecret

(* For every team: a secret is deleted only with the last repository that used  *)
(* it when its uses were looked up; executeUnregister and the check before it.  *)
THEOREM SecretsInUseAreKept == RegistrationSpec => UsedSecretsAreKept
<1>1. RegistrationInit => UsersInv /\ DeletionInv
    BY InitUsersInv DEF RegistrationInit, DeletionInv, OnlyOwnSecret, NoTask
<1>2. UsersInv /\ DeletionInv /\ [RegistrationNext]_registrationVars => (UsersInv /\ DeletionInv)'
    <2>1. ASSUME UsersInv, DeletionInv, UNCHANGED registrationVars PROVE DeletionInv'
        BY <2>1 DEF DeletionInv, OnlyOwnSecret, registrationVars
    <2>2. QED BY <2>1, UsersInvNext, DeletionInvStep DEF RegistrationNext
<1>3. UsersInv /\ DeletionInv /\ [RegistrationNext]_registrationVars =>
        [\A secret \in secrets \ secrets' :
           \E u \in team :
             /\ page[u].at = "unregister"
             /\ \A r \in repositories : UsesSecret(r, secret) =>
                  r.name = page[u].repository.name \/ r.name \in page[u].since]_registrationVars
    BY DeletedByItsUser
<1>4. QED BY <1>1, <1>2, <1>3, PTL DEF RegistrationSpec, UsedSecretsAreKept

-----------------------------------------------------------------------------
(* The secrets of a user who is alone *)

RepositoriesOK ==
  /\ \A r \in repositories : SecretsAreOfGit(r) /\ r.type # ""
  /\ \A r, q \in repositories : r.name = q.name => r = q

(* Taking a repository out of the others, and putting it back. *)
LEMMA RefsWithout ==
    ASSUME RepositoriesOK, NEW own \in repositories
    PROVE  RefsOf(repositories) =
             RefsOf(OthersThan(own, repositories)) \cup (IF own.secretRef = NoSecret THEN {} ELSE {own.secretRef})
<1>1. OthersThan(own, repositories) = repositories \ {own}
    BY DEF RepositoriesOK, OthersThan
<1>2. QED BY <1>1 DEF RefsOf

LEMMA RefsWith ==
    ASSUME NEW S, NEW r
    PROVE  RefsOf(S \cup {r}) =
             RefsOf(S) \cup (IF r.secretRef = NoSecret THEN {} ELSE {r.secretRef})
BY DEF RefsOf

(* A task is over, or a registration begins. *)
LEMMA AloneAtRest ==
    ASSUME NEW u, page'[u] \in {NoTask, RegisterRepositoryPage}, draft'[u] = EmptyForm,
           secrets' = RefsOf(repositories')
    PROVE  SecretsDuring(page[u], draft[u])'
<1>1. EmptyForm.secretItems \cup {EmptyForm.useSecret} = {New}
    BY DEF EmptyForm
<1>2. page'[u].at \in {"none", "register"}
    BY DEF NoTask, RegisterRepositoryPage
<1>3. QED BY <1>1, <1>2 DEF SecretsDuring

(* One of the two calls of an unregistration is left. *)
LEMMA AloneWithOneCall ==
    ASSUME NEW u, NEW own, page'[u].at = "unregister", page'[u].repository = own,
           draft'[u] = EmptyForm,
           LET rest == RefsOf(OthersThan(own, repositories'))
           IN  \/ /\ page'[u].calls = {"repository"}
                  /\ own \in repositories' /\ secrets' = rest
               \/ /\ page'[u].calls = {"secret"}
                  /\ repositories' = OthersThan(own, repositories')
                  /\ secrets' = rest \cup {own.secretRef} /\ own.secretRef \notin rest
    PROVE  SecretsDuring(page[u], draft[u])'
BY DEF SecretsDuring

(* Unregistering, with the calls that are made. *)
LEMMA AloneUnregisters ==
    ASSUME NEW u, RepositoriesOK, secrets = RefsOf(repositories),
           NEW own \in repositories, NEW shared \in BOOLEAN,
           shared => own.secretRef \in RefsOf(OthersThan(own, repositories)) \cup {NoSecret},
           ~ shared => own.secretRef \notin RefsOf(OthersThan(own, repositories)) \cup {NoSecret},
           page'[u] = Unregistering(own, IF shared THEN {"repository"} ELSE {"repository", "secret"}),
           draft'[u] = EmptyForm, secrets' = secrets, repositories' = repositories
    PROVE  SecretsDuring(page[u], draft[u])'
<1> DEFINE calls == IF shared THEN {"repository"} ELSE {"repository", "secret"}
           rest == RefsOf(OthersThan(own, repositories))
<1>1. secrets = IF shared THEN rest ELSE rest \cup {own.secretRef}
    BY RefsWithout
<1>2. /\ page'[u].at = "unregister" /\ page'[u].repository = own /\ page'[u].calls = calls
    BY UnregisteringOK
<1>3. RefsOf(OthersThan(own, repositories))' = rest
    BY DEF OthersThan, RefsOf
<1>4. calls \subseteq {"repository", "secret"} /\ "repository" \in calls /\ ("secret" \in calls <=> ~ shared)
    OBVIOUS
<1> HIDE DEF calls, rest
<1>5. QED BY <1>1, <1>2, <1>3, <1>4 DEF SecretsDuring, rest

LEMMA AloneStep ==
    ASSUME UsersInv, NEW u \in Users, team = {u}, ~ spoiled, ~ spoiled',
           RepositoriesOK, SecretsDuring(page[u], draft[u]),
           \/ OpenRegistration(u) \/ Leave(u) \/ LoadSecrets(u) \/ EditForm(u) \/ RegisterRepo(u)
           \/ CreateSecret(u) \/ RegisterRepository(u)
           \/ OpenRepository(u) \/ ExecuteUnregister(u) \/ CheckUsedByOtherRepository(u)
           \/ UnregisterRepository(u) \/ DeleteSecret(u)
    PROVE  RepositoriesOK' /\ SecretsDuring(page[u], draft[u])'
<1>0. /\ TaskOK(page[u]) /\ FormOK(draft[u])
      /\ u \in DOMAIN page /\ u \in DOMAIN draft
      /\ \A begun : ~ Fails(u, begun)
      /\ \A call : ~ CallFails(u, call)
      /\ page[u].at \notin Registering \cup {"register"} => draft[u] = EmptyForm
    BY DEF UsersInv, Fails, CallFails, SecretsDuring
<1>1. CASE OpenRegistration(u) \/ Leave(u)
    <2>1. /\ page[u].at \in {"none", "register", "repository"}
          /\ secrets' = secrets /\ repositories' = repositories
          /\ page'[u] \in {NoTask, RegisterRepositoryPage} /\ draft'[u] = EmptyForm
        BY <1>0, <1>1 DEF OpenRegistration, Leave, NoTask, Registering
    <2>2. secrets' = RefsOf(repositories')
        BY <2>1 DEF SecretsDuring
    <2>3. page'[u] \in {NoTask, RegisterRepositoryPage} /\ draft'[u] = EmptyForm
        BY <2>1
    <2>4. SecretsDuring(page[u], draft[u])'
        BY <2>2, <2>3, AloneAtRest
    <2>5. QED BY <2>1, <2>4 DEF RepositoriesOK
<1>2. CASE LoadSecrets(u) \/ EditForm(u)
    <2>1. /\ page[u].at = "register" /\ page' = page
          /\ secrets' = secrets /\ repositories' = repositories
        BY <1>2, EditFormOK DEF LoadSecrets
    <2>2. draft'[u].secretItems \cup {draft'[u].useSecret} \subseteq secrets \cup {New}
        <3>1. draft[u].secretItems \cup {draft[u].useSecret} \subseteq secrets \cup {New}
            BY <2>1 DEF SecretsDuring
        <3>2. CASE LoadSecrets(u)
            <4> DEFINE form == [draft[u] EXCEPT !.secretItems = secrets \cup {New}, !.loaded = TRUE]
            <4>1. "secretItems" \in DOMAIN draft[u]
                BY <1>0 DEF FormOK, EmptyForm
            <4>2. form.secretItems = secrets \cup {New} /\ form.useSecret = draft[u].useSecret
                BY <4>1
            <4>3. draft'[u] = form
                BY <1>0, <3>2 DEF LoadSecrets
            <4> HIDE DEF form
            <4>4. QED BY <3>1, <4>2, <4>3
        <3>3. CASE EditForm(u)
            BY <1>0, <3>1, <3>3, EditFormOK
        <3>4. QED BY <1>2, <3>2, <3>3
    <2>3. secrets = RefsOf(repositories)
        BY <2>1 DEF SecretsDuring
    <2>4. secrets' = RefsOf(repositories)'
        BY <2>1, <2>3 DEF RefsOf
    <2>5. QED BY <2>1, <2>2, <2>4 DEF RepositoriesOK, SecretsDuring
<1>3. CASE RegisterRepo(u)
    <2> DEFINE form == draft[u]
               r == getRepositoryResource(form)
               at == IF form.authType = "token" /\ form.useSecret = New
                     THEN "createSecret" ELSE "registerRepository"
               task == [at |-> at, repository |-> r, authSecretName |-> form.authSecretName]
    <2>1. /\ page'[u] = task /\ page[u].at = "register"
          /\ secrets' = secrets /\ repositories' = repositories
        BY <1>0, <1>3 DEF RegisterRepo
    <2>2. secrets = RefsOf(repositories) /\ form.useSecret \in secrets \cup {New}
        BY <2>1 DEF SecretsDuring
    <2>3. /\ r.type = form.type
          /\ r.type # "" => r.secretRef = IF form.authType = "token"
                                          THEN IF form.useSecret = New THEN form.authSecretName
                                               ELSE form.useSecret
                                          ELSE NoSecret
        BY DEF getRepositoryResource
    <2>4. task.at = at /\ task.repository = r /\ task.authSecretName = form.authSecretName
        OBVIOUS
    <2>5. secrets' = RefsOf(repositories)'
        BY <2>1, <2>2 DEF RefsOf
    <2>6. at = "registerRepository" /\ r.type # "" => secrets = RefsOf(repositories \cup {r})
        <3>1. RefsOf(repositories \cup {r}) =
                RefsOf(repositories) \cup (IF r.secretRef = NoSecret THEN {} ELSE {r.secretRef})
            BY RefsWith
        <3>2. at = "registerRepository" /\ r.type # "" => r.secretRef \in secrets \cup {NoSecret}
            BY <2>2, <2>3
        <3> HIDE DEF r, at
        <3>3. QED BY <2>2, <3>1, <3>2
    <2>7. at = "createSecret" /\ r.type # "" =>
            r.secretRef = form.authSecretName /\ form.authSecretName # NoSecret
        BY <1>0, <2>3 DEF FormOK
    <2>8. at \in {"createSecret", "registerRepository"}
        OBVIOUS
    <2>9. RefsOf(repositories \cup {r})' = RefsOf(repositories \cup {r}')
        BY <2>1 DEF RefsOf
    <2> HIDE DEF at, r, form, task
    <2>10. at = "registerRepository" /\ r.type # "" =>
             secrets' = RefsOf(repositories' \cup {r})
        BY <2>1, <2>6
    <2>11. SecretsDuring(page[u], draft[u])'
        BY <2>1, <2>4, <2>5, <2>7, <2>8, <2>10 DEF SecretsDuring, Registering
    <2>12. QED BY <2>1, <2>11 DEF RepositoriesOK
<1>4. CASE CreateSecret(u)
    <2> DEFINE next == [page[u] EXCEPT !.at = "registerRepository"]
    <2>1. /\ page[u].at = "createSecret" /\ page'[u] = next
          /\ secrets' = secrets \cup {page[u].authSecretName} /\ repositories' = repositories
        BY <1>0, <1>4 DEF CreateSecret, Called
    <2>2. next.at = "registerRepository" /\ next.repository = page[u].repository
        BY <1>0, <2>1, TaskShapes
    <2>3. secrets = RefsOf(repositories)
        BY <2>1 DEF SecretsDuring
    <2>4. page[u].repository.type # "" =>
            page[u].repository.secretRef = page[u].authSecretName /\ page[u].authSecretName # NoSecret
        BY <2>1 DEF SecretsDuring
    <2> HIDE DEF next
    <2>5. next.repository.type # "" => secrets' = RefsOf(repositories' \cup {next.repository})
        <3> DEFINE r == next.repository
        <3>1. RefsOf(repositories \cup {r}) =
                RefsOf(repositories) \cup (IF r.secretRef = NoSecret THEN {} ELSE {r.secretRef})
            BY RefsWith
        <3>2. r.type # "" => r.secretRef = page[u].authSecretName /\ r.secretRef # NoSecret
            BY <2>2, <2>4
        <3> HIDE DEF r
        <3>3. r.type # "" => secrets' = RefsOf(repositories' \cup {r})
            BY <2>1, <2>3, <3>1, <3>2
        <3>4. QED BY <3>3 DEF r
    <2>6. SecretsDuring(page[u], draft[u])'
        BY <2>1, <2>2, <2>5 DEF SecretsDuring, Registering
    <2>7. QED BY <2>1, <2>6 DEF RepositoriesOK
<1>5. CASE RegisterRepository(u)
    <2> DEFINE r == page[u].repository
    <2>1. /\ page[u].at = "registerRepository" /\ page'[u] = NoTask /\ draft'[u] = EmptyForm
          /\ secrets' = secrets /\ repositories' = repositories \cup {r} /\ r.type # ""
          /\ \A q \in repositories : q.name # r.name
        BY <1>0, <1>5 DEF RegisterRepository, Called
    <2>2. secrets' = RefsOf(repositories')
        BY <2>1 DEF SecretsDuring
    <2>3. SecretsAreOfGit(r)
        BY <1>0, <2>1 DEF TaskOK, Registering
    <2>4. SecretsDuring(page[u], draft[u])'
        <3>1. page'[u] = NoTask /\ draft'[u] = EmptyForm
            BY <2>1
        <3>2. QED BY <2>2, <3>1, AloneAtRest
    <2>5. RepositoriesOK'
        BY <2>1, <2>3 DEF RepositoriesOK
    <2>6. QED BY <2>4, <2>5
<1>6. CASE OpenRepository(u)
    <2>1. PICK r \in repositories : page' = [page EXCEPT ![u] = RepositoryPage(r)]
        BY <1>6 DEF OpenRepository
    <2>2. /\ page[u].at = "none" /\ page'[u].at = "repository" /\ page'[u].repository = r
          /\ draft'[u] = EmptyForm /\ secrets' = secrets /\ repositories' = repositories
        BY <1>0, <1>6, <2>1 DEF OpenRepository, NoTask, Registering, RepositoryPage
    <2>3. secrets = RefsOf(repositories)
        BY <2>2 DEF SecretsDuring
    <2>4. secrets' = RefsOf(repositories')
        BY <2>2, <2>3
    <2>5. SecretsDuring(page[u], draft[u])'
        BY <2>2, <2>4 DEF SecretsDuring
    <2>6. QED BY <2>2, <2>5 DEF RepositoriesOK
<1>7. CASE ExecuteUnregister(u)
    <2> DEFINE own == page[u].repository
               next == [page[u] EXCEPT !.at = "check"]
    <2>1. /\ page[u].at = "repository" /\ draft'[u] = EmptyForm
          /\ secrets' = secrets /\ repositories' = repositories
          /\ page'[u] = IF UsesSecret(own, NoSecret) \/ own.type # "git"
                        THEN Unregistering(own, {"repository"}) ELSE next
        BY <1>0, <1>7 DEF ExecuteUnregister, Registering
    <2>2. secrets = RefsOf(repositories) /\ own \in repositories
        BY <2>1 DEF SecretsDuring
    <2>3. own.type # "git" => own.secretRef = NoSecret
        BY <2>2 DEF RepositoriesOK, SecretsAreOfGit
    <2>4. CASE UsesSecret(own, NoSecret) \/ own.type # "git"
        <3>1. own.secretRef = NoSecret
            BY <2>3, <2>4 DEF UsesSecret
        <3>2. SecretsDuring(page[u], draft[u])'
            BY <2>1, <2>2, <2>4, <3>1, AloneUnregisters
        <3>3. QED BY <2>1, <3>2 DEF RepositoriesOK
    <2>5. CASE own.type = "git" /\ own.secretRef # NoSecret
        <3>1. next.at = "check" /\ next.repository = own
            BY <1>0, <2>1, TaskShapes
        <3>2. page'[u] = next
            BY <2>1, <2>5 DEF UsesSecret
        <3>3. secrets' = RefsOf(repositories')
            BY <2>1, <2>2
        <3> HIDE DEF next
        <3>4. SecretsDuring(page[u], draft[u])'
            BY <2>1, <2>2, <2>5, <3>1, <3>2, <3>3 DEF SecretsDuring, UsesSecret
        <3>5. QED BY <2>1, <3>4 DEF RepositoriesOK
    <2>6. QED BY <2>4, <2>5 DEF UsesSecret
<1>8. CASE CheckUsedByOtherRepository(u)
    <2> DEFINE own == page[u].repository
               shared == \E r \in repositories :
                           r.name # own.name /\ UsesSecret(r, own.secretRef)
    <2>1. /\ page[u].at = "check" /\ draft'[u] = EmptyForm
          /\ secrets' = secrets /\ repositories' = repositories
          /\ page'[u] = Unregistering(own, IF shared THEN {"repository"}
                                           ELSE {"repository", "secret"})
        BY <1>0, <1>8 DEF CheckUsedByOtherRepository, Called, Registering
    <2>2. /\ secrets = RefsOf(repositories) /\ own \in repositories /\ own.secretRef # NoSecret
        BY <2>1 DEF SecretsDuring
    <2>3. own.secretRef \in RefsOf(OthersThan(own, repositories)) <=> shared
        BY <2>2 DEF RefsOf, OthersThan, UsesSecret, RepositoriesOK, SecretsAreOfGit
    <2> HIDE DEF own, shared
    <2>4. SecretsDuring(page[u], draft[u])'
        <3>1. CASE shared
            BY <2>1, <2>2, <2>3, <3>1, AloneUnregisters
        <3>2. CASE ~ shared
            BY <2>1, <2>2, <2>3, <3>2, AloneUnregisters
        <3>3. QED BY <3>1, <3>2
    <2>5. QED BY <2>1, <2>4 DEF RepositoriesOK
<1>9. CASE UnregisterRepository(u) \/ DeleteSecret(u)
    <2> DEFINE own == page[u].repository
               rest == RefsOf(OthersThan(own, repositories))
               calls == page[u].calls
    <2>1. /\ page[u].at = "unregister" /\ draft'[u] = EmptyForm
          /\ \/ /\ "repository" \in calls /\ secrets' = secrets /\ Answered(u, "repository", {})
                /\ repositories' = OthersThan(own, repositories)
             \/ /\ "secret" \in calls /\ secrets' = secrets \ {own.secretRef}
                /\ Answered(u, "secret", {}) /\ repositories' = repositories
        BY <1>0, <1>9 DEF UnregisterRepository, DeleteSecret, Called, OthersThan, Registering
    <2>2. /\ calls \subseteq {"repository", "secret"}
          /\ IF "repository" \in calls THEN own \in repositories
             ELSE repositories = OthersThan(own, repositories)
          /\ IF "secret" \in calls
             THEN secrets = rest \cup {own.secretRef} /\ own.secretRef \notin rest
             ELSE secrets = rest
        BY <2>1 DEF SecretsDuring
    <2>3. RepositoriesOK'
        <3>1. repositories' \subseteq repositories
            BY <2>1 DEF OthersThan
        <3>2. QED BY <3>1 DEF RepositoriesOK
    <2>4. OthersThan(own, repositories') = OthersThan(own, repositories)
        BY <2>1 DEF OthersThan
    <2>5. ASSUME NEW call \in {"repository", "secret"}, Answered(u, call, {})
          PROVE  LET next == [page[u] EXCEPT !.calls = calls \ {call}]
                 IN  /\ page'[u] = IF calls = {call} THEN NoTask ELSE next
                     /\ next.at = "unregister" /\ next.repository = own
                     /\ next.calls = calls \ {call}
        <3>1. (calls \ {call}) \cup {} = calls \ {call} /\ (calls \ {call} = {} <=> calls = {call})
            BY <2>1, <2>5 DEF Answered
        <3>2. QED BY <1>0, <2>1, <2>2, <2>5, <3>1, TaskShapes DEF Answered
    <2>6. RefsOf(OthersThan(own, repositories')) = rest
        BY <2>4
    <2> DEFINE Over == /\ page'[u] \in {NoTask, RegisterRepositoryPage} /\ draft'[u] = EmptyForm
                       /\ secrets' = RefsOf(repositories')
               OneCall ==
                 /\ page'[u].at = "unregister" /\ page'[u].repository = own /\ draft'[u] = EmptyForm
                 /\ LET others == RefsOf(OthersThan(own, repositories'))
                    IN  \/ /\ page'[u].calls = {"repository"}
                           /\ own \in repositories' /\ secrets' = others
                        \/ /\ page'[u].calls = {"secret"}
                           /\ repositories' = OthersThan(own, repositories')
                           /\ secrets' = others \cup {own.secretRef} /\ own.secretRef \notin others
    <2>7. ASSUME "repository" \in calls, secrets' = secrets, Answered(u, "repository", {}),
                 repositories' = OthersThan(own, repositories)
          PROVE  Over \/ OneCall
        <3> DEFINE next == [page[u] EXCEPT !.calls = calls \ {"repository"}]
        <3>1. /\ page'[u] = IF calls = {"repository"} THEN NoTask ELSE next
              /\ next.at = "unregister" /\ next.repository = own
              /\ next.calls = calls \ {"repository"}
            BY <2>5, <2>7
        <3> HIDE DEF next
        <3>2. CASE calls = {"repository"}
            <4>1. secrets' = RefsOf(repositories')
                BY <2>2, <2>7, <3>2
            <4>2. page'[u] = NoTask /\ draft'[u] = EmptyForm
                BY <2>1, <3>1, <3>2
            <4>3. QED BY <4>1, <4>2
        <3>3. CASE calls = {"repository", "secret"}
            <4>1. next.calls = {"secret"}
                BY <3>1, <3>3
            <4>2. repositories' = OthersThan(own, repositories')
                BY <2>4, <2>7
            <4>3. secrets' = RefsOf(OthersThan(own, repositories')) \cup {own.secretRef}
                  /\ own.secretRef \notin RefsOf(OthersThan(own, repositories'))
                BY <2>2, <2>6, <2>7, <3>3
            <4>4. /\ page'[u].at = "unregister" /\ page'[u].repository = own
                  /\ page'[u].calls = {"secret"} /\ draft'[u] = EmptyForm
                BY <2>1, <3>1, <3>3, <4>1
            <4> HIDE DEF own
            <4>5. QED BY <4>2, <4>3, <4>4
        <3>4. QED BY <2>2, <2>7, <3>2, <3>3
    <2>8. ASSUME "secret" \in calls, secrets' = secrets \ {own.secretRef}, Answered(u, "secret", {}),
                 repositories' = repositories
          PROVE  Over \/ OneCall
        <3> DEFINE next == [page[u] EXCEPT !.calls = calls \ {"secret"}]
        <3>1. /\ page'[u] = IF calls = {"secret"} THEN NoTask ELSE next
              /\ next.at = "unregister" /\ next.repository = own
              /\ next.calls = calls \ {"secret"}
            BY <2>5, <2>8
        <3>2. secrets' = rest
            BY <2>2, <2>8
        <3> HIDE DEF next
        <3>3. CASE calls = {"secret"}
            <4>1. secrets' = RefsOf(repositories')
                BY <2>2, <2>8, <3>2, <3>3
            <4>2. page'[u] = NoTask /\ draft'[u] = EmptyForm
                BY <2>1, <3>1, <3>3
            <4>3. QED BY <4>1, <4>2
        <3>4. CASE calls = {"repository", "secret"}
            <4>1. next.calls = {"repository"}
                BY <3>1, <3>4
            <4>2. own \in repositories'
                <5>1. own \in repositories
                    BY <2>2, <3>4
                <5>2. repositories' = repositories
                    BY <2>8
                <5> HIDE DEF own
                <5>3. QED BY <5>1, <5>2
            <4>3. secrets' = RefsOf(OthersThan(own, repositories'))
                BY <2>6, <3>2
            <4>4. /\ page'[u].at = "unregister" /\ page'[u].repository = own
                  /\ page'[u].calls = {"repository"} /\ draft'[u] = EmptyForm
                BY <2>1, <3>1, <3>4, <4>1
            <4> HIDE DEF own
            <4>5. QED BY <4>2, <4>3, <4>4
        <3>5. QED BY <2>2, <2>8, <3>3, <3>4
    <2>9. Over \/ OneCall
        BY <2>1, <2>7, <2>8
    <2>10. Over => SecretsDuring(page[u], draft[u])'
        BY AloneAtRest
    <2>11. OneCall => SecretsDuring(page[u], draft[u])'
        <3> HIDE DEF own
        <3>1. QED BY AloneWithOneCall
    <2>12. QED BY <2>3, <2>9, <2>10, <2>11
<1>10. QED BY <1>1, <1>2, <1>3, <1>4, <1>5, <1>6, <1>7, <1>8, <1>9

LEMMA InitAloneInv == RegistrationInit => AloneInv
<1> SUFFICES ASSUME RegistrationInit, NEW u \in Users
             PROVE  RepositoriesOK /\ SecretsDuring(page[u], draft[u])
    BY DEF AloneInv, RepositoriesOK
<1>1. page[u] = NoTask /\ draft[u] = EmptyForm
    BY DEF RegistrationInit
<1>2. secrets = RefsOf(repositories) /\ RepositoriesOK
    <2>1. CASE repositories = {} /\ secrets = {}
        BY <2>1 DEF RefsOf, RepositoriesOK
    <2>2. ASSUME NEW n \in TypedNames, repositories = {FirstRepository(n)}, secrets = {n}
          PROVE  secrets = RefsOf(repositories) /\ RepositoriesOK
        <3>1. /\ FirstRepository(n).secretRef = n /\ n # NoSecret
              /\ FirstRepository(n).type = "git"
            BY RegistrationAssumption DEF FirstRepository
        <3> HIDE DEF FirstRepository
        <3>2. QED BY <2>2, <3>1 DEF RefsOf, RepositoriesOK, SecretsAreOfGit
    <2>3. QED BY <2>1, <2>2 DEF RegistrationInit
<1>3. page[u].at = "none"
    BY <1>1 DEF NoTask
<1>4. QED BY <1>1, <1>2, <1>3 DEF SecretsDuring

LEMMA AloneInvNext ==
    ASSUME UsersInv, AloneInv, [RegistrationNext]_registrationVars
    PROVE  AloneInv'
<1>1. SUFFICES ASSUME NEW u \in Users, team' = {u}, ~ spoiled'
               PROVE  RepositoriesOK' /\ SecretsDuring(page[u], draft[u])'
    BY DEF AloneInv, RepositoriesOK
<1>2. CASE UNCHANGED registrationVars
    BY <1>1, <1>2 DEF AloneInv, RepositoriesOK, SecretsDuring, registrationVars
<1>3. CASE RegistrationNext
    <2>1. team' = team /\ (spoiled => spoiled')
        BY <1>3, TeamKept DEF RegistrationNext
    <2>2. team = {u} /\ ~ spoiled /\ RepositoriesOK /\ SecretsDuring(page[u], draft[u])
        BY <1>1, <2>1 DEF AloneInv, RepositoriesOK
    <2>3. QED BY <1>1, <1>3, <2>2, AloneStep DEF RegistrationNext
<1>4. QED BY <1>2, <1>3

(* The three parts together hold in every state. *)
LEMMA InvHolds == RegistrationSpec => []Inv
<1>1. RegistrationInit => Inv
    BY InitUsersInv, InitAloneInv DEF Inv, RegistrationInit, DeletionInv, OnlyOwnSecret, NoTask
<1>2. Inv /\ [RegistrationNext]_registrationVars => Inv'
    <2>1. ASSUME DeletionInv, UNCHANGED registrationVars PROVE DeletionInv'
        BY <2>1 DEF DeletionInv, OnlyOwnSecret, registrationVars
    <2>2. QED BY <2>1, UsersInvNext, DeletionInvStep, AloneInvNext DEF Inv, RegistrationNext
<1>3. QED BY <1>1, <1>2, PTL DEF RegistrationSpec

(* For every user who is alone: between tasks the secrets are those the         *)
(* repositories use, whatever was registered, unregistered and shared before.   *)
THEOREM SecretsFollow == RegistrationSpec => []SecretsFollowRepositories
<1>1. Inv => SecretsFollowRepositories
    <2> SUFFICES ASSUME Inv, Cardinality(team) = 1, ~ spoiled, Resting
                 PROVE  secrets = RefsOf(repositories)
        BY DEF SecretsFollowRepositories, RefsOf
    <2>1. IsFiniteSet(team)
        BY RegistrationAssumption DEF Inv, UsersInv
    <2>2. PICK u : team = {u}
        BY <2>1, FS_Singleton
    <2>3. u \in Users
        BY <2>2 DEF Inv, UsersInv, Users
    <2>4. QED BY <2>2, <2>3 DEF Inv, AloneInv, SecretsDuring, Resting
<1>2. QED BY <1>1, InvHolds, PTL

(* Whatever is chosen, a repository is listed under that content alone: the     *)
(* label and the flags written by getRepositoryResource are those that          *)
(* isRepositoryContent tells the contents apart by.                             *)
THEOREM ListedAsChosen == RegistrationSpec => []RegisteredAsChosen
<1>1. ASSUME NEW r, AsChosen(r)
      PROVE  \A content \in Contents : isRepositoryContent(r, content) <=> content = r.chosen
    <2>1. Contents = {"Deployment", "Team", "Organizational", "External", "Function"}
        BY DEF Contents, RepositoryContentDetails
    <2> DEFINE D == RepositoryContentDetails
    <2>2. /\ D["Deployment"].content = "Package" /\ D["Deployment"].deployment = TRUE
          /\ D["Deployment"].label = "" /\ D["Deployment"].notContent = {}
          /\ D["Team"].content = "Package" /\ D["Team"].deployment = FALSE
          /\ D["Team"].label = "" /\ D["Team"].notContent = {"Organizational", "External"}
          /\ D["Organizational"].content = "Package" /\ D["Organizational"].deployment = FALSE
          /\ D["Organizational"].label = "organizational-blueprints" /\ D["Organizational"].notContent = {}
          /\ D["External"].content = "Package" /\ D["External"].deployment = FALSE
          /\ D["External"].label = "external-blueprints" /\ D["External"].notContent = {}
          /\ D["Function"].content = "Function" /\ D["Function"].deployment = FALSE
          /\ D["Function"].label = "" /\ D["Function"].notContent = {}
        BY DEF RepositoryContentDetails, Details
    <2> HIDE DEF D
    <2>3. /\ r.chosen \in Contents /\ r.content = D[r.chosen].content
          /\ r.deployment = D[r.chosen].deployment /\ r.label = D[r.chosen].label
        BY <1>1 DEF AsChosen, D
    <2>4. ASSUME NEW content \in Contents
          PROVE  Matches(r, D[content]) <=>
                   content = r.chosen \/ (content = "Team" /\ r.chosen \in {"Organizational", "External"})
        <3>1. r.content = D[content].content <=> (r.chosen = "Function" <=> content = "Function")
            <4>1. \A c \in Contents : D[c].content = IF c = "Function" THEN "Function" ELSE "Package"
                BY <2>1, <2>2
            <4>2. QED BY <2>3, <2>4, <4>1
        <3>2. r.deployment = D[content].deployment
                <=> (r.chosen = "Deployment" <=> content = "Deployment")
            <4>1. \A c \in Contents : D[c].deployment = (c = "Deployment")
                BY <2>1, <2>2
            <4>2. D[content].deployment = (content = "Deployment")
                  /\ r.deployment = (r.chosen = "Deployment")
                BY <2>3, <2>4, <4>1
            <4>3. QED BY <4>2
        <3>3. D[content].label \in {"", r.label}
                <=> content \notin {"Organizational", "External"} \/ content = r.chosen
            <4> DEFINE Label(c) == IF c = "Organizational" THEN "organizational-blueprints"
                                   ELSE IF c = "External" THEN "external-blueprints" ELSE ""
            <4>1. \A c \in Contents : D[c].label = Label(c)
                BY <2>1, <2>2
            <4>2. r.label = Label(r.chosen) /\ D[content].label = Label(content)
                BY <2>3, <2>4, <4>1
            <4>3. Label(content) \in {"", Label(r.chosen)}
                    <=> content \notin {"Organizational", "External"} \/ content = r.chosen
                OBVIOUS
            <4> HIDE DEF Label
            <4>4. QED BY <4>2, <4>3
        <3>4. QED BY <2>1, <2>3, <2>4, <3>1, <3>2, <3>3 DEF Matches
    <2>5. \A content \in Contents :
            D[content].notContent = IF content = "Team" THEN {"Organizational", "External"} ELSE {}
        BY <2>1, <2>2
    <2>6. \A content \in Contents :
            isRepositoryContent(r, content) <=>
              /\ Matches(r, D[content])
              /\ \A other \in D[content].notContent : ~ Matches(r, D[other])
        BY DEF isRepositoryContent, D
    <2>7. QED BY <2>1, <2>3, <2>4, <2>5, <2>6
<1>2. ASSUME NEW r, AsChosen(r)
      PROVE  getPackageDescriptor(r) = r.chosen
    <2>1. r.chosen \in {"Deployment", "Team", "Organizational", "External", "Function"}
        BY <1>2 DEF AsChosen, Contents, RepositoryContentDetails
    <2>2. Contents = {"Deployment", "Team", "Organizational", "External", "Function"}
        BY DEF Contents, RepositoryContentDetails
    <2>3. QED BY <1>1, <1>2, <2>1, <2>2 DEF getPackageDescriptor
<1>3. Inv => RegisteredAsChosen
    <2> SUFFICES ASSUME Inv, NEW r \in repositories
                 PROVE  /\ getPackageDescriptor(r) = r.chosen
                        /\ {content \in Contents : isRepositoryContent(r, content)} = {r.chosen}
        BY DEF RegisteredAsChosen
    <2>1. AsChosen(r) /\ r.chosen \in Contents
        BY DEF Inv, UsersInv, AsChosen
    <2>2. QED BY <1>1, <1>2, <2>1
<1>4. QED BY <1>3, InvHolds, PTL
=============================================================================
