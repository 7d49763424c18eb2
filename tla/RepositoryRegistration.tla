----------------------- MODULE RepositoryRegistration -----------------------
(***************************************************************************)
(* Registering and unregistering repositories.  A repository may need a    *)
(* secret, which is made with it or was made with another one.  It is      *)
(* deleted with the last repository that uses it, as far as the user who   *)
(* unregisters that one can tell.                                          *)
(*                                                                         *)
(* Users work in tabs of their own, one task at a time; the calls of a     *)
(* task are answered one by one, and any of them may fail without effect:  *)
(* the page stays as it was filled in, and the user may try again.         *)
(***************************************************************************)
EXTENDS Naturals, FiniteSets

CONSTANTS Teams,       \* sets of users
          Urls,       \* url -> the type it tells of, the content and the name
          TypedNames,      \* the names typed by the users
          MaxFormEdits    \* size of the team -> bound on what is typed into forms

VARIABLES team,         \* the users there are
          page,         \* user -> the task the user is at
          draft,        \* user -> what the form holds, and the secrets read
          left,         \* the edits that are left
          repositories, \* the repositories registered
          secrets,      \* the names of the secrets there are
          spoiled       \* whether a call failed or a repository has no type

registrationVars == <<team, page, draft, left, repositories, secrets, spoiled>>

Users == UNION Teams
NoSecret == "no secret"
New == "new"

-----------------------------------------------------------------------------
(* The content of a repository, as labels and flags of its resource.        *)

Details(content, isDeployment, label, notContent) ==
  [content |-> content, deployment |-> isDeployment, label |-> label, notContent |-> notContent]
RepositoryContentDetails ==
  [Deployment     |-> Details("Package", TRUE, "", {}),
   Team           |-> Details("Package", FALSE, "", {"Organizational", "External"}),
   Organizational |-> Details("Package", FALSE, "organizational-blueprints", {}),
   External       |-> Details("Package", FALSE, "external-blueprints", {}),
   Function       |-> Details("Function", FALSE, "", {})]
Contents == DOMAIN RepositoryContentDetails

ASSUME RegistrationAssumption ==
  /\ \A t \in Teams : IsFiniteSet(t)
  /\ \A url \in DOMAIN Urls : Urls[url].content \in Contents \cup {""} /\ Urls[url].name # NoSecret
  /\ NoSecret \notin TypedNames

Matches(repository, details) ==
  /\ repository.content = details.content
  /\ repository.deployment = details.deployment
  /\ details.label \in {"", repository.label}

\* Mutant of isRepositoryContent: the other contents are not excluded.
isSomeRepositoryContent(repository, content) ==
  Matches(repository, RepositoryContentDetails[content])

isRepositoryContent(repository, content) ==
  LET details == RepositoryContentDetails[content]
  IN  /\ Matches(repository, details)
      /\ \A other \in details.notContent : ~ Matches(repository, RepositoryContentDetails[other])

\* the first in this order
getPackageDescriptor(repository) ==
  LET is(content) == isRepositoryContent(repository, content)
  IN  IF is("Deployment") THEN "Deployment"
      ELSE IF is("Team") THEN "Team"
      ELSE IF is("Organizational") THEN "Organizational"
      ELSE IF is("External") THEN "External"
      ELSE IF is("Function") THEN "Function"
      ELSE "Unknown"

\* Without a type, which need not be chosen, a repository has no details.
getRepositoryResource(form) ==
  LET details == RepositoryContentDetails[form.content]
  IN  [name |-> form.name, content |-> details.content, deployment |-> details.deployment,
       label |-> details.label, type |-> form.type,
       secretRef |-> IF form.type # "" /\ form.authType = "token"
                     THEN IF form.useSecret = New THEN form.authSecretName ELSE form.useSecret
                     ELSE NoSecret,
       chosen |-> form.content] \* what the user chose, for the properties

-----------------------------------------------------------------------------
(* The form                                                                 *)

\* There is no way to authenticate to a registry.
AuthTypes(type) == IF type = "git" THEN {"none", "token"} ELSE {"none"}

EmptyForm ==
  [name |-> "", content |-> "", type |-> "", authType |-> "token", useSecret |-> New,
   authSecretName |-> "", authTypes |-> {}, secretItems |-> {}, loaded |-> FALSE]

NoTask == [at |-> "none"]
RegisterRepositoryPage == [at |-> "register"]

OpenRegistration(u) ==
  /\ page[u] = NoTask /\ left > 0
  /\ page' = [page EXCEPT ![u] = RegisterRepositoryPage]
  /\ UNCHANGED <<team, draft, left, repositories, secrets, spoiled>>

Leave(u) ==
  /\ page[u].at \in {"register", "repository"}
  /\ page' = [page EXCEPT ![u] = NoTask]
  /\ draft' = [draft EXCEPT ![u] = EmptyForm]
  /\ UNCHANGED <<team, left, repositories, secrets, spoiled>>

\* The list of secrets is read once; without it only a new one is to be had.
LoadSecrets(u) ==
  /\ page[u].at = "register" /\ ~ draft[u].loaded
  /\ draft' = [draft EXCEPT ![u].secretItems = secrets \cup {New}, ![u].loaded = TRUE]
  /\ UNCHANGED <<team, page, left, repositories, secrets, spoiled>>

Edit(u, form) ==
  /\ page[u].at = "register" /\ left > 0
  /\ draft' = [draft EXCEPT ![u] = form]
  /\ left' = left - 1
  /\ UNCHANGED <<team, page, repositories, secrets, spoiled>>

\* updateStateValue: a type limits how to authenticate
WithType(form, type) ==
  LET types == AuthTypes(type)
  IN  [form EXCEPT !.type = type, !.authTypes = types,
                   !.authType = IF form.authType \in types /\ types # {"none"}
                                THEN form.authType ELSE "none"]

\* and a URL tells of the type, the content and the names it has
WithUrl(form, url) ==
  LET known == Urls[url]
      named == [form EXCEPT !.name = known.name, !.authSecretName = known.name,
                            !.content = IF known.content = "" THEN form.content ELSE known.content]
  IN  IF known.type = "" THEN named ELSE WithType(named, known.type)

TypeUrl(u, url) == Edit(u, WithUrl(draft[u], url))
ChooseRepositoryType(u, type) == Edit(u, WithType(draft[u], type))
ChooseAuthType(u, type) == type \in draft[u].authTypes /\ Edit(u, [draft[u] EXCEPT !.authType = type])
ChooseSecret(u, secret) ==
  /\ draft[u].authType = "token"
  /\ Edit(u, [draft[u] EXCEPT !.useSecret = secret])
TypeSecretName(u, name) ==
  /\ draft[u].authType = "token" /\ draft[u].useSecret = New
  /\ Edit(u, [draft[u] EXCEPT !.authSecretName = name])
TypeName(u, name) == Edit(u, [draft[u] EXCEPT !.name = name])
ChooseContent(u, content) == Edit(u, [draft[u] EXCEPT !.content = content])

-----------------------------------------------------------------------------
\* The answer of the server to a call of user u: when it fails, the user is
\* back where the task was begun.
Fails(u, begun) ==
  /\ page' = [page EXCEPT ![u] = begun]
  /\ spoiled' = TRUE
  /\ UNCHANGED <<draft, repositories, secrets>>
Called == UNCHANGED <<team, left>>

\* registerRepo: without content there is no resource, and nothing is called
RegisterRepo(u) ==
  /\ page[u].at = "register" /\ draft[u].content # ""
  /\ page' = [page EXCEPT ![u] =
                [at |-> IF draft[u].authType = "token" /\ draft[u].useSecret = New
                        THEN "createSecret" ELSE "registerRepository",
                 repository |-> getRepositoryResource(draft[u]),
                 authSecretName |-> draft[u].authSecretName]]
  /\ UNCHANGED <<team, draft, left, repositories, secrets, spoiled>>

\* A secret made before registerRepository failed is there at the next try.
CreateSecret(u) ==
  /\ page[u].at = "createSecret"
  /\ \/ /\ page[u].authSecretName \notin secrets \cup {""}
        /\ secrets' = secrets \cup {page[u].authSecretName}
        /\ page' = [page EXCEPT ![u].at = "registerRepository"]
        /\ UNCHANGED <<draft, repositories, spoiled>>
     \/ Fails(u, RegisterRepositoryPage)
  /\ Called

\* Those who have looked who uses the secret do not learn of it any more.
RegisterRepository(u) ==
  LET repository == page[u].repository
  IN  /\ page[u].at = "registerRepository"
      /\ \/ /\ repository.name # "" /\ \A r \in repositories : r.name # repository.name
            /\ repositories' = repositories \cup {repository}
            /\ spoiled' = (spoiled \/ repository.type = "")
            /\ page' = [v \in Users |->
                          IF v = u THEN NoTask
                          ELSE IF page[v].at = "unregister"
                               THEN [page[v] EXCEPT !.since = page[v].since \cup {repository.name}]
                          ELSE page[v]]
            /\ draft' = [draft EXCEPT ![u] = EmptyForm]
            /\ UNCHANGED secrets
         \/ Fails(u, RegisterRepositoryPage)
      /\ Called

-----------------------------------------------------------------------------
UsesSecret(r, secret) == r.type = "git" /\ r.secretRef = secret

\* The page shows the repository as it was when it was opened.
RepositoryPage(r) == [at |-> "repository", repository |-> r]

OpenRepository(u) ==
  /\ page[u] = NoTask
  /\ \E r \in repositories : page' = [page EXCEPT ![u] = RepositoryPage(r)]
  /\ UNCHANGED <<team, draft, left, repositories, secrets, spoiled>>

\* since: the repositories registered since the secret was looked up
Unregistering(r, calls) ==
  [at |-> "unregister", repository |-> r, calls |-> calls, since |-> {}]

ExecuteUnregister(u) ==
  LET own == page[u].repository
  IN  /\ page[u].at = "repository"
      /\ page' = [page EXCEPT ![u] = IF UsesSecret(own, NoSecret) \/ own.type # "git"
                                     THEN Unregistering(own, {"repository"})
                                     ELSE [page[u] EXCEPT !.at = "check"]]
      /\ UNCHANGED <<team, draft, left, repositories, secrets, spoiled>>

\* Mutants of CheckUsedByOtherRepository: the repository itself counts as a
\* user of the secret; no repository does.
CheckUsedByAnyRepository(u) ==
  /\ page[u].at = "check"
  /\ page' = [page EXCEPT ![u] = Unregistering(page[u].repository, {"repository"})]
  /\ Called /\ UNCHANGED <<draft, repositories, secrets, spoiled>>
CheckUsedByNone(u) ==
  /\ page[u].at = "check"
  /\ page' = [page EXCEPT ![u] = Unregistering(page[u].repository, {"repository", "secret"})]
  /\ Called /\ UNCHANGED <<draft, repositories, secrets, spoiled>>

CheckUsedByOtherRepository(u) ==
  LET own == page[u].repository
      isSecretShared == \E r \in repositories : r.name # own.name /\ UsesSecret(r, own.secretRef)
  IN  /\ page[u].at = "check"
      /\ \/ /\ page' = [page EXCEPT ![u] =
                          Unregistering(own, IF isSecretShared THEN {"repository"}
                                             ELSE {"repository", "secret"})]
            /\ UNCHANGED <<draft, repositories, secrets, spoiled>>
         \/ Fails(u, [page[u] EXCEPT !.at = "repository"])
      /\ Called

\* Both calls are under way at once; the page is left when both have succeeded,
\* and stays when one of them fails.
Answered(u, call, answer) ==
  LET own == page[u].repository
      calls == (page[u].calls \ {call}) \cup answer
  IN  page' = [page EXCEPT ![u] = IF calls = {} THEN NoTask
                                  ELSE IF calls = {"failed"} THEN RepositoryPage(own)
                                  ELSE [page[u] EXCEPT !.calls = calls]]
CallFails(u, call) ==
  Answered(u, call, {"failed"}) /\ spoiled' = TRUE /\ UNCHANGED <<repositories, secrets>>

UnregisterRepository(u) ==
  LET own == page[u].repository
  IN  /\ page[u].at = "unregister" /\ "repository" \in page[u].calls
      /\ \/ /\ \E r \in repositories : r.name = own.name
            /\ repositories' = {r \in repositories : r.name # own.name}
            /\ Answered(u, "repository", {})
            /\ UNCHANGED <<secrets, spoiled>>
         \/ CallFails(u, "repository")
      /\ Called /\ UNCHANGED draft

DeleteSecret(u) ==
  LET own == page[u].repository
  IN  /\ page[u].at = "unregister" /\ "secret" \in page[u].calls
      /\ \/ /\ own.secretRef \in secrets
            /\ secrets' = secrets \ {own.secretRef}
            /\ Answered(u, "secret", {})
            /\ UNCHANGED <<repositories, spoiled>>
         \/ CallFails(u, "secret")
      /\ Called /\ UNCHANGED draft

-----------------------------------------------------------------------------
FirstRepository(secret) ==
  [name |-> "first", content |-> "Package", deployment |-> TRUE, label |-> "", type |-> "git",
   secretRef |-> secret, chosen |-> "Deployment"]

RegistrationInit ==
  /\ team \in Teams
  /\ page = [u \in Users |-> NoTask]
  /\ draft = [u \in Users |-> EmptyForm]
  /\ left = MaxFormEdits[Cardinality(team)]
  /\ \/ repositories = {} /\ secrets = {}
     \/ \E n \in TypedNames : repositories = {FirstRepository(n)} /\ secrets = {n}
  /\ spoiled = FALSE

EditForm(u) ==
  \/ \E url \in DOMAIN Urls : TypeUrl(u, url)
  \/ \E type \in {"git", "oci"} : ChooseRepositoryType(u, type)
  \/ \E type \in {"none", "token"} : ChooseAuthType(u, type)
  \/ \E secret \in draft[u].secretItems : ChooseSecret(u, secret)
  \/ \E name \in TypedNames : TypeSecretName(u, name) \/ TypeName(u, name)
  \/ \E content \in Contents : ChooseContent(u, content)

RegistrationNext ==
  \E u \in team :
    \/ OpenRegistration(u) \/ Leave(u) \/ LoadSecrets(u) \/ EditForm(u) \/ RegisterRepo(u)
    \/ CreateSecret(u) \/ RegisterRepository(u)
    \/ OpenRepository(u) \/ ExecuteUnregister(u) \/ CheckUsedByOtherRepository(u)
    \/ UnregisterRepository(u) \/ DeleteSecret(u)

RegistrationSpec == RegistrationInit /\ [][RegistrationNext]_registrationVars

-----------------------------------------------------------------------------
(* Properties                                                               *)

\* A secret is deleted only when the one repository that still uses it is the
\* one unregistered, but for those registered since its uses were looked up:
\* they are left without it.
UsedSecretsAreKept ==
  [][\A secret \in secrets \ secrets' :
       \E u \in team :
         /\ page[u].at = "unregister"
         /\ \A r \in repositories : UsesSecret(r, secret) =>
              r.name = page[u].repository.name \/ r.name \in page[u].since]_registrationVars

Resting == \A u \in team : page[u].at \in {"none", "register", "repository"}

\* As long as there is one user and every call succeeds, the secrets are those
\* that the repositories use: none is missing and none is left over.
SecretsFollowRepositories ==
  Cardinality(team) = 1 /\ ~ spoiled /\ Resting =>
    secrets = {r.secretRef : r \in {q \in repositories : q.secretRef # NoSecret}}

\* A repository is listed under the content that was chosen for it, and under
\* no other, though the team's blueprints have no label of their own.
RegisteredAsChosen ==
  \A r \in repositories :
    /\ getPackageDescriptor(r) = r.chosen
    /\ {content \in Contents : isRepositoryContent(r, content)} = {r.chosen}
=============================================================================
