---------------------------- MODULE AddPackagePage ----------------------------
(***************************************************************************)
(* The wizard that adds a package, or clones a named one: what the user    *)
(* chooses and types, the answers that fill the form from the package to   *)
(* be cloned, and the two calls that create the package and write its      *)
(* resources.  The effects of a choice (React runs them until nothing      *)
(* changes) belong to the choice.  Nobody else knows of the new package.   *)
(***************************************************************************)
EXTENDS KptPipeline, Integers

CONSTANTS
    Repository,   \* the registered repositories of packages
    Descriptor,   \* their content summaries (getPackageDescriptor)
    Source,       \* the latest published revisions of packages
    Origin,       \* the repositories of these
    PackageName,  \* the names of their packages
    Shape,        \* what the packages to be cloned may contain
    MaxCalls      \* bound: calls under way for the resources of one package

Content ==
    {"Deployment", "Team Blueprint", "Organizational Blueprint",
     "External Blueprint"}

ASSUME AddPackageAssumption ==
    /\ Descriptor \in [Repository -> Content]
    /\ Origin \in [Source -> Repository]
    /\ PackageName \in [Source -> Namespace]
    /\ Shape \subseteq Package
    /\ "undefined" \notin Repository \union Source
    /\ NoName \notin Namespace
    /\ Info # {}
    /\ MaxCalls \in Nat \ {0}

(* What the wizard relies on in the packages to be cloned: a file of their  *)
(* own for the configurations of the two functions, and none left behind.   *)
ASSUME SeparateConfigAssumption ==
    \A p \in Shape :
        /\ p.mutator \in File => p.mutator # p.validator
        /\ p.mutator # "set-namespace.yaml" => p.files["set-namespace.yaml"] = <<>>

(* The functions' files and the package context hold one resource each, no *)
(* kubeval-config.yaml is left behind, and namespace.yaml is a namespace's. *)
OneConfigEach(p) ==
    \A path \in File \intersect {p.mutator, p.validator, "package-context.yaml"} :
        Len(p.files[path]) = 1

ASSUME OneConfigAssumption ==
    \A p \in Shape :
        /\ OneConfigEach(p)
        /\ p.validator # "kubeval-config.yaml" => p.files["kubeval-config.yaml"] = <<>>
        /\ p.validator # "namespace.yaml"

VARIABLES
    contents,   \* contents[s]: the package in revision s, which is frozen
    page,       \* the choices and the form in the browser
    request,    \* createPackage, with what it was given when it was started
    created     \* the new package on the server

vars == <<contents, page, request, created>>

Undefined == "undefined"

Optional(S) == S \union {Undefined}

(* RepositoryContentDetails: what packages may be cloned to *)
CloneTo ==
    [c \in Content |->
        CASE c = "Deployment" -> {}
          [] c = "Team Blueprint" -> {"Deployment", "Team Blueprint"}
          [] c = "Organizational Blueprint" -> Content \ {"External Blueprint"}
          [] c = "External Blueprint" -> Content]

(* The first that is preferred, if any is: Deployments are not cloned. *)
Preferred(c) == IF c = "Team Blueprint" THEN "Deployment" ELSE "Team Blueprint"

Form ==
    [name : Namespace \union {NoName}, info : Info, namespace : NamespaceState,
     kubeval : BOOLEAN]

(***************************************************************************)
(* mode, content            the route: a package of a content is added     *)
(*                          (ADD), or a package of one is cloned (CLONE)   *)
(* action                   addPackageAction, `none' for `from scratch'    *)
(* sourceRepository, source, target                                        *)
(*                          the choices (source is sourcePackageRevision)  *)
(* listed                   the repository of sourcePackageRevision's items*)
(* form                     kptfileState, namespaceState, validateState    *)
(* calls                    getPackageResources not yet answered           *)
(***************************************************************************)
Page ==
    [mode : {"add", "clone"}, content : Content, action : Content \union {"none"},
     sourceRepository : Optional(Repository), listed : Optional(Repository),
     source : Optional(Source), target : Optional(Repository),
     form : Form, calls : [Source -> 0..MaxCalls]]

Request ==
    [next : {"idle", "create", "configure", "written", "failed"}, form : Form,
     action : Content \union {"none"}, source : Optional(Source),
     target : Optional(Repository)]

TypeOK ==
    /\ contents \in [Source -> Shape]
    /\ page \in Page
    /\ request \in Request
    /\ created \in Seq(Package) /\ Len(created) <= 1
    /\ request.next \in {"configure", "written", "failed"} => created # <<>>

-----------------------------------------------------------------------------
(* The choices                                                             *)

Repositories(c) == {r \in Repository : Descriptor[r] = c}

(* The first of a list of repositories, in the order of their labels. *)
First(R) == IF R = {} THEN Undefined ELSE CHOOSE r \in R : TRUE

ActionItems(p) ==
    IF p.mode = "add" THEN {"none"} \union {c \in Content : p.content \in CloneTo[c]}
    ELSE CloneTo[p.content]

TargetItems(p) ==
    IF p.mode = "add" THEN Repositories(p.content) ELSE Repositories(p.action)

NoInfo == CHOOSE i \in Info : TRUE

DefaultForm ==
    [name |-> NoName, info |-> NoInfo, namespace |-> NamespaceDefaultState,
     kubeval |-> TRUE]

FormOf(s) ==
    [name |-> PackageName[s], info |-> contents[s].info,
     namespace |-> GetNamespaceState(contents[s]), kubeval |-> SetKubeval(contents[s])]

(* The effect on sourcePackageRevision when there is none any more. *)
SourceCleared(p) ==
    IF p.source = Undefined THEN p
    ELSE [p EXCEPT !.source = Undefined, !.form = DefaultForm]

(* The effect on sourceRepository: without one the items stay. *)
WithSourceRepository(p, r) ==
    [SourceCleared(p) EXCEPT
        !.sourceRepository = r,
        !.listed = IF r = Undefined THEN @ ELSE r]

(* Mutant: the target of a clone stays when the action changes. *)
WithActionOnly(p, a) ==
    IF p.mode = "add"
    THEN WithSourceRepository([p EXCEPT !.action = a], First(Repositories(a)))
    ELSE [p EXCEPT !.action = a]

(* The effect on addPackageAction *)
WithAction(p, a) ==
    IF p.mode = "add"
    THEN WithSourceRepository([p EXCEPT !.action = a], First(Repositories(a)))
    ELSE [p EXCEPT !.action = a, !.target = First(Repositories(a))]

(* The wizard has loaded its lists: at /add, or at a package's /clone. *)
OpenedToAdd(c) ==
    [mode |-> "add", content |-> c, action |-> "none",
     sourceRepository |-> Undefined, listed |-> Undefined, source |-> Undefined,
     target |-> First(Repositories(c)), form |-> DefaultForm,
     calls |-> [s \in Source |-> 0]]

OpenedToClone(s) ==
    LET a == Preferred(Descriptor[Origin[s]]) IN
    [mode |-> "clone", content |-> Descriptor[Origin[s]], action |-> a,
     sourceRepository |-> Origin[s], listed |-> Undefined, source |-> s,
     target |-> First(Repositories(a)), form |-> DefaultForm,
     calls |-> [t \in Source |-> IF t = s THEN 1 ELSE 0]]

Idle ==
    [next |-> "idle", form |-> DefaultForm, action |-> "none",
     source |-> Undefined, target |-> Undefined]

(* The page is shown, not <Progress/>. *)
Shown == request.next = "idle"

Choose(p) == Shown /\ page' = p /\ UNCHANGED <<contents, request, created>>

ChooseAction ==
    \E a \in ActionItems(page) \ {page.action} : Choose(WithAction(page, a))

ChooseSourceRepository ==
    /\ page.mode = "add" /\ page.action # "none"
    /\ \E r \in Repositories(page.action) \ {page.sourceRepository} :
          Choose(WithSourceRepository(page, r))

ChooseSource ==
    /\ page.mode = "add" /\ page.action # "none"
    /\ \E s \in Source \ {page.source} :
          /\ Origin[s] = page.listed
          /\ page.calls[s] < MaxCalls
          /\ Choose([page EXCEPT !.source = s, !.calls[s] = @ + 1])

ChooseTarget ==
    \E r \in TargetItems(page) \ {page.target} : Choose([page EXCEPT !.target = r])

-----------------------------------------------------------------------------
(* The form                                                                *)

(* updateKptfileState: the answer fills the form, whatever is chosen now. *)
AnswerResources ==
    \E s \in Source :
        /\ request.next \notin {"written", "failed"}
        /\ page.calls[s] > 0
        /\ page' = [page EXCEPT !.calls[s] = @ - 1, !.form = FormOf(s)]
        /\ UNCHANGED <<contents, request, created>>

FailResources ==
    \E s \in Source :
        /\ request.next \notin {"written", "failed"}
        /\ page.calls[s] > 0
        /\ page' = [page EXCEPT !.calls[s] = @ - 1]
        /\ UNCHANGED <<contents, request, created>>

TypeName ==
    \E n \in Namespace \union {NoName} :
        Choose([page EXCEPT
            !.form.name = n,
            !.form.namespace.namespace = IF page.source = Undefined THEN n ELSE @])

TypeInfo == \E i \in Info : Choose([page EXCEPT !.form.info = i])

SetNamespace ==
    /\ ~page.form.namespace.advancedConfiguration
    /\ \E b \in BOOLEAN : Choose([page EXCEPT !.form.namespace.setNamespace = b])

NamespaceElements ==
    page.form.namespace.setNamespace /\ ~page.form.namespace.advancedConfiguration

CreateNamespace ==
    /\ NamespaceElements /\ page.source = Undefined
    /\ \E b \in BOOLEAN : Choose([page EXCEPT !.form.namespace.createNamespace = b])

ChooseNamespaceOption ==
    /\ NamespaceElements
    /\ \E o \in {"user-defined", "deployment"} :
          Choose([page EXCEPT
              !.form.namespace.namespaceOption = o,
              !.form.namespace.namespace = IF @ = NoName THEN page.form.name ELSE @])

TypeNamespace ==
    /\ NamespaceElements /\ page.form.namespace.namespaceOption = "user-defined"
    /\ \E n \in Namespace \union {NoName} :
          Choose([page EXCEPT !.form.namespace.namespace = n])

ToggleKubeval == Choose([page EXCEPT !.form.kubeval = ~@])

-----------------------------------------------------------------------------
(* Creating the package                                                    *)

Confirm ==
    /\ Shown /\ page.target # Undefined
    /\ request' = [next |-> "create", form |-> page.form, action |-> page.action,
                   source |-> page.source, target |-> page.target]
    /\ UNCHANGED <<contents, page, created>>

(* The package that Porch makes of an init task. *)
InitPackage(i) ==
    [mutator |-> "none", validator |-> "none", info |-> i,
     files |-> [f \in File |-> IF f = "package-context.yaml"
                               THEN <<LocalConfig("ConfigMap", NoName)>> ELSE <<>>]]

NewPackage ==
    IF request.source = Undefined THEN InitPackage(request.form.info)
    ELSE contents[request.source]

(* Accepted, once (bound: one new package).  The answer may be lost. *)
CreatePackage ==
    /\ request.next = "create" /\ created = <<>> /\ request.form.name # NoName
    /\ created' = <<NewPackage>>
    /\ request' = [request EXCEPT !.next = "configure"]
    /\ UNCHANGED <<contents, page>>

(* createPackageRevision was refused or has failed. *)
FailCreate ==
    /\ request.next = "create"
    /\ created' \in {created} \union (IF created = <<>> THEN {<<NewPackage>>} ELSE {})
    /\ request' = Idle
    /\ UNCHANGED <<contents, page>>

(* updateKptfileInfo: only a clone has other values than the request's. *)
WithInfo(p, form, source) ==
    IF source = Undefined THEN p ELSE UpdateKptfileInfo(p, form.info)

WriteResources ==
    /\ request.next = "configure"
    /\ created' =
          <<WithInfo(
              ApplyNamespaceState(
                  ApplyValidateResourcesState(Head(created), request.form.kubeval),
                  request.form.namespace),
              request.form, request.source)>>
    /\ request' = [request EXCEPT !.next = "written"]
    /\ UNCHANGED <<contents, page>>

(* The functions are not in the catalog, or a call has failed. *)
FailWrite ==
    /\ request.next = "configure"
    /\ request' = [request EXCEPT !.next = "failed"]
    /\ UNCHANGED <<contents, page, created>>

Init ==
    /\ contents \in [Source -> Shape]
    /\ \/ \E c \in Content : page = OpenedToAdd(c)
       \/ \E s \in Source :
             CloneTo[Descriptor[Origin[s]]] # {} /\ page = OpenedToClone(s)
    /\ request = Idle
    /\ created = <<>>

Next ==
    \/ ChooseAction \/ ChooseSourceRepository \/ ChooseSource \/ ChooseTarget
    \/ AnswerResources \/ FailResources
    \/ TypeName \/ TypeInfo
    \/ SetNamespace \/ CreateNamespace \/ ChooseNamespaceOption \/ TypeNamespace
    \/ ToggleKubeval
    \/ Confirm \/ CreatePackage \/ FailCreate \/ WriteResources \/ FailWrite

Spec == Init /\ [][Next]_vars

-----------------------------------------------------------------------------
(* Properties                                                              *)

(* The new package goes where the wizard says, and a clone only where       *)
(* packages of its content may be cloned to (RepositoryContentDetails),     *)
(* whatever earlier choices have left behind.                               *)
CloneIsAllowed ==
    request.next # "idle" =>
        /\ Descriptor[request.target] =
              IF page.mode = "add" THEN page.content ELSE request.action
        /\ request.source # Undefined =>
              Descriptor[request.target] \in CloneTo[Descriptor[Origin[request.source]]]

(* Read back, the new package has the settings that were confirmed, though *)
(* the form may have been another package's.  This is not so with advanced *)
(* settings on either side, which the wizard leaves alone, or without an   *)
(* option or a namespace.                                                  *)
Confirmed(p, form, source) ==
    LET s == GetNamespaceState(p)
        f == form.namespace
    IN
    /\ p.info = form.info
    /\ SetKubeval(p) = form.kubeval
    /\ s.setNamespace = f.setNamespace
    /\ f.setNamespace => s.namespaceOption = f.namespaceOption
    /\ f.setNamespace /\ f.namespaceOption = "user-defined" => s.namespace = f.namespace
    /\ f.setNamespace /\ f.createNamespace /\ source = Undefined =>
          \E i \in DOMAIN p.files["namespace.yaml"] :
              p.files["namespace.yaml"][i].namespace = f.namespace

Configurable(form, source) ==
    LET f == form.namespace IN
    /\ ~f.advancedConfiguration
    /\ source # Undefined => ~GetNamespaceState(contents[source]).advancedConfiguration
    /\ f.setNamespace => f.namespaceOption # ""
    /\ f.setNamespace /\ f.namespaceOption = "user-defined" => f.namespace # NoName

ConfiguredAsConfirmed ==
    request.next = "written" /\ Configurable(request.form, request.source) =>
        Confirmed(Head(created), request.form, request.source)

(* The set-namespace and kubeval functions of the new package have one     *)
(* resource to configure them, and the package context is never deleted.   *)
ConfigFilesExist ==
    request.next = "written" => OneConfigEach(Head(created))

(* `Create a new ... by cloning a ...': the package that is cloned is of   *)
(* the content that the action names.  (AddPackagePage.tsx:251)            *)
ClonesWhatActionNames ==
    request.next = "create" /\ page.mode = "add" /\ request.source # Undefined =>
        request.action = Descriptor[Origin[request.source]]
=============================================================================
