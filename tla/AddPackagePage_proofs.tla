------------------------- MODULE AddPackagePage_proofs -------------------------
(***************************************************************************)
(* Proofs about the add package wizard, for any repositories, packages and *)
(* contents of packages.                                                   *)
(***************************************************************************)
EXTENDS AddPackagePage, TLAPS

(* The first of a list is undefined or one of the list. *)
LEMMA FirstOfList ==
    ASSUME NEW R
    PROVE  First(R) = Undefined \/ First(R) \in R
BY DEF First

(* The first repository of a content is one of that content. *)
LEMMA FirstOfContent ==
    \A a : First(Repositories(a)) # Undefined =>
        First(Repositories(a)) \in Repository /\ Descriptor[First(Repositories(a))] = a
<1> TAKE a
<1>1. First(Repositories(a)) = Undefined \/ First(Repositories(a)) \in Repositories(a)
  BY FirstOfList
<1> QED BY <1>1 DEF Repositories

-----------------------------------------------------------------------------
(* Types of the operators on packages                                      *)

(* What is read of a package, getNamespaceState above all, is of its type. *)
LEMMA ReadTypes ==
    ASSUME NEW p \in Package
    PROVE  /\ NamespaceOption(p) \in {"", "user-defined", "deployment"}
           /\ ConfiguredNamespace(p) \in Namespace \union {NoName}
           /\ GetNamespaceState(p) \in NamespaceState
           /\ SetKubeval(p) \in BOOLEAN
<1>1. NamespaceOption(p) \in {"", "user-defined", "deployment"}
  BY DEF NamespaceOption
<1>2. ConfiguredNamespace(p) \in Namespace \union {NoName}
  <2>1. CASE NamespaceOption(p) = "user-defined" /\ IsSetNamespace(p, p.mutator)
    <3>1. p.mutator \in File /\ p.files[p.mutator] # <<>>
      BY <2>1 DEF IsSetNamespace, HasConfig
    <3>2. p.files[p.mutator] \in Seq(Resource)
      BY <3>1 DEF Package
    <3>3. Config(p, p.mutator) \in Resource
      BY <3>1, <3>2 DEF Config
    <3> QED BY <2>1, <3>3 DEF ConfiguredNamespace, Resource
  <2>2. CASE ~(NamespaceOption(p) = "user-defined" /\ IsSetNamespace(p, p.mutator))
    BY <2>2 DEF ConfiguredNamespace
  <2> QED BY <2>1, <2>2
<1>3. GetNamespaceState(p) \in NamespaceState
  BY <1>1, <1>2 DEF GetNamespaceState, NamespaceState
<1>4. SetKubeval(p) \in BOOLEAN
  BY DEF SetKubeval
<1> QED BY <1>1, <1>2, <1>3, <1>4

(* Adding a resource to a file, and removing the first one, make packages. *)
LEMMA FileTypes ==
    ASSUME NEW p \in Package
    PROVE  /\ \A f \in File, r \in Resource : WithResource(p, f, r) \in Package
           /\ \A path \in Path : WithoutConfig(p, path) \in Package
           /\ \A path \in Path : [p EXCEPT !.mutator = path] \in Package
           /\ \A path \in Path : [p EXCEPT !.validator = path] \in Package
           /\ \A i \in Info : UpdateKptfileInfo(p, i) \in Package
<1>1. ASSUME NEW f \in File, NEW r \in Resource
      PROVE  WithResource(p, f, r) \in Package
  <2>1. Append(p.files[f], r) \in Seq(Resource)
    BY DEF Package
  <2> QED BY <2>1 DEF Package, WithResource
<1>2. ASSUME NEW path \in Path
      PROVE  WithoutConfig(p, path) \in Package
  <2>1. CASE IsConfigDeletable(p, path)
    <3>1. path \in File /\ p.files[path] # <<>> /\ p.files[path] \in Seq(Resource)
      BY <2>1 DEF IsConfigDeletable, HasConfig, Package
    <3>2. Tail(p.files[path]) \in Seq(Resource)
      BY <3>1
    <3> QED BY <2>1, <3>1, <3>2 DEF Package, WithoutConfig
  <2> QED BY <2>1 DEF WithoutConfig
<1>3. \A path \in Path : [p EXCEPT !.mutator = path] \in Package
  BY DEF Package
<1>4. \A path \in Path : [p EXCEPT !.validator = path] \in Package
  BY DEF Package
<1>5. \A i \in Info : UpdateKptfileInfo(p, i) \in Package
  BY DEF Package, UpdateKptfileInfo
<1> QED BY <1>1, <1>2, <1>3, <1>4, <1>5

(* The three operations on the set-namespace function make packages. *)
LEMMA SetNamespaceTypes ==
    ASSUME NEW p \in Package, NEW s \in NamespaceState
    PROVE  /\ CreateSetNamespace(p, s) \in Package
           /\ UpdateSetNamespace(p, s) \in Package
<1>0. s.namespace \in Namespace \union {NoName}
  BY DEF NamespaceState
<1>1. WithSetNamespace(p, s.namespace) \in Package
  <2> DEFINE q == WithResource(p, "set-namespace.yaml",
                               LocalConfig("SetNamespace", s.namespace))
  <2>1. LocalConfig("SetNamespace", s.namespace) \in Resource
    BY <1>0 DEF LocalConfig, Resource
  <2>2. q \in Package
    BY <2>1, FileTypes DEF File
  <2>3. [q EXCEPT !.mutator = "set-namespace.yaml"] \in Package
    BY <2>2, FileTypes DEF Path, File
  <2> QED BY <2>3 DEF WithSetNamespace
<1>2. CreateSetNamespace(p, s) \in Package
  <2> DEFINE q == IF s.namespaceOption = "user-defined"
                  THEN WithSetNamespace(p, s.namespace)
                  ELSE [p EXCEPT !.mutator = "package-context.yaml"]
             r == [kind |-> "Namespace", local |-> FALSE, namespace |-> s.namespace]
  <2>1. [p EXCEPT !.mutator = "package-context.yaml"] \in Package
    BY FileTypes DEF Path, File
  <2>2. q \in Package
    BY <1>1, <2>1
  <2>3. r \in Resource
    BY <1>0 DEF Resource
  <2> HIDE DEF q, r
  <2>4. WithResource(q, "namespace.yaml", r) \in Package
    BY <2>2, <2>3, FileTypes DEF File
  <2>5. CreateSetNamespace(p, s)
           = IF s.createNamespace THEN WithResource(q, "namespace.yaml", r) ELSE q
    BY DEF CreateSetNamespace, q, r
  <2> QED BY <2>2, <2>4, <2>5
<1>3. ASSUME IsSetNamespace(p, p.mutator)
      PROVE  WithNamespace(p, s.namespace) \in Package
  <2>1. p.mutator \in File /\ p.files[p.mutator] # <<>>
    BY <1>3 DEF IsSetNamespace, HasConfig
  <2>2. p.files[p.mutator] \in Seq(Resource)
    BY <2>1 DEF Package
  <2>3. [Head(p.files[p.mutator]) EXCEPT !.namespace = s.namespace] \in Resource
    <3>1. Head(p.files[p.mutator]) \in Resource
      BY <2>1, <2>2
    <3> QED BY <1>0, <3>1 DEF Resource
  <2>4. <<[Head(p.files[p.mutator]) EXCEPT !.namespace = s.namespace]>>
           \o Tail(p.files[p.mutator]) \in Seq(Resource)
    BY <2>1, <2>2, <2>3
  <2> QED BY <2>1, <2>4 DEF WithNamespace, Package
<1>4. [WithoutConfig(p, p.mutator) EXCEPT !.mutator = "package-context.yaml"] \in Package
  <2>1. WithoutConfig(p, p.mutator) \in Package
    BY FileTypes DEF Package
  <2> QED BY <2>1, FileTypes DEF Path, File
<1>5. UpdateSetNamespace(p, s) \in Package
  BY <1>1, <1>3, <1>4 DEF UpdateSetNamespace
<1> QED BY <1>2, <1>5

(* What the wizard writes is a package. *)
LEMMA ApplyTypes ==
    ASSUME NEW p \in Package
    PROVE  /\ \A s \in NamespaceState : ApplyNamespaceState(p, s) \in Package
           /\ \A b \in BOOLEAN : ApplyValidateResourcesState(p, b) \in Package
<1>0. p.mutator \in Path /\ p.validator \in Path
  BY DEF Package
<1>1. ASSUME NEW s \in NamespaceState
      PROVE  ApplyNamespaceState(p, s) \in Package
  <2>1. WithoutConfig(p, p.mutator) \in Package
    BY <1>0, FileTypes
  <2>2. [WithoutConfig(p, p.mutator) EXCEPT !.mutator = "none"] \in Package
    BY <2>1, FileTypes DEF Path
  <2> QED BY <2>2, SetNamespaceTypes DEF ApplyNamespaceState
<1>2. ASSUME NEW b \in BOOLEAN
      PROVE  ApplyValidateResourcesState(p, b) \in Package
  <2> DEFINE r == LocalConfig("ConfigMap", NoName)
             q == WithResource(p, "kubeval-config.yaml", r)
  <2>1. r \in Resource
    BY DEF LocalConfig, Resource
  <2>2. q \in Package /\ WithoutConfig(p, p.validator) \in Package
    BY <1>0, <2>1, FileTypes DEF File
  <2>3. [q EXCEPT !.validator = "kubeval-config.yaml"] \in Package
    BY <2>2, FileTypes DEF Path, File
  <2>4. [WithoutConfig(p, p.validator) EXCEPT !.validator = "none"] \in Package
    BY <2>2, FileTypes DEF Path
  <2> QED BY <2>3, <2>4 DEF ApplyValidateResourcesState
<1> QED BY <1>1, <1>2

-----------------------------------------------------------------------------
(* Type correctness                                                        *)

LEMMA FormTypes ==
    /\ DefaultForm \in Form
    /\ Idle \in Request
    /\ \A i \in Info : InitPackage(i) \in Package
    /\ contents \in [Source -> Shape] => \A s \in Source : FormOf(s) \in Form
<1>1. DefaultForm \in Form
  <2>1. NoInfo \in Info
    BY AddPackageAssumption DEF NoInfo
  <2>2. NamespaceDefaultState \in NamespaceState
    BY DEF NamespaceDefaultState, NamespaceState
  <2> QED BY <2>1, <2>2 DEF DefaultForm, Form
<1>2. Idle \in Request
  BY <1>1 DEF Idle, Request, Optional
<1>3. ASSUME NEW i \in Info
      PROVE  InitPackage(i) \in Package
  <2>1. LocalConfig("ConfigMap", NoName) \in Resource
    BY DEF LocalConfig, Resource
  <2>2. <<LocalConfig("ConfigMap", NoName)>> \in Seq(Resource) /\ <<>> \in Seq(Resource)
    BY <2>1
  <2>3. InitPackage(i).files \in [File -> Seq(Resource)]
    BY <2>2 DEF InitPackage
  <2> QED BY <2>3 DEF InitPackage, Package, Path
<1>4. ASSUME contents \in [Source -> Shape], NEW s \in Source
      PROVE  FormOf(s) \in Form
  <2>1. contents[s] \in Package
    BY <1>4, AddPackageAssumption
  <2>2. contents[s].info \in Info
    BY <2>1 DEF Package
  <2> QED BY <2>1, <2>2, ReadTypes, AddPackageAssumption DEF FormOf, Form
<1> QED BY <1>1, <1>2, <1>3, <1>4

(* The effects of a choice leave a page of its type. *)
LEMMA ChoiceTypes ==
    ASSUME NEW p \in Page
    PROVE  /\ SourceCleared(p) \in Page
           /\ \A r \in Optional(Repository) : WithSourceRepository(p, r) \in Page
           /\ \A a \in Content \union {"none"} : WithAction(p, a) \in Page
<1>1. ASSUME NEW q \in Page PROVE SourceCleared(q) \in Page
  BY FormTypes DEF SourceCleared, Page, Optional
<1>2. ASSUME NEW q \in Page, NEW r \in Optional(Repository)
      PROVE  WithSourceRepository(q, r) \in Page
  <2>1. SourceCleared(q) \in Page
    BY <1>1
  <2> QED BY <2>1 DEF WithSourceRepository, Page
<1>3. ASSUME NEW a \in Content \union {"none"} PROVE WithAction(p, a) \in Page
  <2>1. First(Repositories(a)) \in Optional(Repository)
    BY FirstOfList DEF Repositories, Optional
  <2>2. [p EXCEPT !.action = a] \in Page
    BY DEF Page
  <2>3. [p EXCEPT !.action = a, !.target = First(Repositories(a))] \in Page
    BY <2>1 DEF Page
  <2> QED BY <1>2, <2>1, <2>2, <2>3 DEF WithAction
<1> QED BY <1>1, <1>2, <1>3

LEMMA TypeInit == Init => TypeOK
<1> SUFFICES ASSUME Init PROVE TypeOK
  OBVIOUS
<1>1. \A a : First(Repositories(a)) \in Optional(Repository)
  BY FirstOfList DEF Repositories, Optional
<1>2. \A c \in Content : OpenedToAdd(c) \in Page
  BY <1>1, FormTypes, AddPackageAssumption DEF OpenedToAdd, Page, Optional
<1>3. \A s \in Source : OpenedToClone(s) \in Page
  <2> SUFFICES ASSUME NEW s \in Source PROVE OpenedToClone(s) \in Page
    OBVIOUS
  <2>1. Descriptor[Origin[s]] \in Content /\ Origin[s] \in Repository
    BY AddPackageAssumption
  <2>2. Preferred(Descriptor[Origin[s]]) \in Content
    BY DEF Preferred, Content
  <2>3. [t \in Source |-> IF t = s THEN 1 ELSE 0] \in [Source -> 0..MaxCalls]
    BY AddPackageAssumption
  <2> QED BY <1>1, <2>1, <2>2, <2>3, FormTypes DEF OpenedToClone, Page, Optional
<1>4. created \in Seq(Package) /\ Len(created) <= 1
  BY DEF Init
<1>5. Idle.next = "idle"
  BY DEF Idle
<1>6. page \in Page
  BY <1>2, <1>3 DEF Init
<1> QED BY <1>4, <1>5, <1>6, FormTypes DEF Init, TypeOK

LEMMA CloneToType == \A c \in Content : CloneTo[c] \subseteq Content
BY DEF CloneTo, Content

LEMMA TypeStep == TypeOK /\ [Next]_vars => TypeOK'
<1> SUFFICES ASSUME TypeOK, [Next]_vars PROVE TypeOK'
  OBVIOUS
<1>t. /\ contents \in [Source -> Shape]
      /\ page \in Page
      /\ request \in Request
      /\ created \in Seq(Package) /\ Len(created) <= 1
      /\ request.next \in {"configure", "written", "failed"} => created # <<>>
      /\ page.form \in Form /\ page.form.namespace \in NamespaceState
      /\ page.calls \in [Source -> 0..MaxCalls]
  BY DEF TypeOK, Page, Form
<1>e. ASSUME NEW p \in Page, Choose(p) PROVE TypeOK'
  BY <1>t, <1>e DEF Choose, TypeOK
<1>p. ASSUME NEW form \in Form PROVE [page EXCEPT !.form = form] \in Page
  BY <1>t DEF Page
<1>n. ASSUME NEW state \in NamespaceState
      PROVE  [page.form EXCEPT !.namespace = state] \in Form
  BY <1>t DEF Form
<1>1. CASE ChooseAction
  <2>1. ActionItems(page) \subseteq Content \union {"none"}
    <3>1. page.content \in Content
      BY <1>t DEF Page
    <3> QED BY <3>1, CloneToType DEF ActionItems
  <2>2. PICK a \in ActionItems(page) : Choose(WithAction(page, a))
    BY <1>1 DEF ChooseAction
  <2> QED BY <1>e, <1>t, <2>1, <2>2, ChoiceTypes
<1>2. CASE ChooseSourceRepository
  <2>1. PICK r \in Repositories(page.action) : Choose(WithSourceRepository(page, r))
    BY <1>2 DEF ChooseSourceRepository
  <2>2. r \in Optional(Repository)
    BY <2>1 DEF Repositories, Optional
  <2> QED BY <1>e, <1>t, <2>1, <2>2, ChoiceTypes
<1>3. CASE ChooseSource
  <2>1. PICK s \in Source :
            /\ page.calls[s] < MaxCalls
            /\ Choose([page EXCEPT !.source = s, !.calls[s] = @ + 1])
    BY <1>3 DEF ChooseSource
  <2>2. [page.calls EXCEPT ![s] = @ + 1] \in [Source -> 0..MaxCalls]
    BY <1>t, <2>1, AddPackageAssumption
  <2>3. [page EXCEPT !.source = s, !.calls[s] = @ + 1] \in Page
    BY <1>t, <2>2 DEF Page, Optional
  <2> QED BY <1>e, <2>1, <2>3
<1>4. CASE ChooseTarget
  <2>1. PICK r \in TargetItems(page) : Choose([page EXCEPT !.target = r])
    BY <1>4 DEF ChooseTarget
  <2>2. r \in Repository
    BY <2>1 DEF TargetItems, Repositories
  <2>3. [page EXCEPT !.target = r] \in Page
    BY <1>t, <2>2 DEF Page, Optional
  <2> QED BY <1>e, <2>1, <2>3
<1>a. ASSUME NEW s \in Source, page.calls[s] > 0
      PROVE  [page.calls EXCEPT ![s] = @ - 1] \in [Source -> 0..MaxCalls]
  BY <1>t, <1>a, AddPackageAssumption
<1>5. CASE AnswerResources
  <2>1. PICK s \in Source :
            /\ page.calls[s] > 0
            /\ page' = [page EXCEPT !.calls[s] = @ - 1, !.form = FormOf(s)]
            /\ UNCHANGED <<contents, request, created>>
    BY <1>5 DEF AnswerResources
  <2>2. FormOf(s) \in Form
    BY <1>t, FormTypes
  <2>3. page' \in Page
    BY <1>t, <1>a, <2>1, <2>2 DEF Page
  <2> QED BY <1>t, <2>1, <2>3 DEF TypeOK
<1>6. CASE FailResources
  <2>1. PICK s \in Source :
            /\ page.calls[s] > 0
            /\ page' = [page EXCEPT !.calls[s] = @ - 1]
            /\ UNCHANGED <<contents, request, created>>
    BY <1>6 DEF FailResources
  <2>2. page' \in Page
    BY <1>t, <1>a, <2>1 DEF Page
  <2> QED BY <1>t, <2>1, <2>2 DEF TypeOK
<1>7. CASE TypeName
  <2>1. PICK n \in Namespace \union {NoName} :
            Choose([page EXCEPT
                !.form.name = n,
                !.form.namespace.namespace = IF page.source = Undefined THEN n ELSE @])
    BY <1>7 DEF TypeName
  <2>2. [page.form.namespace EXCEPT
            !.namespace = IF page.source = Undefined THEN n ELSE @] \in NamespaceState
    BY <1>t DEF NamespaceState
  <2>3. [page.form EXCEPT
            !.name = n,
            !.namespace.namespace = IF page.source = Undefined THEN n ELSE @] \in Form
    BY <1>t, <2>2 DEF Form
  <2>4. [page EXCEPT
            !.form.name = n,
            !.form.namespace.namespace = IF page.source = Undefined THEN n ELSE @] \in Page
    BY <1>t, <2>3 DEF Page
  <2> QED BY <1>e, <2>1, <2>4
<1>8. CASE TypeInfo
  <2>1. PICK i \in Info : Choose([page EXCEPT !.form.info = i])
    BY <1>8 DEF TypeInfo
  <2>2. [page.form EXCEPT !.info = i] \in Form
    BY <1>t DEF Form
  <2> QED BY <1>e, <1>p, <2>1, <2>2
<1>9. CASE SetNamespace
  <2>1. PICK b \in BOOLEAN : Choose([page EXCEPT !.form.namespace.setNamespace = b])
    BY <1>9 DEF SetNamespace
  <2>2. [page.form.namespace EXCEPT !.setNamespace = b] \in NamespaceState
    BY <1>t DEF NamespaceState
  <2> QED BY <1>e, <1>n, <1>p, <2>1, <2>2
<1>10. CASE CreateNamespace
  <2>1. PICK b \in BOOLEAN : Choose([page EXCEPT !.form.namespace.createNamespace = b])
    BY <1>10 DEF CreateNamespace
  <2>2. [page.form.namespace EXCEPT !.createNamespace = b] \in NamespaceState
    BY <1>t DEF NamespaceState
  <2> QED BY <1>e, <1>n, <1>p, <2>1, <2>2
<1>11. CASE ChooseNamespaceOption
  <2>1. PICK o \in {"user-defined", "deployment"} :
          Choose([page EXCEPT
              !.form.namespace.namespaceOption = o,
              !.form.namespace.namespace = IF @ = NoName THEN page.form.name ELSE @])
    BY <1>11 DEF ChooseNamespaceOption
  <2>2. page.form.name \in Namespace \union {NoName}
    BY <1>t DEF Form
  <2>3. [page.form.namespace EXCEPT
            !.namespaceOption = o,
            !.namespace = IF @ = NoName THEN page.form.name ELSE @] \in NamespaceState
    <3>1. \A n \in Namespace \union {NoName} :
              [page.form.namespace EXCEPT !.namespaceOption = o, !.namespace = n]
                  \in NamespaceState
      BY <1>t DEF NamespaceState
    <3>2. page.form.namespace.namespace \in Namespace \union {NoName}
      BY <1>t DEF NamespaceState
    <3> DEFINE n == IF page.form.namespace.namespace = NoName THEN page.form.name
                    ELSE page.form.namespace.namespace
    <3>3. n \in Namespace \union {NoName}
      BY <2>2, <3>2
    <3>4. [page.form.namespace EXCEPT !.namespaceOption = o, !.namespace = n]
              \in NamespaceState
      BY <3>1, <3>3
    <3> QED BY <3>4
  <2>4. [page.form EXCEPT
            !.namespace.namespaceOption = o,
            !.namespace.namespace = IF @ = NoName THEN page.form.name ELSE @] \in Form
    BY <1>t, <2>3 DEF Form
  <2>5. [page EXCEPT
            !.form.namespace.namespaceOption = o,
            !.form.namespace.namespace = IF @ = NoName THEN page.form.name ELSE @] \in Page
    BY <1>t, <2>4 DEF Page
  <2> QED BY <1>e, <2>1, <2>5
<1>12. CASE TypeNamespace
  <2>1. PICK n \in Namespace \union {NoName} :
          Choose([page EXCEPT !.form.namespace.namespace = n])
    BY <1>12 DEF TypeNamespace
  <2>2. [page.form.namespace EXCEPT !.namespace = n] \in NamespaceState
    BY <1>t DEF NamespaceState
  <2> QED BY <1>e, <1>n, <1>p, <2>1, <2>2
<1>13. CASE ToggleKubeval
  <2>1. [page.form EXCEPT !.kubeval = ~@] \in Form
    BY <1>t DEF Form
  <2> QED BY <1>13, <1>e, <1>p, <2>1 DEF ToggleKubeval
<1>14. CASE Confirm
  BY <1>14, <1>t DEF Confirm, Request, Page, TypeOK
<1>c. ASSUME request.next = "create"
      PROVE  <<NewPackage>> \in Seq(Package) /\ Len(<<NewPackage>>) <= 1
  <2>1. NewPackage \in Package
    BY <1>t, FormTypes, AddPackageAssumption DEF NewPackage, Request, Form, Optional
  <2> QED BY <2>1
<1>15. CASE CreatePackage
  BY <1>15, <1>c, <1>t DEF CreatePackage, Request, TypeOK
<1>16. CASE FailCreate
  <2>1. created' = created \/ created' = <<NewPackage>>
    BY <1>16 DEF FailCreate
  <2>2. created' \in Seq(Package) /\ Len(created') <= 1
    BY <1>16, <1>c, <1>t, <2>1 DEF FailCreate
  <2>3. request'.next = "idle" /\ request' \in Request
    BY <1>16, FormTypes DEF FailCreate, Idle
  <2> QED BY <1>16, <1>t, <2>2, <2>3 DEF FailCreate, TypeOK
<1>17. CASE WriteResources
  <2> DEFINE p == ApplyValidateResourcesState(Head(created), request.form.kubeval)
             q == ApplyNamespaceState(p, request.form.namespace)
             r == WithInfo(q, request.form, request.source)
  <2>1. /\ request.form.kubeval \in BOOLEAN
        /\ request.form.namespace \in NamespaceState
        /\ request.form.info \in Info
    BY <1>t DEF Request, Form
  <2>2. Head(created) \in Package
    BY <1>17, <1>t DEF WriteResources
  <2>3. p \in Package
    BY <2>1, <2>2, ApplyTypes
  <2>4. q \in Package
    BY <2>1, <2>3, ApplyTypes
  <2>5. r \in Package
    BY <2>1, <2>4, FileTypes DEF WithInfo
  <2>6. created' = <<r>>
    BY <1>17 DEF WriteResources
  <2>7. created' \in Seq(Package) /\ Len(created') <= 1 /\ created' # <<>>
    BY <2>5, <2>6
  <2>8. request' \in Request
    BY <1>17, <1>t DEF WriteResources, Request
  <2> QED BY <1>17, <1>t, <2>7, <2>8 DEF WriteResources, TypeOK
<1>18. CASE FailWrite
  BY <1>18, <1>t DEF FailWrite, Request, TypeOK
<1>19. CASE UNCHANGED vars
  BY <1>19, <1>t DEF vars, TypeOK
<1> QED BY <1>1, <1>2, <1>3, <1>4, <1>5, <1>6, <1>7, <1>8, <1>9, <1>10, <1>11, <1>12,
           <1>13, <1>14, <1>15, <1>16, <1>17, <1>18, <1>19 DEF Next

(* The state of the wizard and the new package are always of their types.  *)
THEOREM WizardTypeCorrect == Spec => []TypeOK
<1> QED BY TypeInit, TypeStep, PTL DEF Spec

-----------------------------------------------------------------------------
(* Clones are allowed                                                      *)

(* The lists that are left behind were of contents that may be cloned to   *)
(* what is added.  The named package of /clone is never another one.       *)
ChosenToAdd(p) ==
    p.mode = "add" =>
        /\ \A r \in {p.sourceRepository, p.listed} \ {Undefined} :
              p.content \in CloneTo[Descriptor[r]]
        /\ p.source # Undefined => p.content \in CloneTo[Descriptor[Origin[p.source]]]
        /\ p.target # Undefined => Descriptor[p.target] = p.content
        /\ p.action \in ActionItems(p)

ChosenToClone(p) ==
    p.mode = "clone" =>
        /\ p.source # Undefined /\ Descriptor[Origin[p.source]] = p.content
        /\ p.target # Undefined => Descriptor[p.target] = p.action
        /\ p.action \in CloneTo[p.content]

(* The choices of the page do not change while it is not shown. *)
RequestInv ==
    request.next # "idle" =>
        /\ request.target = page.target /\ request.target # Undefined
        /\ request.source = page.source
        /\ request.action = page.action

ChoiceInv == ChosenToAdd(page) /\ ChosenToClone(page) /\ RequestInv

LEMMA ChoiceInit == Init => ChoiceInv
<1> SUFFICES ASSUME Init PROVE ChoiceInv
  OBVIOUS
<1>1. \A a : First(Repositories(a)) # Undefined =>
        First(Repositories(a)) \in Repository /\ Descriptor[First(Repositories(a))] = a
  BY FirstOfContent
<1>2. ASSUME NEW c \in Content, page = OpenedToAdd(c)
      PROVE  ChosenToAdd(page) /\ ChosenToClone(page)
  BY <1>1, <1>2 DEF OpenedToAdd, ChosenToAdd, ChosenToClone, ActionItems
<1>3. ASSUME NEW s \in Source, CloneTo[Descriptor[Origin[s]]] # {},
             page = OpenedToClone(s)
      PROVE  ChosenToAdd(page) /\ ChosenToClone(page)
  <2> DEFINE c == Descriptor[Origin[s]]
  <2>1. Preferred(c) \in CloneTo[c]
    BY <1>3, AddPackageAssumption DEF CloneTo, Preferred, Content
  <2> QED BY <1>1, <1>3, <2>1, AddPackageAssumption
          DEF OpenedToClone, ChosenToAdd, ChosenToClone, Undefined
<1> QED BY <1>2, <1>3 DEF Init, ChoiceInv, RequestInv, Idle

(* A new source repository of a content that may be cloned keeps it so. *)
LEMMA SourceRepositoryChosen ==
    ASSUME NEW p \in Page, ChosenToAdd(p), p.mode = "add",
           NEW r \in Optional(Repository),
           r # Undefined => p.content \in CloneTo[Descriptor[r]]
    PROVE  ChosenToAdd(WithSourceRepository(p, r))
<1> DEFINE q == SourceCleared(p)
<1>1. /\ q \in Page /\ q.source = Undefined /\ q.mode = p.mode
      /\ q.content = p.content /\ q.action = p.action
      /\ q.listed = p.listed /\ q.target = p.target
  BY ChoiceTypes DEF SourceCleared, Page
<1> QED BY <1>1 DEF WithSourceRepository, ChosenToAdd, ActionItems, Page

LEMMA ChoiceStep == TypeOK /\ ChoiceInv /\ [Next]_vars => ChoiceInv'
<1> SUFFICES ASSUME TypeOK, ChoiceInv, [Next]_vars PROVE ChoiceInv'
  OBVIOUS
<1>t. page \in Page /\ request \in Request
  BY DEF TypeOK
<1>i. ChosenToAdd(page) /\ ChosenToClone(page) /\ RequestInv
  BY DEF ChoiceInv
<1>m. page.mode = "add" \/ page.mode = "clone"
  BY <1>t DEF Page
<1>c. ASSUME NEW p \in Page, Choose(p), ChosenToAdd(p), ChosenToClone(p)
      PROVE  ChoiceInv'
  BY <1>c DEF Choose, Shown, ChoiceInv, RequestInv, ChosenToAdd, ChosenToClone, ActionItems
<1>r. \A a : First(Repositories(a)) # Undefined =>
        First(Repositories(a)) \in Repository /\ Descriptor[First(Repositories(a))] = a
  BY FirstOfContent
<1>1. CASE ChooseAction
  <2>1. PICK a \in ActionItems(page) : Choose(WithAction(page, a))
    BY <1>1 DEF ChooseAction
  <2>2. WithAction(page, a) \in Page
    <3>1. ActionItems(page) \subseteq Content \union {"none"}
      BY <1>t, CloneToType DEF ActionItems, Page
    <3> QED BY <1>t, <3>1, ChoiceTypes
  <2>3. CASE page.mode = "add"
    <3> DEFINE p == [page EXCEPT !.action = a]
               r == First(Repositories(a))
    <3>1. p \in Page /\ p.mode = "add" /\ p.content = page.content /\ ChosenToAdd(p)
      BY <1>i, <1>t, <2>1, <2>3, CloneToType DEF ChosenToAdd, ActionItems, Page
    <3>2. r \in Optional(Repository)
      BY <1>r DEF Optional
    <3>3. r # Undefined => p.content \in CloneTo[Descriptor[r]]
      <4> SUFFICES ASSUME r # Undefined PROVE p.content \in CloneTo[Descriptor[r]]
        OBVIOUS
      <4>1. Descriptor[r] = a /\ a # "none"
        BY <1>r, AddPackageAssumption DEF Content
      <4> QED BY <2>1, <2>3, <3>1, <4>1 DEF ActionItems
    <3>4. ChosenToAdd(WithSourceRepository(p, r))
      BY <3>1, <3>2, <3>3, SourceRepositoryChosen
    <3>5. WithAction(page, a) = WithSourceRepository(p, r)
      BY <2>3 DEF WithAction
    <3>6. WithAction(page, a).mode = "add"
      BY <3>1, <3>5 DEF WithSourceRepository, SourceCleared, Page
    <3> QED BY <1>c, <2>1, <2>2, <3>4, <3>5, <3>6 DEF ChosenToClone
  <2>4. CASE page.mode = "clone"
    <3>1. WithAction(page, a) =
              [page EXCEPT !.action = a, !.target = First(Repositories(a))]
      BY <2>4 DEF WithAction
    <3>2. ChosenToClone(WithAction(page, a)) /\ ChosenToAdd(WithAction(page, a))
      BY <1>i, <1>r, <1>t, <2>1, <2>4, <3>1
         DEF ChosenToAdd, ChosenToClone, ActionItems, Page
    <3> QED BY <1>c, <2>1, <2>2, <3>2
  <2> QED BY <1>m, <2>3, <2>4
<1>2. CASE ChooseSourceRepository
  <2>1. PICK r \in Repositories(page.action) : Choose(WithSourceRepository(page, r))
    BY <1>2 DEF ChooseSourceRepository
  <2>2. r \in Repository /\ Descriptor[r] = page.action
    BY <2>1 DEF Repositories
  <2>3. page.mode = "add" /\ page.content \in CloneTo[page.action]
    BY <1>2, <1>i DEF ChooseSourceRepository, ChosenToAdd, ActionItems
  <2>4. ChosenToAdd(WithSourceRepository(page, r))
    BY <1>i, <1>t, <2>2, <2>3, SourceRepositoryChosen DEF Optional
  <2>5. WithSourceRepository(page, r) \in Page
    BY <1>t, <2>2, ChoiceTypes DEF Optional
  <2>6. WithSourceRepository(page, r).mode = "add"
    BY <1>t, <2>3 DEF WithSourceRepository, SourceCleared, Page
  <2> QED BY <1>c, <2>1, <2>4, <2>5, <2>6 DEF ChosenToClone
<1>3. CASE ChooseSource
  <2>1. PICK s \in Source :
            /\ Origin[s] = page.listed
            /\ page.calls[s] < MaxCalls
            /\ Choose([page EXCEPT !.source = s, !.calls[s] = @ + 1])
    BY <1>3 DEF ChooseSource
  <2> DEFINE p == [page EXCEPT !.source = s, !.calls[s] = @ + 1]
  <2>2. p \in Page
    <3>1. [page.calls EXCEPT ![s] = @ + 1] \in [Source -> 0..MaxCalls]
      BY <1>t, <2>1, AddPackageAssumption DEF Page
    <3> QED BY <1>t, <3>1 DEF Page, Optional
  <2>3. page.mode = "add" /\ page.listed # Undefined
    BY <1>3, <2>1, AddPackageAssumption DEF ChooseSource, Undefined
  <2>4. ChosenToAdd(p) /\ ChosenToClone(p)
    BY <1>i, <1>t, <2>1, <2>3 DEF ChosenToAdd, ChosenToClone, ActionItems, Page
  <2> QED BY <1>c, <2>1, <2>2, <2>4
<1>4. CASE ChooseTarget
  <2>1. PICK r \in TargetItems(page) : Choose([page EXCEPT !.target = r])
    BY <1>4 DEF ChooseTarget
  <2>2. r \in Repository
    BY <2>1 DEF TargetItems, Repositories
  <2>3. [page EXCEPT !.target = r] \in Page
    BY <1>t, <2>2 DEF Page, Optional
  <2>4. ChosenToAdd([page EXCEPT !.target = r]) /\ ChosenToClone([page EXCEPT !.target = r])
    BY <1>i, <1>t, <2>1
       DEF TargetItems, Repositories, ChosenToAdd, ChosenToClone, ActionItems, Page
  <2> QED BY <1>c, <2>1, <2>3, <2>4
(* What the form holds does not matter. *)
<1>u. ASSUME page'.mode = page.mode, page'.content = page.content,
             page'.action = page.action, page'.listed = page.listed,
             page'.sourceRepository = page.sourceRepository,
             page'.source = page.source, page'.target = page.target
      PROVE  /\ ChosenToAdd(page)' /\ ChosenToClone(page)'
             /\ request' = request => RequestInv'
  BY <1>i, <1>u DEF ChosenToAdd, ChosenToClone, ActionItems, RequestInv
<1>5. CASE AnswerResources \/ FailResources
  BY <1>5, <1>t, <1>u DEF AnswerResources, FailResources, Page, ChoiceInv
<1>6. CASE TypeName
  BY <1>6, <1>i, <1>t, <1>u DEF TypeName, Choose, Page, ChoiceInv
<1>7. CASE TypeInfo
  BY <1>7, <1>i, <1>t, <1>u DEF TypeInfo, Choose, Page, ChoiceInv
<1>8. CASE SetNamespace
  BY <1>8, <1>i, <1>t, <1>u DEF SetNamespace, Choose, Page, ChoiceInv
<1>9. CASE CreateNamespace
  BY <1>9, <1>i, <1>t, <1>u DEF CreateNamespace, Choose, Page, ChoiceInv
<1>10. CASE ChooseNamespaceOption
  BY <1>10, <1>i, <1>t, <1>u DEF ChooseNamespaceOption, Choose, Page, ChoiceInv
<1>11. CASE TypeNamespace
  BY <1>11, <1>i, <1>t, <1>u DEF TypeNamespace, Choose, Page, ChoiceInv
<1>12. CASE ToggleKubeval
  BY <1>12, <1>i, <1>t, <1>u DEF ToggleKubeval, Choose, Page, ChoiceInv
<1>13. CASE Confirm
  BY <1>13, <1>i, <1>u DEF Confirm, RequestInv, ChoiceInv
<1>14. CASE CreatePackage \/ FailCreate \/ WriteResources \/ FailWrite
  <2>1. page' = page /\ request.next # "idle"
    BY <1>14 DEF CreatePackage, FailCreate, WriteResources, FailWrite
  <2>2. \/ request' = Idle
        \/ \E next \in {"configure", "written", "failed"} :
              request' = [request EXCEPT !.next = next]
    BY <1>14 DEF CreatePackage, FailCreate, WriteResources, FailWrite
  <2>3. RequestInv'
    BY <1>i, <1>t, <2>1, <2>2 DEF RequestInv, Idle, Request
  <2> QED BY <1>u, <2>1, <2>3 DEF ChoiceInv
<1>15. CASE UNCHANGED vars
  BY <1>15, <1>i, <1>u DEF vars, ChoiceInv
<1> QED BY <1>1, <1>2, <1>3, <1>4, <1>5, <1>6, <1>7, <1>8, <1>9, <1>10, <1>11, <1>12,
           <1>13, <1>14, <1>15 DEF Next

(* A new package goes where the wizard says, and a clone only where        *)
(* packages of its content may be cloned to.                               *)
THEOREM ClonesAreAllowed == Spec => []CloneIsAllowed
<1>1. TypeOK /\ ChoiceInv => CloneIsAllowed
  <2> SUFFICES ASSUME TypeOK, ChoiceInv, request.next # "idle"
               PROVE  /\ Descriptor[request.target] =
                            IF page.mode = "add" THEN page.content ELSE request.action
                      /\ request.source # Undefined =>
                            Descriptor[request.target]
                                \in CloneTo[Descriptor[Origin[request.source]]]
    BY DEF CloneIsAllowed
  <2>1. page.mode = "add" \/ page.mode = "clone"
    BY DEF TypeOK, Page
  <2> QED BY <2>1 DEF ChoiceInv, ChosenToAdd, ChosenToClone, RequestInv
<1> QED BY <1>1, TypeInit, TypeStep, ChoiceInit, ChoiceStep, PTL DEF Spec

-----------------------------------------------------------------------------
(* The new package is configured as was confirmed                          *)

(* A package whose functions have separate configurations, and settings    *)
(* that the wizard understands. *)
Plain(p) ==
    /\ p.mutator \in File => p.mutator # p.validator
    /\ p.mutator # "set-namespace.yaml" => p.files["set-namespace.yaml"] = <<>>
    /\ ~GetNamespaceState(p).advancedConfiguration

(* applyValidateResourcesState sets what it should, and nothing that is     *)
(* read of the set-namespace function.                                      *)
LEMMA ValidateApplied ==
    ASSUME NEW p \in Package, NEW b \in BOOLEAN, Plain(p)
    PROVE  LET q == ApplyValidateResourcesState(p, b) IN
           /\ SetKubeval(q) = b
           /\ q.mutator = p.mutator
           /\ q.info = p.info
           /\ q.files["set-namespace.yaml"] = p.files["set-namespace.yaml"]
                 \/ p.mutator = "set-namespace.yaml"
           /\ GetNamespaceState(q) = GetNamespaceState(p)
<1> DEFINE q == ApplyValidateResourcesState(p, b)
<1>q. q \in Package
  BY ApplyTypes
<1>1. SetKubeval(q) = b /\ q.mutator = p.mutator /\ q.info = p.info
  BY DEF ApplyValidateResourcesState, SetKubeval, WithResource, WithoutConfig, Package
<1>2. q.files["set-namespace.yaml"] = p.files["set-namespace.yaml"]
         \/ p.mutator = "set-namespace.yaml"
  BY DEF Plain, ApplyValidateResourcesState, WithResource, WithoutConfig,
         IsConfigDeletable, HasConfig, Package, File
<1>3. ASSUME p.mutator \in File, p.files[p.mutator] # <<>>
      PROVE  q.files[p.mutator] # <<>> /\ Head(q.files[p.mutator]) = Head(p.files[p.mutator])
  <2>1. CASE b /\ ~SetKubeval(p)
    <3> DEFINE r == LocalConfig("ConfigMap", NoName)
    <3>1. q.files = [p.files EXCEPT !["kubeval-config.yaml"] = Append(@, r)]
      BY <2>1 DEF ApplyValidateResourcesState, WithResource, Package
    <3>2. p.files[p.mutator] \in Seq(Resource)
      BY <1>3 DEF Package
    <3>3. Append(p.files[p.mutator], r) # <<>>
             /\ Head(Append(p.files[p.mutator], r)) = Head(p.files[p.mutator])
      BY <1>3, <3>2
    <3> HIDE DEF q, r
    <3> QED BY <1>3, <3>1, <3>3 DEF Package
  <2>2. CASE ~b /\ SetKubeval(p)
    <3>1. p.validator # p.mutator
      BY <1>3 DEF Plain
    <3>2. q.files[p.mutator] = p.files[p.mutator]
      BY <1>3, <2>2, <3>1 DEF ApplyValidateResourcesState, WithoutConfig, Package
    <3> QED BY <1>3, <3>2
  <2>3. CASE b = SetKubeval(p)
    BY <1>3, <2>3 DEF ApplyValidateResourcesState
  <2> QED BY <2>1, <2>2, <2>3 DEF SetKubeval
<1>4. NamespaceOption(q) = NamespaceOption(p)
  BY <1>1 DEF NamespaceOption
<1>5. NamespaceOption(p) = "user-defined" => IsSetNamespace(p, p.mutator)
  BY DEF Plain, GetNamespaceState, ConfiguredNamespace
<1>6. ConfiguredNamespace(q) = ConfiguredNamespace(p)
  <2>1. CASE NamespaceOption(p) = "user-defined"
    <3>1. p.mutator \in File /\ p.files[p.mutator] # <<>>
      BY <1>5, <2>1 DEF IsSetNamespace, HasConfig
    <3> HIDE DEF q
    <3> QED BY <1>1, <1>3, <1>4, <1>5, <2>1, <3>1
            DEF ConfiguredNamespace, IsSetNamespace, HasConfig, Config
  <2>2. CASE NamespaceOption(p) # "user-defined"
    BY <1>4, <2>2 DEF ConfiguredNamespace
  <2> QED BY <2>1, <2>2
<1>7. GetNamespaceState(q) = GetNamespaceState(p)
  BY <1>1, <1>4, <1>6 DEF GetNamespaceState
<1> QED BY <1>1, <1>2, <1>7

LEMMA HeadType == \A S : \A t \in Seq(S) : t # <<>> => Head(t) \in S
OBVIOUS

(* Appending an element, and replacing the head of a sequence. *)
LEMMA SequenceFacts ==
    ASSUME NEW S, NEW t \in Seq(S), NEW e \in S
    PROVE  /\ Len(t) + 1 \in DOMAIN Append(t, e)
           /\ Append(t, e)[Len(t) + 1] = e
           /\ t # <<>> => Head(t) \in S
           /\ t # <<>> => <<e>> \o Tail(t) # <<>> /\ Head(<<e>> \o Tail(t)) = e
<1>1. Len(t) + 1 \in DOMAIN Append(t, e) /\ Append(t, e)[Len(t) + 1] = e
  OBVIOUS
<1>2. ASSUME t # <<>> PROVE Head(t) \in S
  BY <1>2
<1>3. ASSUME t # <<>> PROVE <<e>> \o Tail(t) # <<>> /\ Head(<<e>> \o Tail(t)) = e
  <2>1. Tail(t) \in Seq(S) /\ <<e>> \in Seq(S)
    BY <1>3
  <2>2. Len(<<e>> \o Tail(t)) > 0 /\ (<<e>> \o Tail(t))[1] = e
    BY <2>1
  <2>3. <<e>> \o Tail(t) \in Seq(S)
    BY <2>1
  <2> QED BY <2>2, <2>3
<1> QED BY <1>1, <1>2, <1>3

(* A set-namespace.yaml of the wizard's is read back as it was written. *)
LEMMA SetNamespaceReadBack ==
    ASSUME NEW p \in Package, NEW n \in Namespace \union {NoName},
           p.files["set-namespace.yaml"] = <<>>
    PROVE  LET q == WithSetNamespace(p, n) IN
           /\ NamespaceOption(q) = "user-defined"
           /\ ConfiguredNamespace(q) = n
           /\ q.validator = p.validator /\ q.info = p.info
           /\ q.mutator = "set-namespace.yaml"
<1> DEFINE r == LocalConfig("SetNamespace", n)
           q == WithSetNamespace(p, n)
<1>1. /\ q.mutator = "set-namespace.yaml"
      /\ q.validator = p.validator /\ q.info = p.info
      /\ q.files = [p.files EXCEPT !["set-namespace.yaml"] = Append(@, r)]
  BY DEF WithSetNamespace, WithResource, Package
<1>2. q.files["set-namespace.yaml"] = <<r>>
  <2>1. p.files \in [File -> Seq(Resource)]
    BY DEF Package
  <2>2. Append(<<>>, r) = <<r>>
    OBVIOUS
  <2> HIDE DEF q, r
  <2> QED BY <1>1, <2>1, <2>2 DEF File
<1>3. r.kind = "SetNamespace" /\ r.namespace = n
  BY DEF LocalConfig
<1>4. Head(<<r>>) = r /\ <<r>> # <<>>
  OBVIOUS
<1> HIDE DEF q, r
<1>5. IsSetNamespace(q, q.mutator) /\ Config(q, q.mutator) = r
  BY <1>1, <1>2, <1>3, <1>4 DEF IsSetNamespace, HasConfig, Config, File
<1>6. NamespaceOption(q) = "user-defined"
  BY <1>1 DEF NamespaceOption
<1>7. ConfiguredNamespace(q) = n
  BY <1>3, <1>5, <1>6 DEF ConfiguredNamespace
<1> QED BY <1>1, <1>6, <1>7 DEF q

(* applyNamespaceState sets what it should, and nothing of kubeval. *)
LEMMA NamespaceApplied ==
    ASSUME NEW p \in Package, NEW s \in NamespaceState,
           p.mutator # "set-namespace.yaml" => p.files["set-namespace.yaml"] = <<>>,
           ~GetNamespaceState(p).advancedConfiguration,
           ~s.advancedConfiguration,
           s.setNamespace => s.namespaceOption # "",
           s.setNamespace /\ s.namespaceOption = "user-defined" => s.namespace # NoName
    PROVE  LET q == ApplyNamespaceState(p, s) IN
           /\ q.validator = p.validator /\ q.info = p.info
           /\ GetNamespaceState(q).setNamespace = s.setNamespace
           /\ s.setNamespace => NamespaceOption(q) = s.namespaceOption
           /\ s.setNamespace /\ s.namespaceOption = "user-defined" =>
                 ConfiguredNamespace(q) = s.namespace
           /\ s.setNamespace /\ s.createNamespace /\ p.mutator = "none" =>
                 \E i \in DOMAIN q.files["namespace.yaml"] :
                     q.files["namespace.yaml"][i].namespace = s.namespace
<1> DEFINE q == ApplyNamespaceState(p, s)
<1>s. /\ s.setNamespace \in BOOLEAN /\ s.createNamespace \in BOOLEAN
      /\ s.namespace \in Namespace \union {NoName}
      /\ s.namespaceOption \in {"", "user-defined", "deployment"}
  BY DEF NamespaceState
<1>1. CASE ~s.setNamespace
  <2>1. q.mutator = "none" /\ q.validator = p.validator /\ q.info = p.info
    BY <1>1 DEF ApplyNamespaceState, WithoutConfig, Package
  <2> QED BY <1>1, <1>s, <2>1 DEF GetNamespaceState
<1>2. CASE s.setNamespace /\ p.mutator = "none"
  <2> DEFINE c == IF s.namespaceOption = "user-defined"
                  THEN WithSetNamespace(p, s.namespace)
                  ELSE [p EXCEPT !.mutator = "package-context.yaml"]
             r == [kind |-> "Namespace", local |-> FALSE, namespace |-> s.namespace]
  <2>1. q = IF s.createNamespace THEN WithResource(c, "namespace.yaml", r) ELSE c
    BY <1>2 DEF ApplyNamespaceState, CreateSetNamespace
  <2>2. /\ c.validator = p.validator /\ c.info = p.info /\ c.mutator # "none"
        /\ NamespaceOption(c) = s.namespaceOption
        /\ s.namespaceOption = "user-defined" => ConfiguredNamespace(c) = s.namespace
    <3>1. CASE s.namespaceOption = "user-defined"
      <4>1. p.files["set-namespace.yaml"] = <<>>
        BY <1>2
      <4> QED BY <1>s, <3>1, <4>1, SetNamespaceReadBack
    <3>2. CASE s.namespaceOption = "deployment"
      BY <3>2 DEF NamespaceOption, Package
    <3> QED BY <1>2, <1>s, <3>1, <3>2
  <2>3. c \in Package
    <3>1. CreateSetNamespace(p, [s EXCEPT !.createNamespace = FALSE]) = c
      BY DEF CreateSetNamespace, NamespaceState
    <3>2. [s EXCEPT !.createNamespace = FALSE] \in NamespaceState
      BY DEF NamespaceState
    <3> QED BY <3>1, <3>2, SetNamespaceTypes
  <2> HIDE DEF c, r
  <2>4. CASE ~s.createNamespace
    BY <1>2, <2>1, <2>2, <2>4 DEF GetNamespaceState
  <2>5. CASE s.createNamespace
    <3>1. /\ q.mutator = c.mutator /\ q.validator = c.validator /\ q.info = c.info
          /\ q.files = [c.files EXCEPT !["namespace.yaml"] = Append(@, r)]
      BY <2>1, <2>3, <2>5 DEF WithResource, Package
    <3>2. c.files \in [File -> Seq(Resource)]
      BY <2>3 DEF Package
    <3>3. c.mutator # "namespace.yaml"
      BY SetNamespaceReadBack, <1>2, <1>s DEF c, Package
    <3>4. \A path : HasConfig(q, path) /\ path # "namespace.yaml" =>
                        HasConfig(c, path) /\ Config(q, path) = Config(c, path)
      BY <3>1, <3>2 DEF HasConfig, Config
    <3>5. \A path : HasConfig(c, path) /\ path # "namespace.yaml" => HasConfig(q, path)
      BY <3>1, <3>2 DEF HasConfig
    <3>6. NamespaceOption(q) = NamespaceOption(c)
      BY <3>1 DEF NamespaceOption
    <3>7. ConfiguredNamespace(q) = ConfiguredNamespace(c)
      BY <3>1, <3>3, <3>4, <3>5, <3>6 DEF ConfiguredNamespace, IsSetNamespace
    <3>8. \E i \in DOMAIN q.files["namespace.yaml"] :
              q.files["namespace.yaml"][i].namespace = s.namespace
      <4>1. q.files["namespace.yaml"] = Append(c.files["namespace.yaml"], r)
        BY <3>1, <3>2 DEF File
      <4> DEFINE l == c.files["namespace.yaml"]
                 i == Len(l) + 1
      <4>2. l \in Seq(Resource)
        BY <3>2 DEF File
      <4>3. i \in DOMAIN Append(l, r) /\ Append(l, r)[i] = r
        <5>1. r \in Resource
          BY <1>s DEF r, Resource
        <5> HIDE DEF l, r
        <5> QED BY <4>2, <5>1, SequenceFacts
      <4>4. r.namespace = s.namespace
        BY DEF r
      <4> HIDE DEF l, i
      <4> QED BY <4>1, <4>3, <4>4 DEF l
    <3> QED BY <1>2, <2>2, <3>1, <3>6, <3>7, <3>8 DEF GetNamespaceState
  <2> QED BY <1>s, <2>4, <2>5
<1>3. CASE s.setNamespace /\ p.mutator # "none"
  <2>1. q = UpdateSetNamespace(p, s)
    BY <1>3 DEF ApplyNamespaceState
  <2>2. CASE NamespaceOption(p) # s.namespaceOption /\ s.namespaceOption = "user-defined"
    <3>1. q = WithSetNamespace(p, s.namespace)
      BY <2>1, <2>2 DEF UpdateSetNamespace
    <3>2. p.files["set-namespace.yaml"] = <<>>
      BY <1>3, <2>2 DEF NamespaceOption
    <3> QED BY <1>3, <1>s, <2>2, <3>1, <3>2, SetNamespaceReadBack DEF GetNamespaceState
  <2>3. CASE NamespaceOption(p) # s.namespaceOption /\ s.namespaceOption = "deployment"
    <3>1. q.mutator = "package-context.yaml" /\ q.validator = p.validator /\ q.info = p.info
      BY <2>1, <2>3 DEF UpdateSetNamespace, WithoutConfig, Package
    <3> QED BY <1>3, <2>3, <3>1 DEF GetNamespaceState, NamespaceOption
  <2>4. CASE NamespaceOption(p) = s.namespaceOption /\ s.namespaceOption = "user-defined"
    <3>1. IsSetNamespace(p, p.mutator)
      BY <2>4 DEF GetNamespaceState, ConfiguredNamespace
    <3>2. CASE ConfiguredNamespace(p) = s.namespace
      BY <1>3, <2>1, <2>4, <3>2 DEF UpdateSetNamespace, GetNamespaceState
    <3>3. CASE ConfiguredNamespace(p) # s.namespace
      <4> DEFINE r == [Head(p.files[p.mutator]) EXCEPT !.namespace = s.namespace]
                 l == <<r>> \o Tail(p.files[p.mutator])
      <4>1. p.mutator \in File /\ p.files[p.mutator] # <<>>
               /\ p.files[p.mutator] \in Seq(Resource)
        BY <3>1 DEF IsSetNamespace, HasConfig, Package
      <4>2. Head(p.files[p.mutator]) \in Resource
        <5> HIDE DEF q, r, l
        <5> QED BY <4>1, HeadType
      <4>3. r \in Resource /\ r.namespace = s.namespace /\ r.kind = "SetNamespace"
        BY <1>s, <3>1, <4>2 DEF Resource, IsSetNamespace, Config
      <4>4. q = WithNamespace(p, s.namespace)
        BY <2>1, <2>4, <3>1, <3>3 DEF UpdateSetNamespace
      <4>5. /\ q.mutator = p.mutator /\ q.validator = p.validator /\ q.info = p.info
            /\ q.files[p.mutator] = l
        BY <4>1, <4>4 DEF WithNamespace, Package
      <4> HIDE DEF r, q
      <4>6. l # <<>> /\ Head(l) = r
        BY <4>1, <4>3, SequenceFacts
      <4> HIDE DEF l
      <4>7. NamespaceOption(q) = "user-defined"
        BY <2>4, <4>5 DEF NamespaceOption
      <4>8. IsSetNamespace(q, q.mutator) /\ Config(q, q.mutator) = r
        BY <4>1, <4>3, <4>5, <4>6 DEF IsSetNamespace, HasConfig, Config
      <4>9. ConfiguredNamespace(q) = s.namespace
        BY <4>3, <4>7, <4>8 DEF ConfiguredNamespace
      <4> QED BY <1>3, <2>4, <4>5, <4>7, <4>9 DEF GetNamespaceState, q
    <3> QED BY <3>2, <3>3
  <2>5. CASE NamespaceOption(p) = s.namespaceOption /\ s.namespaceOption = "deployment"
    BY <1>3, <2>1, <2>5 DEF UpdateSetNamespace, GetNamespaceState
  <2> QED BY <1>3, <1>s, <2>2, <2>3, <2>4, <2>5
<1> QED BY <1>s, <1>1, <1>2, <1>3

(* Until its resources are written, the new package is as it was made. *)
CreatedInv == request.next = "configure" => created = <<NewPackage>>

ConfigInv == CreatedInv /\ ConfiguredAsConfirmed

LEMMA WriteConfigures ==
    ASSUME TypeOK, CreatedInv, WriteResources
    PROVE  ConfiguredAsConfirmed'
<1> DEFINE form == request.form
           source == request.source
           p == NewPackage
           v == ApplyValidateResourcesState(p, form.kubeval)
           q == ApplyNamespaceState(v, form.namespace)
           w == WithInfo(q, form, source)
<1>1. created' = <<w>> /\ request' = [request EXCEPT !.next = "written"]
         /\ UNCHANGED contents
  <2>1. Head(created) = p
    BY DEF WriteResources, CreatedInv
  <2> QED BY <2>1 DEF WriteResources
<1>2. request'.form = form /\ request'.source = source /\ Head(created') = w
  BY <1>1 DEF TypeOK, Request
<1> SUFFICES ASSUME Configurable(form, source) PROVE Confirmed(w, form, source)
  BY <1>1, <1>2 DEF ConfiguredAsConfirmed, Configurable
<1>3. form \in Form /\ source \in Optional(Source) /\ contents \in [Source -> Shape]
  BY DEF TypeOK, Request
<1>4. /\ form.kubeval \in BOOLEAN /\ form.namespace \in NamespaceState
      /\ form.info \in Info
  BY <1>3 DEF Form
<1>5. p \in Package
  BY <1>3, <1>4, FormTypes, AddPackageAssumption DEF NewPackage, Optional
<1>6. Plain(p)
  <2>1. CASE source = Undefined
    BY <2>1 DEF NewPackage, InitPackage, Plain, GetNamespaceState, NamespaceOption, File
  <2>2. CASE source # Undefined
    <3>1. p = contents[source] /\ source \in Source
      BY <1>3, <2>2 DEF NewPackage, Optional
    <3> QED BY <1>3, <2>2, <3>1, SeparateConfigAssumption DEF Plain, Configurable
  <2> QED BY <2>1, <2>2
<1>7. source = Undefined => p.mutator = "none" /\ p.info = form.info
  BY DEF NewPackage, InitPackage
<1> HIDE DEF form, source, p
<1>8. /\ v \in Package /\ SetKubeval(v) = form.kubeval
      /\ v.mutator = p.mutator /\ v.info = p.info
      /\ v.files["set-namespace.yaml"] = p.files["set-namespace.yaml"]
            \/ p.mutator = "set-namespace.yaml"
      /\ GetNamespaceState(v) = GetNamespaceState(p)
  BY <1>4, <1>5, <1>6, ValidateApplied, ApplyTypes
<1> HIDE DEF v
<1>9. /\ v.mutator # "set-namespace.yaml" => v.files["set-namespace.yaml"] = <<>>
      /\ ~GetNamespaceState(v).advancedConfiguration
  BY <1>6, <1>8 DEF Plain
<1>10. /\ q \in Package /\ q.validator = v.validator /\ q.info = v.info
       /\ GetNamespaceState(q).setNamespace = form.namespace.setNamespace
       /\ form.namespace.setNamespace => NamespaceOption(q) = form.namespace.namespaceOption
       /\ form.namespace.setNamespace /\ form.namespace.namespaceOption = "user-defined" =>
             ConfiguredNamespace(q) = form.namespace.namespace
       /\ form.namespace.setNamespace /\ form.namespace.createNamespace
             /\ v.mutator = "none" =>
             \E i \in DOMAIN q.files["namespace.yaml"] :
                 q.files["namespace.yaml"][i].namespace = form.namespace.namespace
  BY <1>4, <1>8, <1>9, NamespaceApplied, ApplyTypes DEF Configurable
<1> HIDE DEF q
<1>11. /\ w.mutator = q.mutator /\ w.validator = q.validator /\ w.files = q.files
       /\ w.info = form.info
  BY <1>7, <1>8, <1>10 DEF WithInfo, UpdateKptfileInfo, Package
<1> HIDE DEF w
<1>12. NamespaceOption(w) = NamespaceOption(q)
  BY <1>11 DEF NamespaceOption
<1>13. ConfiguredNamespace(w) = ConfiguredNamespace(q)
  BY <1>11, <1>12 DEF ConfiguredNamespace, IsSetNamespace, HasConfig, Config
<1>14. SetKubeval(w) = form.kubeval
  BY <1>8, <1>10, <1>11 DEF SetKubeval
<1>15. GetNamespaceState(w) = GetNamespaceState(q)
  BY <1>11, <1>12, <1>13 DEF GetNamespaceState
<1>16. /\ GetNamespaceState(w).namespaceOption = NamespaceOption(q)
       /\ GetNamespaceState(w).namespace = ConfiguredNamespace(q)
  BY <1>15 DEF GetNamespaceState
<1> QED BY <1>7, <1>8, <1>10, <1>11, <1>14, <1>15, <1>16 DEF Confirmed

(* Read back, the new package has the settings that were confirmed.        *)
THEOREM PackagesAreConfigured == Spec => []ConfiguredAsConfirmed
<1>1. Init => ConfigInv
  BY DEF Init, Idle, ConfigInv, CreatedInv, ConfiguredAsConfirmed
<1>2. TypeOK /\ ConfigInv /\ [Next]_vars => ConfigInv'
  <2> SUFFICES ASSUME TypeOK, ConfigInv, [Next]_vars PROVE ConfigInv'
    OBVIOUS
  <2>1. CASE WriteResources
    <3>1. ConfiguredAsConfirmed'
      BY <2>1, WriteConfigures DEF ConfigInv
    <3>2. request'.next = "written"
      BY <2>1 DEF WriteResources, TypeOK, Request
    <3> QED BY <3>1, <3>2 DEF ConfigInv, CreatedInv
  <2>2. CASE CreatePackage
    <3>1. /\ request'.next = "configure" /\ created' = <<NewPackage>>
          /\ request'.form = request.form /\ request'.source = request.source
          /\ contents' = contents
      BY <2>2 DEF CreatePackage, TypeOK, Request
    <3>2. NewPackage' = NewPackage
      BY <3>1 DEF NewPackage
    <3> QED BY <3>1, <3>2 DEF ConfigInv, CreatedInv, ConfiguredAsConfirmed
  <2>3. CASE Confirm \/ FailCreate \/ FailWrite
    <3>1. request'.next \notin {"configure", "written"}
      BY <2>3 DEF Confirm, FailCreate, FailWrite, Idle, TypeOK, Request
    <3> QED BY <3>1 DEF ConfigInv, CreatedInv, ConfiguredAsConfirmed
  <2>4. CASE UNCHANGED <<contents, request, created>>
    BY <2>4 DEF ConfigInv, CreatedInv, ConfiguredAsConfirmed, NewPackage, Configurable
  <2>5. Next => \/ WriteResources \/ CreatePackage \/ Confirm \/ FailCreate \/ FailWrite
                \/ UNCHANGED <<contents, request, created>>
    BY DEF Next, ChooseAction, ChooseSourceRepository, ChooseSource, ChooseTarget,
           AnswerResources, FailResources, TypeName, TypeInfo, SetNamespace,
           CreateNamespace, ChooseNamespaceOption, TypeNamespace, ToggleKubeval, Choose
  <2> QED BY <2>1, <2>2, <2>3, <2>4, <2>5 DEF vars
<1>3. ConfigInv => ConfiguredAsConfirmed
  BY DEF ConfigInv
<1> QED BY <1>1, <1>2, <1>3, TypeInit, TypeStep, PTL DEF Spec

-----------------------------------------------------------------------------
(* The new package has its configurations                                  *)

(* Two functions of a package with one resource each, in files of their own. *)
Separate(p) ==
    /\ p.mutator \in File => p.mutator # p.validator
    /\ p.mutator # "set-namespace.yaml" => p.files["set-namespace.yaml"] = <<>>
    /\ OneConfigEach(p)
    /\ p.validator # "namespace.yaml"

LEMMA OneMore ==
    \A S : \A e \in S : Len(Append(<<>>, e)) = 1
OBVIOUS

(* A file with one resource is not empty. *)
LEMMA FullNotEmpty ==
    \A t : Len(t) = 1 => t # <<>>
<1>1. Len(<<>>) = 0
  OBVIOUS
<1> QED BY <1>1

(* A configuration added to an empty file, or deleted, is the only change. *)
LEMMA FilesChanged ==
    ASSUME NEW p \in Package, NEW f \in File, NEW r \in Resource
    PROVE  /\ WithResource(p, f, r) \in Package
           /\ WithResource(p, f, r).mutator = p.mutator
           /\ WithResource(p, f, r).validator = p.validator
           /\ \A path \in File \ {f} : WithResource(p, f, r).files[path] = p.files[path]
           /\ p.files[f] = <<>> => Len(WithResource(p, f, r).files[f]) = 1
<1> DEFINE q == WithResource(p, f, r)
<1>1. q.files = [p.files EXCEPT ![f] = Append(@, r)] /\ q.mutator = p.mutator
         /\ q.validator = p.validator /\ q.info = p.info
         /\ q = [p EXCEPT !.files = [p.files EXCEPT ![f] = Append(@, r)]]
  BY DEF WithResource, Package
<1>2. p.files \in [File -> Seq(Resource)]
  BY DEF Package
<1>3. Len(Append(<<>>, r)) = 1
  BY OneMore
<1>4. q \in Package
  BY FileTypes
<1> HIDE DEF q
<1> QED BY <1>1, <1>2, <1>3, <1>4 DEF q

LEMMA ConfigDeleted ==
    ASSUME NEW p \in Package, NEW path \in Path
    PROVE  /\ WithoutConfig(p, path).mutator = p.mutator
           /\ WithoutConfig(p, path).validator = p.validator
           /\ \A f \in File : f # path \/ f = "package-context.yaml" =>
                 WithoutConfig(p, path).files[f] = p.files[f]
BY DEF WithoutConfig, IsConfigDeletable, HasConfig, Package, File

(* applyValidateResourcesState keeps the configurations apart. *)
LEMMA ValidateKeepsSeparate ==
    ASSUME NEW p \in Package, NEW b \in BOOLEAN, Separate(p),
           p.validator # "kubeval-config.yaml" => p.files["kubeval-config.yaml"] = <<>>
    PROVE  Separate(ApplyValidateResourcesState(p, b))
<1> DEFINE v == ApplyValidateResourcesState(p, b)
<1>0. p.mutator \in Path /\ p.validator \in Path /\ "none" \notin File
  BY DEF Package, File
<1>1. CASE b /\ ~SetKubeval(p)
  <2> DEFINE q == WithResource(p, "kubeval-config.yaml", LocalConfig("ConfigMap", NoName))
  <2>1. LocalConfig("ConfigMap", NoName) \in Resource /\ "kubeval-config.yaml" \in File
    BY DEF LocalConfig, Resource, File
  <2>2. p.validator = "none" /\ p.files["kubeval-config.yaml"] = <<>>
    BY <1>1 DEF SetKubeval
  <2>3. p.mutator # "kubeval-config.yaml"
    BY <2>1, <2>2, FullNotEmpty DEF Separate, OneConfigEach
  <2>4. /\ q \in Package /\ q.mutator = p.mutator
        /\ \A path \in File \ {"kubeval-config.yaml"} : q.files[path] = p.files[path]
        /\ Len(q.files["kubeval-config.yaml"]) = 1
    BY <2>1, <2>2, FilesChanged
  <2> HIDE DEF q
  <2>5. v = [q EXCEPT !.validator = "kubeval-config.yaml"]
    BY <1>1 DEF ApplyValidateResourcesState, q
  <2>6. v.mutator = p.mutator /\ v.validator = "kubeval-config.yaml" /\ v.files = q.files
    BY <2>4, <2>5 DEF Package
  <2> HIDE DEF v
  <2>7. Separate(v)
    BY <2>3, <2>4, <2>6 DEF Separate, OneConfigEach, File
  <2> QED BY <2>7 DEF v
<1>2. CASE ~b /\ SetKubeval(p)
  <2> DEFINE q == WithoutConfig(p, p.validator)
  <2>1. q \in Package
    BY <1>0, FileTypes
  <2>2. /\ q.mutator = p.mutator
        /\ \A f \in File : f # p.validator \/ f = "package-context.yaml" =>
               q.files[f] = p.files[f]
    BY <1>0, ConfigDeleted
  <2> HIDE DEF q
  <2>3. v = [q EXCEPT !.validator = "none"]
    BY <1>2 DEF ApplyValidateResourcesState, q
  <2>4. v.mutator = p.mutator /\ v.validator = "none" /\ v.files = q.files
    BY <2>1, <2>2, <2>3 DEF Package
  <2> HIDE DEF v
  <2>5. \A path \in File \intersect {p.mutator, "package-context.yaml"} :
           v.files[path] = p.files[path]
    BY <2>2, <2>4 DEF Separate
  <2>6. p.mutator # "set-namespace.yaml" => v.files["set-namespace.yaml"] = <<>>
    <3>1. "set-namespace.yaml" \in File
      BY DEF File
    <3>2. p.mutator # "set-namespace.yaml" => p.validator # "set-namespace.yaml"
      BY <3>1, FullNotEmpty DEF Separate, OneConfigEach
    <3> QED BY <2>2, <2>4, <3>1, <3>2 DEF Separate
  <2>7. Separate(v)
    BY <1>0, <2>4, <2>5, <2>6 DEF Separate, OneConfigEach
  <2> QED BY <2>7 DEF v
<1>3. CASE b = SetKubeval(p)
  BY <1>3 DEF ApplyValidateResourcesState
<1> QED BY <1>1, <1>2, <1>3 DEF SetKubeval

(* The file of a new set-namespace function is its own. *)
LEMMA SetNamespaceHasConfig ==
    ASSUME NEW p \in Package, NEW n \in Namespace \union {NoName}, Separate(p),
           p.mutator # "set-namespace.yaml"
    PROVE  LET q == WithSetNamespace(p, n) IN
           /\ q \in Package /\ OneConfigEach(q)
           /\ q.mutator = "set-namespace.yaml" /\ q.validator = p.validator
<1> DEFINE r == WithResource(p, "set-namespace.yaml", LocalConfig("SetNamespace", n))
           q == WithSetNamespace(p, n)
<1>1. LocalConfig("SetNamespace", n) \in Resource /\ "set-namespace.yaml" \in File
  BY DEF LocalConfig, Resource, File
<1>2. p.files["set-namespace.yaml"] = <<>> /\ p.validator # "set-namespace.yaml"
  <2> HIDE DEF r, q
  <2>1. p.files["set-namespace.yaml"] = <<>>
    BY DEF Separate
  <2>2. "set-namespace.yaml" \in File
    BY <1>1
  <2> QED BY <2>1, <2>2, FullNotEmpty DEF Separate, OneConfigEach
<1>3. /\ r \in Package /\ r.validator = p.validator
      /\ \A path \in File \ {"set-namespace.yaml"} : r.files[path] = p.files[path]
      /\ Len(r.files["set-namespace.yaml"]) = 1
  BY <1>1, <1>2, FilesChanged
<1> HIDE DEF r
<1>4. q = [r EXCEPT !.mutator = "set-namespace.yaml"]
  BY DEF WithSetNamespace, r
<1>5. /\ q.mutator = "set-namespace.yaml" /\ q.validator = p.validator
      /\ q.files = r.files /\ q \in Package
  <2>1. "set-namespace.yaml" \in Path
    BY <1>1 DEF Path
  <2>2. [r EXCEPT !.mutator = "set-namespace.yaml"] \in Package
    BY <1>3, <2>1, FileTypes
  <2> QED BY <1>3, <1>4, <2>2 DEF Package
<1> HIDE DEF q
<1>6. OneConfigEach(q)
  BY <1>2, <1>3, <1>5 DEF OneConfigEach, Separate
<1> QED BY <1>5, <1>6 DEF q

LEMMA HeadReplaced ==
    ASSUME NEW S, NEW t \in Seq(S), NEW e \in S, Len(t) = 1
    PROVE  Len(<<e>> \o Tail(t)) = 1
<1>1. t # <<>>
  BY FullNotEmpty
<1>2. Tail(t) \in Seq(S)
  BY <1>1
<1>3. Len(Tail(t)) = 0
  <2>1. Len(Tail(t)) = Len(t) - 1
    BY <1>1
  <2> QED BY <2>1
<1>4. <<e>> \in Seq(S) /\ Len(<<e>>) = 1
  OBVIOUS
<1>5. Len(<<e>> \o Tail(t)) = Len(<<e>>) + Len(Tail(t))
  BY <1>2, <1>4
<1> QED BY <1>3, <1>4, <1>5

(* applyNamespaceState leaves each function with one configuration. *)
LEMMA NamespaceKeepsConfigs ==
    ASSUME NEW p \in Package, NEW s \in NamespaceState, Separate(p)
    PROVE  OneConfigEach(ApplyNamespaceState(p, s))
<1> DEFINE q == ApplyNamespaceState(p, s)
<1>0. /\ p.mutator \in Path /\ "none" \notin File /\ "package-context.yaml" \in File
      /\ s.namespace \in Namespace \union {NoName}
      /\ s.setNamespace \in BOOLEAN
  BY DEF Package, File, NamespaceState
<1>1. ASSUME NEW path \in {"none", "package-context.yaml"}
      PROVE  OneConfigEach([WithoutConfig(p, p.mutator) EXCEPT !.mutator = path])
  <2> DEFINE r == WithoutConfig(p, p.mutator)
             w == [r EXCEPT !.mutator = path]
  <2>1. r \in Package
    BY <1>0, FileTypes
  <2>2. /\ r.validator = p.validator
        /\ \A f \in File : f # p.mutator \/ f = "package-context.yaml" =>
               r.files[f] = p.files[f]
    BY <1>0, ConfigDeleted
  <2> HIDE DEF r
  <2>3. w.mutator = path /\ w.validator = p.validator /\ w.files = r.files
    BY <2>1, <2>2 DEF Package
  <2> HIDE DEF w
  <2>4. OneConfigEach(w)
    BY <1>0, <2>2, <2>3 DEF OneConfigEach, Separate
  <2> QED BY <2>4 DEF w, r
<1>2. CASE s.advancedConfiguration
  BY <1>2 DEF ApplyNamespaceState, Separate
<1>3. CASE ~s.advancedConfiguration /\ ~s.setNamespace
  BY <1>1, <1>3 DEF ApplyNamespaceState
<1>4. CASE ~s.advancedConfiguration /\ s.setNamespace /\ p.mutator = "none"
  <2> DEFINE c == IF s.namespaceOption = "user-defined"
                  THEN WithSetNamespace(p, s.namespace)
                  ELSE [p EXCEPT !.mutator = "package-context.yaml"]
             r == [kind |-> "Namespace", local |-> FALSE, namespace |-> s.namespace]
  <2>1. q = IF s.createNamespace THEN WithResource(c, "namespace.yaml", r) ELSE c
    BY <1>4 DEF ApplyNamespaceState, CreateSetNamespace
  <2>2. /\ c \in Package /\ OneConfigEach(c) /\ c.validator = p.validator
        /\ c.mutator \in {"set-namespace.yaml", "package-context.yaml"}
    <3>1. CASE s.namespaceOption = "user-defined"
      BY <1>0, <1>4, <3>1, SetNamespaceHasConfig
    <3>2. CASE s.namespaceOption # "user-defined"
      <4>1. /\ c.mutator = "package-context.yaml" /\ c.validator = p.validator
            /\ c.files = p.files /\ c \in Package
        BY <3>2, FileTypes DEF Package, Path, File
      <4> HIDE DEF c
      <4> QED BY <4>1 DEF OneConfigEach, Separate
    <3> QED BY <3>1, <3>2
  <2> HIDE DEF c
  <2>3. r \in Resource /\ "namespace.yaml" \in File
    BY <1>0 DEF Resource, File
  <2> HIDE DEF r
  <2>4. CASE ~s.createNamespace
    BY <2>1, <2>2, <2>4
  <2>5. CASE s.createNamespace
    <3>1. /\ q.mutator = c.mutator /\ q.validator = c.validator
          /\ \A path \in File \ {"namespace.yaml"} : q.files[path] = c.files[path]
      BY <2>1, <2>2, <2>3, <2>5, FilesChanged
    <3> HIDE DEF q
    <3>2. OneConfigEach(q)
      BY <2>2, <3>1 DEF OneConfigEach, Separate
    <3> QED BY <3>2 DEF q
  <2> QED BY <2>4, <2>5
<1>5. CASE ~s.advancedConfiguration /\ s.setNamespace /\ p.mutator # "none"
  <2>1. q = UpdateSetNamespace(p, s)
    BY <1>5 DEF ApplyNamespaceState
  <2>2. CASE NamespaceOption(p) # s.namespaceOption /\ s.namespaceOption = "user-defined"
    <3>1. q = WithSetNamespace(p, s.namespace) /\ p.mutator # "set-namespace.yaml"
      BY <2>1, <2>2 DEF UpdateSetNamespace, NamespaceOption
    <3> QED BY <1>0, <3>1, SetNamespaceHasConfig
  <2>3. CASE NamespaceOption(p) # s.namespaceOption /\ s.namespaceOption # "user-defined"
    BY <1>1, <2>1, <2>3 DEF UpdateSetNamespace
  <2>4. CASE /\ NamespaceOption(p) = s.namespaceOption /\ s.namespaceOption = "user-defined"
             /\ ConfiguredNamespace(p) # s.namespace /\ IsSetNamespace(p, p.mutator)
    <3> DEFINE e == [Head(p.files[p.mutator]) EXCEPT !.namespace = s.namespace]
               l == <<e>> \o Tail(p.files[p.mutator])
    <3>1. q = WithNamespace(p, s.namespace)
      BY <2>1, <2>4 DEF UpdateSetNamespace
    <3>2. /\ p.mutator \in File /\ p.files[p.mutator] \in Seq(Resource)
          /\ Len(p.files[p.mutator]) = 1 /\ p.files[p.mutator] # <<>>
      BY <2>4 DEF IsSetNamespace, HasConfig, Package, Separate, OneConfigEach
    <3>3. Head(p.files[p.mutator]) \in Resource
      <4> HIDE DEF q, e, l
      <4> QED BY <3>2, HeadType
    <3>4. e \in Resource
      BY <1>0, <3>3 DEF Resource
    <3>5. q.mutator = p.mutator /\ q.validator = p.validator
             /\ q.files = [p.files EXCEPT ![p.mutator] = l]
      BY <3>1 DEF WithNamespace, Package
    <3> HIDE DEF e, q
    <3>6. Len(l) = 1
      BY <3>2, <3>4, HeadReplaced
    <3> HIDE DEF l
    <3>7. p.files \in [File -> Seq(Resource)]
      BY DEF Package
    <3>8. OneConfigEach(q)
      BY <3>2, <3>5, <3>6, <3>7 DEF OneConfigEach, Separate
    <3> QED BY <3>8 DEF q
  <2>5. CASE q = p
    BY <2>5 DEF Separate
  <2> QED BY <2>1, <2>2, <2>3, <2>4, <2>5 DEF UpdateSetNamespace
<1> QED BY <1>0, <1>2, <1>3, <1>4, <1>5

(* A new package has one configuration for each function, and its context. *)
LEMMA NewPackageSeparate ==
    ASSUME TypeOK
    PROVE  /\ Separate(NewPackage)
           /\ NewPackage.validator # "kubeval-config.yaml" =>
                 NewPackage.files["kubeval-config.yaml"] = <<>>
<1>1. CASE request.source = Undefined
  <2> DEFINE p == InitPackage(request.form.info)
             r == LocalConfig("ConfigMap", NoName)
  <2>1. /\ p.mutator = "none" /\ p.validator = "none"
        /\ p.files = [f \in File |-> IF f = "package-context.yaml" THEN <<r>> ELSE <<>>]
    BY DEF InitPackage
  <2>2. Len(<<r>>) = 1
    OBVIOUS
  <2> HIDE DEF p, r
  <2>3. Separate(p) /\ p.files["kubeval-config.yaml"] = <<>>
    BY <2>1, <2>2 DEF Separate, OneConfigEach, File
  <2> QED BY <1>1, <2>3 DEF NewPackage, p
<1>2. CASE request.source # Undefined
  <2>1. NewPackage \in Shape
    BY <1>2 DEF TypeOK, Request, Optional, NewPackage
  <2> QED BY <2>1, SeparateConfigAssumption, OneConfigAssumption DEF Separate
<1> QED BY <1>1, <1>2

LEMMA WriteKeepsConfigs ==
    ASSUME TypeOK, CreatedInv, WriteResources
    PROVE  ConfigFilesExist'
<1> DEFINE form == request.form
           v == ApplyValidateResourcesState(NewPackage, form.kubeval)
           q == ApplyNamespaceState(v, form.namespace)
           w == WithInfo(q, form, request.source)
<1>1. created' = <<w>>
  BY DEF WriteResources, CreatedInv
<1>2. form \in Form /\ NewPackage \in Package
  BY FormTypes, AddPackageAssumption DEF TypeOK, Request, NewPackage, Optional, Form
<1>3. form.kubeval \in BOOLEAN /\ form.namespace \in NamespaceState
  BY <1>2 DEF Form
<1>4. Separate(v)
  BY <1>2, <1>3, NewPackageSeparate, ValidateKeepsSeparate
<1>5. v \in Package
  BY <1>2, <1>3, ApplyTypes
<1> HIDE DEF v
<1>6. OneConfigEach(q) /\ q \in Package
  BY <1>3, <1>4, <1>5, NamespaceKeepsConfigs, ApplyTypes
<1> HIDE DEF q
<1>7. w.mutator = q.mutator /\ w.validator = q.validator /\ w.files = q.files
  BY <1>6 DEF WithInfo, UpdateKptfileInfo, Package
<1> HIDE DEF w
<1>8. OneConfigEach(w) /\ Head(created') = w
  BY <1>1, <1>6, <1>7 DEF OneConfigEach
<1> QED BY <1>8 DEF ConfigFilesExist, OneConfigEach

(* The set-namespace and kubeval functions of the new package have one     *)
(* resource to configure them, and the package context is not deleted.     *)
THEOREM ConfigFilesStay == Spec => []ConfigFilesExist
<1> DEFINE Inv == CreatedInv /\ ConfigFilesExist
<1>1. Init => Inv
  BY DEF Init, Idle, CreatedInv, ConfigFilesExist
<1>2. TypeOK /\ Inv /\ [Next]_vars => Inv'
  <2> SUFFICES ASSUME TypeOK, Inv, [Next]_vars PROVE Inv'
    OBVIOUS
  <2>1. CASE WriteResources
    <3>1. ConfigFilesExist'
      BY <2>1, WriteKeepsConfigs
    <3>2. request'.next = "written"
      BY <2>1 DEF WriteResources, TypeOK, Request
    <3> QED BY <3>1, <3>2 DEF CreatedInv
  <2>2. CASE CreatePackage
    <3>1. /\ request'.next = "configure" /\ created' = <<NewPackage>>
          /\ request'.form = request.form /\ request'.source = request.source
          /\ contents' = contents
      BY <2>2 DEF CreatePackage, TypeOK, Request
    <3>2. NewPackage' = NewPackage
      BY <3>1 DEF NewPackage
    <3> QED BY <3>1, <3>2 DEF CreatedInv, ConfigFilesExist
  <2>3. CASE Confirm \/ FailCreate \/ FailWrite
    <3>1. request'.next \notin {"configure", "written"}
      BY <2>3 DEF Confirm, FailCreate, FailWrite, Idle, TypeOK, Request
    <3> QED BY <3>1 DEF CreatedInv, ConfigFilesExist
  <2>4. CASE UNCHANGED <<contents, request, created>>
    BY <2>4 DEF CreatedInv, ConfigFilesExist, NewPackage
  <2>5. Next => \/ WriteResources \/ CreatePackage \/ Confirm \/ FailCreate \/ FailWrite
                \/ UNCHANGED <<contents, request, created>>
    BY DEF Next, ChooseAction, ChooseSourceRepository, ChooseSource, ChooseTarget,
           AnswerResources, FailResources, TypeName, TypeInfo, SetNamespace,
           CreateNamespace, ChooseNamespaceOption, TypeNamespace, ToggleKubeval, Choose
  <2> QED BY <2>1, <2>2, <2>3, <2>4, <2>5 DEF vars
<1>3. Inv => ConfigFilesExist
  OBVIOUS
<1> QED BY <1>1, <1>2, <1>3, TypeInit, TypeStep, PTL DEF Spec
=============================================================================
