------------------------------ MODULE KptPipeline ------------------------------
(***************************************************************************)
(* What the add package wizard knows of a package: the set-namespace and   *)
(* kubeval functions of its Kptfile, and the files that configure them     *)
(* (AddPackagePage/utils and utils/packageRevisionResources.ts).  All      *)
(* operators are pure.  A function is known by its configPath: the other   *)
(* functions of the pipeline are left alone by this code.                  *)
(***************************************************************************)
EXTENDS Sequences

CONSTANTS
    Namespace,   \* names of namespaces and of packages, which may be the same
    Info         \* descriptions, keywords and sites of packages

NoName == ""

File ==
    {"package-context.yaml", "set-namespace.yaml", "kubeval-config.yaml",
     "namespace.yaml", "function-config.yaml"}

Resource ==
    [kind : {"ConfigMap", "SetNamespace", "Namespace"}, local : BOOLEAN,
     namespace : Namespace \union {NoName}]

(* Where a function has its configuration: `none' without a function. *)
Path == File \union {"none", "inline"}

Package ==
    [mutator : Path, validator : Path, files : [File -> Seq(Resource)], info : Info]

NamespaceState ==
    [setNamespace : BOOLEAN, createNamespace : BOOLEAN,
     namespaceOption : {"", "user-defined", "deployment"},
     namespace : Namespace \union {NoName}, advancedConfiguration : BOOLEAN]

LocalConfig(kind, n) == [kind |-> kind, local |-> TRUE, namespace |-> n]

-----------------------------------------------------------------------------
(* Reading a package                                                       *)

(* findKptfileFunctionConfig: the first resource of the file *)
HasConfig(p, path) == path \in File /\ p.files[path] # <<>>

Config(p, path) == Head(p.files[path])

IsSetNamespace(p, path) ==
    HasConfig(p, path) /\ Config(p, path).kind = "SetNamespace"

(* Mutant: the file is taken for the option. *)
PathAsOption(p) == IF p.mutator = "none" THEN "" ELSE p.mutator

NamespaceOption(p) ==
    CASE p.mutator = "none" -> ""
      [] p.mutator = "package-context.yaml" -> "deployment"
      [] OTHER -> "user-defined"

ConfiguredNamespace(p) ==
    IF NamespaceOption(p) = "user-defined" /\ IsSetNamespace(p, p.mutator)
    THEN Config(p, p.mutator).namespace
    ELSE NoName

GetNamespaceState(p) ==
    [setNamespace |-> p.mutator # "none",
     createNamespace |-> FALSE,
     namespaceOption |-> NamespaceOption(p),
     namespace |-> ConfiguredNamespace(p),
     advancedConfiguration |->
        NamespaceOption(p) = "user-defined" /\ ConfiguredNamespace(p) = NoName]

NamespaceDefaultState ==
    [setNamespace |-> TRUE, createNamespace |-> FALSE,
     namespaceOption |-> "user-defined", namespace |-> NoName,
     advancedConfiguration |-> FALSE]

SetKubeval(p) == p.validator # "none"

-----------------------------------------------------------------------------
(* Changing a package                                                      *)

(* addResourceToResourcesMap: at the end of the file *)
WithResource(p, f, r) == [p EXCEPT !.files[f] = Append(@, r)]

(* Mutant: the package context is deleted like other configurations. *)
DeletableContext(p, path) == HasConfig(p, path) /\ Config(p, path).local

IsConfigDeletable(p, path) ==
    HasConfig(p, path) /\ Config(p, path).local /\ path # "package-context.yaml"

(* removeResourceFromResourcesMap, of the first resource *)
WithoutConfig(p, path) ==
    IF IsConfigDeletable(p, path) THEN [p EXCEPT !.files[path] = Tail(@)] ELSE p

WithSetNamespace(p, n) ==
    [WithResource(p, "set-namespace.yaml", LocalConfig("SetNamespace", n))
        EXCEPT !.mutator = "set-namespace.yaml"]

(* The function is new.  Only `user-defined' has a file of its own. *)
CreateSetNamespace(p, s) ==
    LET q == IF s.namespaceOption = "user-defined"
             THEN WithSetNamespace(p, s.namespace)
             ELSE [p EXCEPT !.mutator = "package-context.yaml"]
    IN
    IF s.createNamespace
    THEN WithResource(q, "namespace.yaml",
            [kind |-> "Namespace", local |-> FALSE, namespace |-> s.namespace])
    ELSE q

(* updateResourceInResourcesMap, of the function's configuration *)
WithNamespace(p, n) ==
    [p EXCEPT !.files[p.mutator] = <<[Head(@) EXCEPT !.namespace = n]>> \o Tail(@)]

(* Mutant: an option that has changed is not looked at. *)
UpdateNamespaceOnly(p, s) ==
    IF s.namespaceOption = "user-defined" /\ IsSetNamespace(p, p.mutator)
    THEN WithNamespace(p, s.namespace)
    ELSE p

UpdateSetNamespace(p, s) ==
    CASE NamespaceOption(p) # s.namespaceOption /\ s.namespaceOption = "user-defined"
            -> WithSetNamespace(p, s.namespace)
      [] NamespaceOption(p) # s.namespaceOption /\ s.namespaceOption # "user-defined"
            -> [WithoutConfig(p, p.mutator) EXCEPT !.mutator = "package-context.yaml"]
      [] /\ NamespaceOption(p) = s.namespaceOption /\ s.namespaceOption = "user-defined"
         /\ ConfiguredNamespace(p) # s.namespace /\ IsSetNamespace(p, p.mutator)
            -> WithNamespace(p, s.namespace)
      [] OTHER -> p

ApplyNamespaceState(p, s) ==
    CASE s.advancedConfiguration -> p
      [] ~s.advancedConfiguration /\ s.setNamespace /\ p.mutator = "none"
            -> CreateSetNamespace(p, s)
      [] ~s.advancedConfiguration /\ s.setNamespace /\ p.mutator # "none"
            -> UpdateSetNamespace(p, s)
      [] OTHER -> [WithoutConfig(p, p.mutator) EXCEPT !.mutator = "none"]

ApplyValidateResourcesState(p, setKubeval) ==
    CASE setKubeval /\ ~SetKubeval(p)
            -> [WithResource(p, "kubeval-config.yaml", LocalConfig("ConfigMap", NoName))
                   EXCEPT !.validator = "kubeval-config.yaml"]
      [] ~setKubeval /\ SetKubeval(p)
            -> [WithoutConfig(p, p.validator) EXCEPT !.validator = "none"]
      [] OTHER -> p

UpdateKptfileInfo(p, i) == [p EXCEPT !.info = i]

=============================================================================
