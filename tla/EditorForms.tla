---------------------------- MODULE EditorForms -----------------------------
(***************************************************************************)
(* The form editors of the resources of a package: which accordion lies in *)
(* which, which fields it edits and how it treats them.  Controls of one   *)
(* accordion that behave alike are one field, a list is one field of the   *)
(* form it lies in (what happens inside a list is EditorList), and one     *)
(* element of it is the accordion that edits an element.                   *)
(***************************************************************************)
EXTENDS TLC, Sequences, Functions

\* An accordion whose controls all set a field of its copy and send the copy.
Plain(in, edits) ==
  [in |-> in,             \* the accordions around it, outermost first
   edits |-> edits,       \* the fields it has a control for
   keeps |-> {},          \* fields it only hands on
   late |-> {},           \* fields sent as they were before the change
   choice |-> <<>>,       \* field -> option -> fields of that option
   default |-> <<>>,      \* field -> option; these are not in the resource
   erases |-> <<>>,       \* field -> option -> fields the copy loses
   blanks |-> {},         \* fields the copy holds even if absent
   sets |-> <<>>,         \* field -> fields set along with it
   rederives |-> <<>>]    \* field -> choices made anew along with it

Own(a) == a.edits \cup a.keeps \cup DOMAIN a.choice

\* An accordion hands on what the accordions in it send.
Form(accordions) ==
  [n \in DOMAIN accordions |->
     accordions[n] @@
     [holds |-> Own(accordions[n]) \cup
        UNION {Own(accordions[d]) \ DOMAIN accordions[d].default :
                 d \in {k \in DOMAIN accordions : n \in Range(accordions[k].in)}}]]

Flag(fields) == [on |-> fields, off |-> {}]

-----------------------------------------------------------------------------
(* A container of a Deployment or a StatefulSet, whose editor holds the     *)
(* containers in a list of its own.                                         *)

ContainerEditor(in) == Plain(in, {"name", "image", "tag"})
CommandArgs(in) == Plain(in, {"command", "args"})
Environment(in) == Plain(in, {})
Networking(in) == Plain(in, {})
ContainerPort(in) == Plain(in, {"portName", "protocol", "containerPort"})
ContainerStorage(in) == Plain(in, {})
\* choosing a volume also fills a mount path that is empty: it is not, here
VolumeMount(in) == Plain(in, {"mountName", "mountPath", "readOnly"})
ResourceLimits(in) == Plain(in, {"requests", "limits"})
ImageOptions(in) == Plain(in, {"imagePullPolicy", "imagePullSecrets"})
ContainerSecurity(in) == Plain(in, {"capabilities", "securityContext"})

\* The references lie in one object the copy shares with what is sent, so a
\* reference that is not sent is lost, except while the value is inline: the
\* object is then left out as a whole.
EnvVar(in) ==
  LET refs == [configMap |-> {"configMapKeyRef"}, podField |-> {"fieldRef"},
               resourceField |-> {"resourceFieldRef"}, secret |-> {"secretKeyRef"}]
      allRefs == UNION Range(refs)
  IN  [Plain(in, {"envName", "envValue"} \cup allRefs) EXCEPT
         !.choice = "envSource" :> ([inline |-> {"envValue"}] @@ refs),
         !.default = "envSource" :> "inline",
         !.erases = "envSource" :> [s \in DOMAIN refs |-> allRefs \ refs[s]]]

EnvFromSource(in) ==
  [Plain(in, {"configMapRef", "secretRef"}) EXCEPT
     !.choice = "fromSource" :> [configMap |-> {"configMapRef"}, secret |-> {"secretRef"}],
     !.default = "fromSource" :> "configMap"]

\* The check boxes are kept with useState: what is sent when one is changed
\* follows the boxes as they were.
Health(in) ==
  [Plain(in, {}) EXCEPT
     !.choice = [useStartupProbe |-> Flag({"httpGet", "exec", "tcpSocket", "timing"}),
                 useReadinessProbe |-> Flag({"readinessProbe"})],
     !.default = [useStartupProbe |-> "off", useReadinessProbe |-> "off"],
     !.late = {"useStartupProbe", "useReadinessProbe"}]

Probe(in) ==
  [Plain(in, {"httpGet", "exec", "tcpSocket", "timing"}) EXCEPT
     !.choice = "probeHandler" :> [http |-> {"httpGet"}, exec |-> {"exec"}, tcp |-> {"tcpSocket"}],
     !.default = "probeHandler" :> "http"]
\* the readiness and the liveness probe, in the same accordion: one field
OtherProbe(in) == Plain(in, {"readinessProbe"})

Container ==
  LET top == <<"editor">>
      part == <<"editor", "container">>
  IN  Form([editor |-> Plain(<<>>, {}),
            container |-> ContainerEditor(top),
            commandArgs |-> CommandArgs(part),
            networking |-> Networking(part),
            port |-> ContainerPort(part \o <<"networking">>),
            storage |-> ContainerStorage(part),
            volumeMount |-> VolumeMount(part \o <<"storage">>),
            resources |-> ResourceLimits(part),
            imageOptions |-> ImageOptions(part),
            security |-> ContainerSecurity(part)])

ContainerSources ==
  LET part == <<"editor", "container">>
  IN  Form([editor |-> Plain(<<>>, {}),
            container |-> [ContainerEditor(<<"editor">>) EXCEPT !.edits = {"name"}],
            environment |-> Environment(part),
            env |-> EnvVar(part \o <<"environment">>),
            envFrom |-> EnvFromSource(part \o <<"environment">>)])

ContainerHealth ==
  LET part == <<"editor", "container">>
  IN  Form([editor |-> Plain(<<>>, {}),
            container |-> [ContainerEditor(<<"editor">>) EXCEPT !.edits = {"name"}],
            health |-> Health(part),
            startup |-> Probe(part \o <<"health">>),
            readiness |-> OtherProbe(part \o <<"health">>)])

-----------------------------------------------------------------------------
(* A volume of a pod.  Which keys of a config map or a secret are used is a *)
(* list that is there or not; unchecking the box loses it.                  *)

VolumeEditor(in) ==
  [Plain(in, {"volumeName", "configMap", "secret", "claim"}) EXCEPT
     !.keeps = {"emptyDir"},
     !.choice = [volumeSource |-> [emptyDir |-> {"emptyDir"}, configMap |-> {"configMap", "configMapItems"},
                                   secret |-> {"secret", "secretItems"}, claim |-> {"claim"}],
                 useConfigMapItems |-> Flag({"configMapItems"}),
                 useSecretItems |-> Flag({"secretItems"})],
     !.default = [volumeSource |-> "emptyDir", useConfigMapItems |-> "off", useSecretItems |-> "off"],
     !.erases = [useConfigMapItems |-> [off |-> {"configMapItems"}],
                 useSecretItems |-> [off |-> {"secretItems"}]],
     !.rederives = "volumeSource" :> {"useConfigMapItems", "useSecretItems"}]
VolumeItems(in) == Plain(in, {})
VolumeItem(in, field) == Plain(in, {field})
VolumeStorage(in) == Plain(in, {})

Volume ==
  LET part == <<"editor", "podDetails", "volumes", "volume">>
  IN  Form([editor |-> Plain(<<>>, {}),
            podDetails |-> Plain(<<"editor">>, {}),
            volumes |-> VolumeStorage(<<"editor", "podDetails">>),
            volume |-> VolumeEditor(<<"editor", "podDetails", "volumes">>),
            configMapKeys |-> VolumeItems(part),
            configMapKey |-> VolumeItem(part \o <<"configMapKeys">>, "configMapItems"),
            secretKeys |-> VolumeItems(part),
            secretKey |-> VolumeItem(part \o <<"secretKeys">>, "secretItems")])

-----------------------------------------------------------------------------
(* Ingress, Service, RoleBinding                                            *)

Metadata(in) == Plain(in, {"metadataName", "labels"})

CustomController(in) ==
  [Plain(in, {"ingressClassName"}) EXCEPT
     !.choice = "useCustomController" :> Flag({"ingressClassName"}),
     !.default = "useCustomController" :> "off",
     !.blanks = {"ingressClassName"}]
DefaultBackend(in) ==
  [Plain(in, {}) EXCEPT
     !.choice = "useDefaultBackend" :> Flag({"defaultService"}),
     !.default = "useDefaultBackend" :> "off",
     !.blanks = {"defaultService"}]
IngressBackendPanel(in, field) == Plain(in, {field})
IngressTLS(in) == Plain(in, {"hosts", "secretName"})
IngressRule(in) == Plain(in, {"host"})
HTTPPathRule(in) == Plain(in, {"pathType", "path"})

Ingress ==
  LET top == <<"editor">>
  IN  Form([editor |-> Plain(<<>>, {}),
            metadata |-> Metadata(top),
            customController |-> CustomController(top),
            defaultBackend |-> DefaultBackend(top),
            defaultPanel |-> IngressBackendPanel(<<"editor", "defaultBackend">>, "defaultService"),
            tls |-> IngressTLS(top),
            rule |-> IngressRule(top),
            path |-> HTTPPathRule(<<"editor", "rule">>),
            panel |-> IngressBackendPanel(<<"editor", "rule", "path">>, "backendService")])

\* What the type of the service has no use for is kept in the state of the
\* editor, and not written.
ServiceEditor ==
  LET ports == {"portName", "port", "targetPort", "selector"}
  IN  [Plain(<<>>, {"externalName", "externalTrafficPolicy", "selector"}) EXCEPT
         !.choice = "type" :> [ExternalName |-> {"externalName"},
                               ClusterIP |-> ports,
                               NodePort |-> ports \cup {"nodePort", "externalTrafficPolicy"},
                               LoadBalancer |-> ports \cup {"nodePort", "externalTrafficPolicy"}]]
ServicePort(in) == Plain(in, {"portName", "nodePort", "port", "targetPort"})

Service ==
  Form([editor |-> ServiceEditor,
        metadata |-> Metadata(<<"editor">>),
        servicePort |-> ServicePort(<<"editor">>)])

\* Choosing the kind of the role or of the subject sets the API group, too.
RoleBindingEditor ==
  [Plain(<<>>, {"roleRefKind", "roleRefName"}) EXCEPT
     !.keeps = {"roleRefApiGroup"}, !.sets = "roleRefKind" :> {"roleRefApiGroup"}]
Subject(in) ==
  [Plain(in, {"subjectKind", "subjectName"}) EXCEPT
     !.keeps = {"subjectApiGroup"}, !.sets = "subjectKind" :> {"subjectApiGroup"}]

RoleBinding ==
  Form([editor |-> RoleBindingEditor,
        metadata |-> Metadata(<<"editor">>),
        subject |-> Subject(<<"editor">>)])

-----------------------------------------------------------------------------
(* The small forms: the editor writes each part its accordions send.        *)

KeyValues(in, field) == Plain(in, {field})
ClusterMetadata(in) == Plain(in, {"metadataName", "annotations"})

ConfigMap ==
  Form([editor |-> Plain(<<>>, {}),
        metadata |-> Metadata(<<"editor">>),
        data |-> KeyValues(<<"editor">>, "data")])
SetLabels ==
  Form([editor |-> Plain(<<>>, {}),
        metadata |-> ClusterMetadata(<<"editor">>),
        setLabels |-> KeyValues(<<"editor">>, "setLabels")])
Namespace ==
  Form([editor |-> Plain(<<>>, {}), metadata |-> ClusterMetadata(<<"editor">>)])
ServiceAccount ==
  Form([editor |-> Plain(<<>>, {}), metadata |-> Metadata(<<"editor">>)])

ResourceQuotaEditor == Plain(<<>>, {"requestsCpu", "requestsMemory", "limitsCpu", "limitsMemory"})
ResourceQuota ==
  Form([editor |-> ResourceQuotaEditor, metadata |-> Metadata(<<"editor">>)])

RoleRule(in) == Plain(in, {"apiGroups", "resources", "verbs"})
Role ==
  Form([editor |-> Plain(<<>>, {}),
        metadata |-> Metadata(<<"editor">>),
        rule |-> RoleRule(<<"editor">>)])

-----------------------------------------------------------------------------
(* The Kptfile and the package variants.  A function of a pipeline is one   *)
(* field here; its accordion is KptFunctionEditor.                          *)

KptfileInfo(in) == Plain(in, {"description", "keywords", "site", "readinessGates"})
KptFunction(in, field) == Plain(in, {field})
Kptfile ==
  LET top == <<"editor">>
  IN  Form([editor |-> Plain(<<>>, {}),
            metadata |-> ClusterMetadata(top),
            info |-> KptfileInfo(top),
            mutator |-> KptFunction(top, "mutators"),
            validator |-> KptFunction(top, "validators")])

\* A repository or a package that is chosen leaves the other fields as they are.
UpstreamPackage(in) == Plain(in, {"upstreamRepo", "upstreamPackage", "revision"})
DownstreamPackage(in) == Plain(in, {"downstreamRepo", "downstreamPackage"})
PackageContext(in) == Plain(in, {"removeKeys"})
\* its own effect puts the functions into the object it shares with the form
Pipeline(in) == Plain(in, {})
Injectors(in) == Plain(in, {"injectors"})
PackageVariantSpec(in) == Plain(in, {"adoptionPolicy", "deletionPolicy"})

PackageVariant ==
  LET spec == <<"editor", "spec">>
  IN  Form([editor |-> Plain(<<>>, {}),
            metadata |-> Metadata(<<"editor">>),
            spec |-> PackageVariantSpec(<<"editor">>),
            specLabels |-> KeyValues(spec, "specLabels"),
            upstream |-> UpstreamPackage(spec),
            downstream |-> DownstreamPackage(spec),
            context |-> PackageContext(spec),
            contextData |-> KeyValues(spec \o <<"context">>, "contextData"),
            pipeline |-> Pipeline(spec),
            mutator |-> KptFunction(spec \o <<"pipeline">>, "mutators"),
            injectors |-> Injectors(spec)])

\* Each kind of target, with the template of the first: the three are alike.
\* Here all of them have a template from the start.
Targets(in) == Plain(in, {})
Repositories(in) == Plain(in, {"repositoryName", "packageNames"})
RepositorySelector(in) == Plain(in, {})
ObjectSelector(in) == Plain(in, {"apiVersion", "objectKind"})
Template(in) == Plain(in, {"adoptionPolicy", "deletionPolicy"})
Exprs(in, field) == Plain(in, {field})
TemplateDownstream(in) ==
  Plain(in, {"downstreamRepo", "downstreamPackage", "repoExpr", "packageExpr"})
TemplateContext(in) == Plain(in, {"removeKeys", "removeKeyExprs"})

PackageVariantSet ==
  LET targets == <<"editor", "targets">>
      template == targets \o <<"repositories", "template">>
  IN  Form([editor |-> Plain(<<>>, {}),
            metadata |-> Metadata(<<"editor">>),
            upstream |-> UpstreamPackage(<<"editor">>),
            targets |-> Targets(<<"editor">>),
            repositories |-> Repositories(targets),
            repositorySelector |-> RepositorySelector(targets),
            repositoryLabels |-> KeyValues(targets \o <<"repositorySelector">>, "repositoryLabels"),
            objectSelector |-> ObjectSelector(targets),
            objectLabels |-> KeyValues(targets \o <<"objectSelector">>, "objectLabels"),
            template |-> Template(targets \o <<"repositories">>),
            templateLabels |-> KeyValues(template, "templateLabels"),
            labelExprs |-> Exprs(template, "labelExprs"),
            downstream |-> TemplateDownstream(template),
            context |-> TemplateContext(template),
            contextData |-> KeyValues(template \o <<"context">>, "contextData"),
            dataExprs |-> Exprs(template \o <<"context">>, "dataExprs"),
            pipeline |-> Pipeline(template),
            mutator |-> KptFunction(template \o <<"pipeline">>, "mutators"),
            injectors |-> Injectors(template)])
-----------------------------------------------------------------------------
(* ApplyReplacements: the first replacement, and its first target.  A       *)
(* resource is chosen by kind and name at once; the delimiter of a partial  *)
(* value and the part it picks are one field.                               *)

ApplyReplacementsEditor ==
  [Plain(<<>>, {"sourceResource", "sourcePath", "targetResource", "targetPath", "options"}) EXCEPT
     !.choice = "replaceValueOption" :> [Full |-> {}, Partial |-> {"options"}],
     !.default = "replaceValueOption" :> "Full"]
ApplyReplacements ==
  Form([editor |-> ApplyReplacementsEditor, metadata |-> ClusterMetadata(<<"editor">>)])
=============================================================================
