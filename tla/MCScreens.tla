----------------------------- MODULE MCScreens ------------------------------
(***************************************************************************)
(* TLC's instance of the editors and of the registration of repositories.  *)
(* They share nothing, so a behaviour is one of the screen chosen at the   *)
(* start, while the others stay at one of their initial states.            *)
(***************************************************************************)
EXTENDS FormEditor, WorkloadEditor, EditorList, KptFunctionEditor, ParametricEditor,
        RepositoryRegistration

VARIABLE screen

EditorsOf == INSTANCE EditorForms

MCForms ==
  [Container |-> EditorsOf!Container, ContainerSources |-> EditorsOf!ContainerSources,
   ContainerHealth |-> EditorsOf!ContainerHealth, Volume |-> EditorsOf!Volume,
   Ingress |-> EditorsOf!Ingress, Service |-> EditorsOf!Service,
   RoleBinding |-> EditorsOf!RoleBinding, ConfigMap |-> EditorsOf!ConfigMap,
   SetLabels |-> EditorsOf!SetLabels, Namespace |-> EditorsOf!Namespace,
   ServiceAccount |-> EditorsOf!ServiceAccount, ResourceQuota |-> EditorsOf!ResourceQuota,
   Role |-> EditorsOf!Role, Kptfile |-> EditorsOf!Kptfile,
   PackageVariant |-> EditorsOf!PackageVariant,
   PackageVariantSet |-> EditorsOf!PackageVariantSet,
   ApplyReplacements |-> EditorsOf!ApplyReplacements]

\* Three changes where there are choices to make and to take back, two where
\* the accordions only hand on.
MCTexts ==
  [f \in DOMAIN MCForms |->
     IF f \in {"ContainerSources", "ContainerHealth", "Volume", "Service", "ApplyReplacements"}
     THEN <<{"1st"}, {"2nd"}, {"3rd"}>> ELSE <<{"1st"}, {"2nd"}>>]

MCThree == <<"1st", "2nd", "3rd">>
MCFour == <<"1st", "2nd", "3rd", "4th">>

\* Two registries with the same version of f, of which the first in order has
\* not the latest, and a second function with a version of its own.
MCFunctionCatalog == <<"b/f:1", "a/g:3", "a/f:2", "a/f:1">>
MCFunctionName == [i \in Range(MCFunctionCatalog) |-> IF i = "a/g:3" THEN "g" ELSE "f"]
MCFunctionVersion ==
  [i \in Range(MCFunctionCatalog) |-> CASE i = "a/f:2" -> "v2" [] i = "a/g:3" -> "v3" [] OTHER -> "v1"]

MCKeyTexts == {"", "a", "b", "1"}
MCIntegerKeys == <<"1">>

MCTeams == {{"u1"}, {"u1", "u2"}}
MCUrls ==
  [gitTeam |-> [type |-> "git", content |-> "Team", name |-> "gitTeam"],
   ociOrg |-> [type |-> "oci", content |-> "Organizational", name |-> "ociOrg"],
   other |-> [type |-> "", content |-> "", name |-> "other"]]
MCTypedNames == {"typed"}
MCFormEdits == <<3, 2>>

-----------------------------------------------------------------------------
AllVars == <<formVars, workloadVars, listVars, functionVars, pxeVars, registrationVars>>

ScreensInit ==
  /\ screen \in {"form", "workload", "list", "function", "parametric", "registration"}
  /\ screen # "form" => form = "ServiceAccount"
  /\ FormInit
  /\ WorkloadInit
  /\ screen # "workload" =>
       workload = [kind |-> "Deployment", strategyType |-> "Recreate"] /\ state.securityContext = None
  /\ ListInit
  /\ screen # "list" => listKind = "sent" /\ rows = <<>>
  /\ FunctionInit
  /\ screen # "function" => readImage = NoImage
  /\ PxeInit
  /\ screen # "parametric" => roster = Rosters.cnis /\ itemChunks = <<>>
  /\ RegistrationInit
  /\ screen # "registration" => team = {"u1"} /\ repositories = {}

OtherVars(s) ==
  /\ s # "form" => UNCHANGED formVars
  /\ s # "workload" => UNCHANGED workloadVars
  /\ s # "list" => UNCHANGED listVars
  /\ s # "function" => UNCHANGED functionVars
  /\ s # "parametric" => UNCHANGED pxeVars
  /\ s # "registration" => UNCHANGED registrationVars

ScreensNext ==
  /\ UNCHANGED screen
  /\ OtherVars(screen)
  /\ \/ screen = "form" /\ FormNext
     \/ screen = "workload" /\ WorkloadNext
     \/ screen = "list" /\ ListNext
     \/ screen = "function" /\ FunctionNext
     \/ screen = "parametric" /\ PxeNext
     \/ screen = "registration" /\ RegistrationNext

ScreensSpec == ScreensInit /\ [][ScreensNext]_<<screen, AllVars>>
=============================================================================
