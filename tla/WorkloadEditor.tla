--------------------------- MODULE WorkloadEditor ---------------------------
(***************************************************************************)
(* The form of a Deployment or a StatefulSet.  Unlike the other forms its  *)
(* details and its pod accordions both hold a shallow copy of the whole    *)
(* state of the editor, made when they are mounted, and both send all of   *)
(* it.  What is an object (the strategy, the security context, the list of *)
(* volumes) is shared by the copies; what is a number or a text is not.    *)
(*                                                                         *)
(* replicas stands for the numbers and texts of the details, minReady for  *)
(* those of the update strategy in them, restartPolicy for those of the    *)
(* pod; metadata, selector and containers, which no copy takes back, are   *)
(* parts of the forms in EditorForms.                                      *)
(***************************************************************************)
EXTENDS Naturals, Sequences, Deletable

CONSTANTS EditValues \* the value typed with the i-th edit

VARIABLES workload,     \* the kind, and the type a Deployment's form shows
          state,        \* field -> value: the state of the editor
          copies,       \* accordion -> field -> value: what it holds and sends
          current,      \* the copy the details of a StatefulSet hold now
          held,         \* the copy the details held before the last edit, for the properties
          objects,      \* the objects the copies share
          workloadYaml, \* field -> value: the YAML as last written
          workloadEdits \* the number of edits so far

workloadVars == <<workload, state, copies, current, held, objects,
                  workloadYaml, workloadEdits>>

None == "none"
Was == "read"
Ref == "ref"   \* the object of that name in objects
NoStrategy == [type |-> None, rollingUpdate |-> None]
Kinds == {"Deployment", "StatefulSet"}
OwnParts == {"replicas", "minReady", "restartPolicy"}
Shared == {"strategy", "securityContext"}
Parts == OwnParts \cup Shared \cup {"volumes"}
DetailsOwn == {"replicas", "minReady"}
MaxWorkloadEdits == Len(EditValues)

ASSUME EditValuesAssumption == EditValues \in Seq(STRING)

NextValue == EditValues[workloadEdits + 1]

\* the type that the strategy of the kind has besides RollingUpdate
OtherType == [Deployment |-> "Recreate", StatefulSet |-> "OnDelete"]
Types == {"RollingUpdate", OtherType[workload.kind]}
TypeShown == IF workload.kind = "Deployment" THEN workload.strategyType ELSE objects.strategy.type

-----------------------------------------------------------------------------
ListRead == [is |-> Ref, list |-> <<>>]
\* Mutant of ListSent: the last volume but one is the last.
ListSentOffByOne(list) == [is |-> IF Len(list) <= 1 THEN None ELSE "sent", list |-> list]
ListSent(list) == [is |-> IF list = <<>> THEN None ELSE "sent", list |-> list]

\* the effect of the editor
YamlOf(s, objs) ==
  [p \in Parts |->
     CASE p \in OwnParts -> s[p]
       [] p = "volumes" -> IF s.volumes = ListRead THEN objs.volumes ELSE s.volumes.list
       [] p \in Shared -> IF s[p] = Ref THEN objs[p]
                          ELSE IF p = "strategy" THEN NoStrategy ELSE None]

Crashed == state.volumes.is = None

\* Mutant of Send: the YAML has the objects as they were.
SendOldObjects(copy, objs) ==
  /\ state' = copy
  /\ workloadYaml' = IF copy.volumes.is = None THEN workloadYaml ELSE YamlOf(copy, objects)
  /\ objects' = objs
  /\ held' = copies[current]
  /\ workloadEdits' = workloadEdits + 1

\* The editor merges what it is sent.  Without a list of volumes its effect
\* throws, and the page is gone.
Send(copy, objs) ==
  /\ state' = copy
  /\ workloadYaml' = IF copy.volumes.is = None THEN workloadYaml ELSE YamlOf(copy, objs)
  /\ objects' = objs
  /\ held' = copies[current]
  /\ workloadEdits' = workloadEdits + 1

WorkloadInit ==
  /\ \E kind \in Kinds : \E type \in {"RollingUpdate", OtherType[kind]} :
       /\ \E strategy, context \in {Ref, None} :
            /\ workload = [kind |-> kind,
                           strategyType |-> IF strategy = Ref THEN type ELSE "RollingUpdate"]
            /\ state = [p \in Parts |->
                          CASE p \in OwnParts -> Was
                            [] p = "strategy" -> strategy
                            [] p = "securityContext" -> context
                            [] p = "volumes" -> ListRead]
            /\ objects = [strategy |-> [type |-> IF strategy = Ref THEN type ELSE None,
                                        rollingUpdate |-> IF strategy = Ref /\ type = "RollingUpdate"
                                                          THEN Was ELSE None],
                          securityContext |-> IF context = Ref THEN Was ELSE None,
                          volumes |-> <<[value |-> Was, isDeleted |-> FALSE]>>]
  /\ copies = [c \in {"first", "later", "pod"} |-> state]
  /\ current = "first" /\ held = state
  /\ workloadYaml = YamlOf(state, objects)
  /\ workloadEdits = 0

MayEdit == workloadEdits < MaxWorkloadEdits /\ ~ Crashed

-----------------------------------------------------------------------------
(* The details.  The strategy accordion of a StatefulSet goes on editing     *)
(* the copy the details were mounted with, and each of its edits gives the   *)
(* details a new copy, while what they send is the one they had.             *)

TypeReplicas ==
  /\ MayEdit
  /\ copies' = [copies EXCEPT ![current].replicas = NextValue]
  /\ Send(copies'[current], objects)
  /\ UNCHANGED <<workload, current>>

\* The rolling update of a strategy of another type is dropped from the object.
Normalized(kind, type, strategy) ==
  [type |-> IF kind = "Deployment" THEN type ELSE strategy.type,
   rollingUpdate |-> IF (IF kind = "Deployment" THEN type ELSE strategy.type) = "RollingUpdate"
                     THEN strategy.rollingUpdate ELSE None]

\* Mutant of UpdateStrategy: the details send the copy they had before.
UpdateStrategyLate(first, strategy) ==
  /\ copies' = [copies EXCEPT !.first = first]
  /\ Send(copies.first, [objects EXCEPT !.strategy = strategy])
  /\ UNCHANGED current

UpdateStrategy(first, strategy) ==
  LET normalized == IF first.strategy = Ref
                    THEN Normalized(workload.kind, workload.strategyType, strategy) ELSE strategy
      objs == [objects EXCEPT !.strategy = normalized]
  IN  /\ IF workload.kind = "Deployment"
         THEN /\ copies' = [copies EXCEPT !.first = first]
              /\ Send(first, objs)
              /\ UNCHANGED current
         ELSE /\ copies' = [copies EXCEPT !.first = first, !.later = first]
              /\ Send(IF current = "first" THEN first ELSE copies.later, objs)
              /\ current' = "later"

TypeMinReady ==
  /\ MayEdit
  /\ UpdateStrategy([copies.first EXCEPT !.minReady = NextValue], objects.strategy)
  /\ UNCHANGED workload

\* of a Deployment the type is kept with useState: sent is the one before
ChooseType(type) ==
  /\ MayEdit /\ type # TypeShown
  /\ IF workload.kind = "Deployment"
     THEN /\ UpdateStrategy(copies.first, objects.strategy)
          /\ workload' = [workload EXCEPT !.strategyType = type]
     ELSE /\ UpdateStrategy([copies.first EXCEPT !.strategy = Ref],
                            [objects.strategy EXCEPT !.type = type])
          /\ UNCHANGED workload

RollingUpdateShown ==
  TypeShown = "RollingUpdate" \/ (workload.kind = "StatefulSet" /\ copies.first.strategy = None)
TypeMaxUnavailable ==
  /\ MayEdit /\ RollingUpdateShown
  /\ UpdateStrategy([copies.first EXCEPT !.strategy = Ref],
                    [objects.strategy EXCEPT !.rollingUpdate = NextValue])
  /\ UNCHANGED workload

-----------------------------------------------------------------------------
(* The pod                                                                  *)

SendPod(pod, objs) ==
  /\ copies' = [copies EXCEPT !.pod = pod]
  /\ Send(pod, objs)
  /\ UNCHANGED <<workload, current>>

TypeRestartPolicy ==
  /\ MayEdit
  /\ SendPod([copies.pod EXCEPT !.restartPolicy = NextValue], objects)

TypeRunAsUser ==
  /\ MayEdit
  /\ SendPod([copies.pod EXCEPT !.securityContext = Ref],
             [objects EXCEPT !.securityContext = NextValue])

\* Mutant of UpdateVolumes: the list is sent before it is changed.
UpdateVolumesLate(list) ==
  SendPod([copies.pod EXCEPT !.volumes = ListSent(getActiveElements(objects.volumes))],
          [objects EXCEPT !.volumes = list])

UpdateVolumes(list) ==
  SendPod([copies.pod EXCEPT !.volumes = ListSent(getActiveElements(list))],
          [objects EXCEPT !.volumes = list])

AddVolume == MayEdit /\ UpdateVolumes(Append(objects.volumes, [value |-> NextValue, isDeleted |-> FALSE]))
ShownVolumes == {i \in DOMAIN objects.volumes : ~ objects.volumes[i].isDeleted}
TypeVolume(i) == MayEdit /\ UpdateVolumes([objects.volumes EXCEPT ![i].value = NextValue])
DeleteVolume(i) == MayEdit /\ UpdateVolumes([objects.volumes EXCEPT ![i].isDeleted = TRUE])

DetailsEdit == TypeReplicas \/ TypeMinReady \/ TypeMaxUnavailable \/ \E t \in Types : ChooseType(t)
PodEdit ==
  TypeRestartPolicy \/ TypeRunAsUser \/ AddVolume
    \/ \E i \in ShownVolumes : TypeVolume(i) \/ DeleteVolume(i)
WorkloadNext == DetailsEdit \/ PodEdit
WorkloadSpec == WorkloadInit /\ [][WorkloadNext]_workloadVars

-----------------------------------------------------------------------------
(* Properties                                                               *)

InYaml(fields, copy) == \A p \in fields : workloadYaml[p] = copy[p]
AsRead(fields) == \A p \in fields : workloadYaml[p] = Was

\* Of the numbers and texts of the two accordions, the YAML has those of one
\* as they were typed and those of the other as they were read: an edit takes
\* back the other accordion's, as a whole, and never mixes them.  The details of
\* a StatefulSet may be sent as they were before the last edit, but not earlier.
TakenBackAsAWhole ==
  ~ Crashed =>
    \/ /\ InYaml({"restartPolicy"}, copies.pod)
       /\ AsRead(DetailsOwn)
    \/ /\ AsRead({"restartPolicy"})
       /\ \/ InYaml(DetailsOwn, copies[current])
          \/ workload.kind = "StatefulSet" /\ InYaml(DetailsOwn, held)

\* A strategy or a security context the resource has is never taken back, as
\* the copies share it: the YAML has what its accordion holds.
SharedPartsNeverTakenBack ==
  ~ Crashed =>
    \A p \in Shared : copies.pod[p] = Ref /\ copies.first[p] = Ref =>
      workloadYaml[p] = objects[p]

\* The volumes in the YAML are those shown.  Those deleted are there too, with
\* a mark, once the details have sent the list that was read.
VolumesAreThoseShown ==
  ~ Crashed => getActiveElements(workloadYaml.volumes) = getActiveElements(objects.volumes)

\* The editor fails only when its last volume is deleted.
FailsOnLastVolumeOnly == Crashed => ShownVolumes = {}
=============================================================================
