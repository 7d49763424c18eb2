------------------------------- MODULE Porch -------------------------------
(***************************************************************************)
(* The revisions of one package as the Porch API server keeps them.        *)
(*                                                                         *)
(* Porch is not part of the repository: this module holds only what the    *)
(* plugin's code relies on when it calls the server through PorchRestApi.  *)
(*   - A new revision is addressed by its workspace name, `v1', `v2', ...  *)
(*     (getNextPackageRevisionResource), and creating a taken name fails.  *)
(*   - A PUT carries the resourceVersion of the copy it was made from and  *)
(*     is refused unless the object still has that version; a PUT without  *)
(*     one (version 0 here) is unconditional.                              *)
(*   - A PackageRevision and its PackageRevisionResources are two views of *)
(*     one object, so every accepted write changes the version of both.    *)
(*   - Resources are replaced only while the revision is a Draft.          *)
(*   - Approval assigns the revision number: one more than the highest     *)
(*     published number.  The published revision with the highest number   *)
(*     carries the label kpt.dev/latest-revision.                          *)
(***************************************************************************)
EXTENDS Naturals

CONSTANTS
    MaxRevision,      \* the highest workspace name, v1..v{MaxRevision}
    MaxVersion,       \* bound: the highest resourceVersion handed out
    Edit,             \* the edits a user may make to the resources
    DeletePublished   \* whether a published revision can be deleted

ASSUME MaxRevisionAssumption == MaxRevision \in Nat \ {0}
ASSUME MaxVersionAssumption == MaxVersion \in Nat \ {0}
ASSUME DeletePublishedAssumption == DeletePublished \in BOOLEAN

VARIABLES
    revision,   \* revision[n]: the package revision in workspace v{n}
    version     \* the last resourceVersion handed out

porchVars == <<revision, version>>

Workspace == 1..MaxRevision

Lifecycle == {"Absent", "Draft", "Proposed", "Published"}

(* edits is the content of the resources: the set of edits made to them.   *)
Revision ==
    [lifecycle : Lifecycle, number : Nat, version : Nat, edits : SUBSET Edit]

NoRevision == [lifecycle |-> "Absent", number |-> 0, version |-> 0, edits |-> {}]

NoRevisions == [n \in Workspace |-> NoRevision]

(* revs is the server's state or a list a page once read from it. *)
Exists(revs, n) == n \in Workspace /\ revs[n].lifecycle # "Absent"

Published(revs, n) == n \in Workspace /\ revs[n].lifecycle = "Published"

Unpublished(revs, n) == Exists(revs, n) /\ ~Published(revs, n)

IsLatest(revs, n) ==
    /\ Published(revs, n)
    /\ \A m \in Workspace : Published(revs, m) => revs[m].number <= revs[n].number

IsNextNumber(revs, k) ==
    /\ \A m \in Workspace : Published(revs, m) => revs[m].number < k
    /\ \/ k = 1
       \/ \E m \in Workspace : Published(revs, m) /\ revs[m].number = k - 1

-----------------------------------------------------------------------------
(* The server's side of each call; the callers are in PackageRevisionPage. *)

NextVersion == version < MaxVersion /\ version' = version + 1

UpToDate(n, sentVersion) ==
    /\ Exists(revision, n)
    /\ sentVersion \in {0, revision[n].version}

(* POST packagerevisions *)
PostRevision(n, edits) ==
    /\ n \in Workspace
    /\ ~Exists(revision, n)
    /\ NextVersion
    /\ revision' = [revision EXCEPT ![n] =
          [lifecycle |-> "Draft", number |-> 0, version |-> version', edits |-> edits]]

(* PUT packagerevisions/n *)
PutRevision(n, copy) ==
    /\ UpToDate(n, copy.version)
    /\ NextVersion
    /\ revision' = [revision EXCEPT ![n] =
          [@ EXCEPT !.lifecycle = copy.lifecycle, !.version = version']]

(* PUT packagerevisions/n/approval *)
PutApproval(n, copy) ==
    /\ UpToDate(n, copy.version)
    /\ NextVersion
    /\ \E k \in 1..MaxVersion :
          /\ IsNextNumber(revision, k)
          /\ revision' = [revision EXCEPT ![n] =
                [@ EXCEPT !.lifecycle = copy.lifecycle, !.number = k,
                          !.version = version']]

(* PUT packagerevisionresources/n *)
AcceptsResources(n, sentVersion) ==
    /\ UpToDate(n, sentVersion)
    /\ revision[n].lifecycle = "Draft"

PutResources(n, edits, sentVersion) ==
    /\ AcceptsResources(n, sentVersion)
    /\ NextVersion
    /\ revision' = [revision EXCEPT ![n] =
          [@ EXCEPT !.edits = edits, !.version = version']]

(* DELETE packagerevisions/n: no precondition on the version *)
DeleteRevision(n) ==
    /\ Exists(revision, n)
    /\ Published(revision, n) => DeletePublished
    /\ revision' = [revision EXCEPT ![n] = NoRevision]
    /\ UNCHANGED version

(* The package starts with its first k revisions published, or with its    *)
(* first revision just added as a draft.                                   *)
PorchInit ==
    \E k \in 0..(MaxRevision - 1) :
       /\ version = IF k = 0 THEN 1 ELSE k
       /\ revision = [n \in Workspace |->
             CASE n <= k -> [lifecycle |-> "Published", number |-> n,
                             version |-> n, edits |-> {}]
               [] k = 0 /\ n = 1 -> [lifecycle |-> "Draft", number |-> 0,
                                     version |-> 1, edits |-> {}]
               [] OTHER -> NoRevision]
=============================================================================
