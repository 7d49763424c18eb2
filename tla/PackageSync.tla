----------------------------- MODULE PackageSync -----------------------------
(***************************************************************************)
(* The RootSync that deploys one package of a deployment repository, the   *)
(* secret it reads the repository with, and the browser tabs that create,  *)
(* relink, poll and delete them (PackageRevisionPage.tsx and               *)
(* AdvancedPackageRevisionOptions.tsx, Config Sync enabled).               *)
(*                                                                         *)
(* getRootSync names the RootSync after the package and createSync names   *)
(* the secret `{package}-sync', so the cluster has at most one of each.    *)
(* A RootSync is known by the revision it deploys.  One action stands for  *)
(* the code up to the next await, with the cluster's side of the call.  A  *)
(* refused call ends its handler; where it is the handler's first one,     *)
(* this is a stuttering step.  Closing a tab stops its handlers where they *)
(* are.  How revisions are made and loaded is in PackageRevisionPage.      *)
(***************************************************************************)
EXTENDS Integers

CONSTANTS
    Tab,           \* the browser tabs
    MaxRevision    \* bound: the last revision of the package

ASSUME SyncRevisionAssumption == MaxRevision \in Nat \ {0}

VARIABLES
    published,   \* the published revisions
    proposed,    \* the proposed revision, or NoRevision
    sync,        \* the revision the RootSync deploys, or NoSync
    secret,      \* whether the RootSync's secret exists
    page,        \* page[t]: what the page in tab t shows
    request,     \* request[t]: the createSync or approve handler of tab t
    removal      \* removal[t]: the handler that deletes a sync or a revision

vars == <<published, proposed, sync, secret, page, request, removal>>

clusterVars == <<sync, secret>>

revisionVars == <<published, proposed>>

Revision == 1..MaxRevision

NoRevision == 0

NoSync == 0

(***************************************************************************)
(* shown      the revision shown, NoRevision when the tab is elsewhere     *)
(* as         what the load said of it: `latest' is published              *)
(* rootSync   the state of that name: a RootSync (whose name says all that *)
(*            a handler uses of it), `null' after a search without result, *)
(*            or `undefined' where no search was made                      *)
(* searches   the revisions whose listRootSyncs call has not ended         *)
(* polling    the timer of refreshRootSync, and a call of it not ended     *)
(***************************************************************************)
Page ==
    [shown : 0..MaxRevision, as : {"proposed", "published", "latest"},
     rootSync : {"undefined", "null", "RootSync"},
     searches : SUBSET Revision, polling : SUBSET {"timer", "call"}]

Elsewhere ==
    [shown |-> NoRevision, as |-> "published", rootSync |-> "undefined",
     searches |-> {}, polling |-> {}]

(* The call that a handler makes next, for the revision it was started on. *)
Request ==
    [next : {"none", "createSecret", "createSync",
             "listSyncs", "deleteOld", "createNew", "reload"},
     revision : 0..MaxRevision]

Removal ==
    [next : {"none", "deleteSecret", "deleteSecretFirst", "deleteRevision"},
     revision : 0..MaxRevision]

NoRequest == [next |-> "none", revision |-> NoRevision]

TypeOK ==
    /\ published \in SUBSET Revision
    /\ proposed \in 0..MaxRevision
    /\ sync \in 0..MaxRevision
    /\ secret \in BOOLEAN
    /\ page \in [Tab -> Page]
    /\ \A t \in Tab : "timer" \in page[t].polling => page[t].rootSync = "RootSync"
    /\ request \in [Tab -> Request]
    /\ removal \in [Tab -> Removal]

-----------------------------------------------------------------------------
(* The page's state                                                        *)

IsLatest(n) == n \in published /\ \A m \in published : m <= n

As(n) ==
    IF IsLatest(n) THEN "latest" ELSE IF n \in published THEN "published" ELSE "proposed"

(* Mutant: the timer of the object before is not cleared. *)
SetRootSyncKeepingTimer(p, s) ==
    [p EXCEPT !.rootSync = s,
              !.polling = IF s = "RootSync" THEN @ \union {"timer"} ELSE @]

(* setRootSync: the effect of the new object sets or clears the timer; a   *)
(* call that is under way goes on.                                         *)
SetRootSync(p, s) ==
    [p EXCEPT !.rootSync = s,
              !.polling = IF s = "RootSync" THEN @ \union {"timer"} ELSE @ \ {"timer"}]

(* A load has ended: the sync is searched for a latest published revision, *)
(* and the one shown before stays until the search has ended.              *)
Showing(p, n) ==
    LET q == [p EXCEPT !.shown = n, !.as = As(n)] IN
    IF As(n) = "latest"
    THEN [q EXCEPT !.searches = @ \union {n}]
    ELSE SetRootSync(q, "undefined")

Idle(t) == request[t].next = "none"

NothingRemoved(t) == removal[t].next = "none"

(* A tab that was left mounts a new page, which the handlers of the old    *)
(* one do not reach: it is opened again when they have ended.  Bound: one  *)
(* search is under way.                                                    *)
Visit(t, n) ==
    /\ n \in published \/ n = proposed
    /\ page[t].shown = NoRevision => Idle(t) /\ NothingRemoved(t)
    /\ page[t].searches = {}
    /\ page' = [page EXCEPT ![t] = Showing(@, n)]
    /\ UNCHANGED <<revisionVars, clusterVars, request, removal>>

Leave(t) ==
    /\ page[t].shown # NoRevision
    /\ page' = [page EXCEPT ![t] = Elsewhere]
    /\ UNCHANGED <<revisionVars, clusterVars, request, removal>>

(* findRootSyncForPackage, for the exact revision *)
Found(n) == IF sync = n THEN "RootSync" ELSE "null"

AnswerSearch(t, n) ==
    /\ n \in page[t].searches
    /\ LET p == [page[t] EXCEPT !.searches = @ \ {n}] IN
       page' = [page EXCEPT ![t] = SetRootSync(p, Found(n))]
    /\ UNCHANGED <<revisionVars, clusterVars, request, removal>>

(* Bound: one call of refreshRootSync is under way. *)
Refresh(t) ==
    /\ "timer" \in page[t].polling /\ "call" \notin page[t].polling
    /\ page' = [page EXCEPT ![t] = [@ EXCEPT !.polling = {"call"}]]
    /\ UNCHANGED <<revisionVars, clusterVars, request, removal>>

(* The RootSync of that name, whichever revision it deploys now.  When it  *)
(* is gone, rootSync keeps its value, and no timer is set again.           *)
AnswerRefresh(t) ==
    /\ "call" \in page[t].polling
    /\ LET p == [page[t] EXCEPT !.polling = @ \ {"call"}] IN
       page' = [page EXCEPT ![t] = IF sync = NoSync THEN p ELSE SetRootSync(p, "RootSync")]
    /\ UNCHANGED <<revisionVars, clusterVars, request, removal>>

-----------------------------------------------------------------------------
(* The requests of the page's buttons                                      *)

Goes(r, next) == [r EXCEPT !.next = next]

(* Mutant: an existing secret is taken over. *)
NewSecretTakenOver == secret' = TRUE

(* The name of the secret may not be taken. *)
NewSecret == ~secret /\ secret' = TRUE

(* createSync reads the repository's secret, makes that of the RootSync,   *)
(* and then the RootSync.                                                  *)
CreateSync(t) ==
    /\ Idle(t)
    /\ page[t].shown # NoRevision
    /\ page[t].as = "latest" /\ page[t].rootSync = "null"
    /\ request' = [request EXCEPT ![t] =
          [next |-> "createSecret", revision |-> page[t].shown]]
    /\ UNCHANGED <<revisionVars, clusterVars, page, removal>>

CreateSecret(t) ==
    /\ request[t].next = "createSecret"
    /\ NewSecret
    /\ request' = [request EXCEPT ![t] = Goes(@, "createSync")]
    /\ UNCHANGED <<revisionVars, sync, page, removal>>

(* createRootSync is refused while a RootSync of the package exists. *)
CreateRootSync(t) ==
    /\ request[t].next = "createSync"
    /\ IF sync = NoSync
       THEN /\ sync' = request[t].revision
            /\ page' = [page EXCEPT ![t] =
                  IF @.shown = NoRevision THEN @ ELSE SetRootSync(@, "RootSync")]
       ELSE UNCHANGED <<sync, page>>
    /\ request' = [request EXCEPT ![t] = NoRequest]
    /\ UNCHANGED <<revisionVars, secret, removal>>

(* approveProposedPackage: the approval *)
Approve(t) ==
    /\ Idle(t)
    /\ page[t].as = "proposed" /\ page[t].shown # NoRevision
    /\ proposed = page[t].shown
    /\ published' = published \union {proposed}
    /\ proposed' = NoRevision
    /\ request' = [request EXCEPT ![t] =
          [next |-> "listSyncs", revision |-> page[t].shown]]
    /\ UNCHANGED <<clusterVars, page, removal>>

(* ... and updateRootSyncToLatestPackage: a RootSync of whichever revision *)
(* is deleted and made again for the approved one, with the same secret.   *)
ListSyncs(t) ==
    /\ request[t].next = "listSyncs"
    /\ request' = [request EXCEPT ![t] =
          Goes(@, IF sync = NoSync THEN "reload" ELSE "deleteOld")]
    /\ UNCHANGED <<revisionVars, clusterVars, page, removal>>

DeleteOldSync(t) ==
    /\ request[t].next = "deleteOld"
    /\ sync' = NoSync
    /\ request' = [request EXCEPT ![t] =
          IF sync = NoSync THEN NoRequest ELSE Goes(@, "createNew")]
    /\ UNCHANGED <<revisionVars, secret, page, removal>>

CreateNewSync(t) ==
    /\ request[t].next = "createNew"
    /\ IF sync = NoSync
       THEN /\ sync' = request[t].revision
            /\ request' = [request EXCEPT ![t] = Goes(@, "reload")]
       ELSE /\ request' = [request EXCEPT ![t] = NoRequest]
            /\ UNCHANGED sync
    /\ UNCHANGED <<revisionVars, secret, page, removal>>

(* Bound: as in Visit.  The load of a revision that is gone fails. *)
Reload(t) ==
    /\ request[t].next = "reload"
    /\ page[t].searches = {}
    /\ LET n == request[t].revision IN
       page' = IF page[t].shown = NoRevision \/ n \notin published
               THEN page
               ELSE [page EXCEPT ![t] = Showing(@, n)]
    /\ request' = [request EXCEPT ![t] = NoRequest]
    /\ UNCHANGED <<revisionVars, clusterVars, removal>>

-----------------------------------------------------------------------------
(* The dialogs of the Advanced tab.  They are not disabled by a request in *)
(* progress.  Bound: one of their handlers is under way in each tab.       *)

(* deleteSync: the RootSync of the page's rootSync *)
DeleteSync(t) ==
    /\ NothingRemoved(t)
    /\ page[t].rootSync = "RootSync"
    /\ sync # NoSync
    /\ sync' = NoSync
    /\ \E r \in {[next |-> "deleteSecret", revision |-> NoRevision],
                 [next |-> "deleteSecretFirst", revision |-> page[t].shown]} :
          removal' = [removal EXCEPT ![t] = r]
    /\ UNCHANGED <<revisionVars, secret, page, request>>

(* Mutant: only the RootSync is deleted. *)
SecretKept == UNCHANGED secret

SecretDeleted == secret' = FALSE

(* ... and then its secret; a secret that is gone ends the handler. *)
DeleteSecret(t) ==
    /\ removal[t].next \in {"deleteSecret", "deleteSecretFirst"}
    /\ SecretDeleted
    /\ IF secret /\ removal[t].next = "deleteSecretFirst"
       THEN /\ removal' = [removal EXCEPT ![t] = Goes(@, "deleteRevision")]
            /\ UNCHANGED page
       ELSE /\ removal' = [removal EXCEPT ![t] = NoRequest]
            /\ page' = IF secret THEN [page EXCEPT ![t] = Elsewhere] ELSE page
    /\ UNCHANGED <<revisionVars, sync, request>>

RevisionDeleted(n) ==
    /\ n \in published \union {proposed}
    /\ published' = published \ {n}
    /\ proposed' = IF n = proposed THEN NoRevision ELSE proposed

(* executeDeletePackageRevision on a page without a sync *)
DeletePackageRevision(t) ==
    /\ NothingRemoved(t)
    /\ page[t].shown # NoRevision /\ page[t].rootSync # "RootSync"
    /\ RevisionDeleted(page[t].shown)
    /\ page' = [page EXCEPT ![t] = Elsewhere]
    /\ UNCHANGED <<clusterVars, request, removal>>

(* ... and after its sync; the server may refuse to delete the revision. *)
DeleteSyncedRevision(t) ==
    /\ removal[t].next = "deleteRevision"
    /\ \/ /\ RevisionDeleted(removal[t].revision)
          /\ page' = [page EXCEPT ![t] = Elsewhere]
       \/ UNCHANGED <<revisionVars, page>>
    /\ removal' = [removal EXCEPT ![t] = NoRequest]
    /\ UNCHANGED <<clusterVars, request>>

-----------------------------------------------------------------------------
(* A handler's call fails, or its answer is lost: the rest does not run.   *)
FailRequest(t) ==
    /\ ~Idle(t)
    /\ request' = [request EXCEPT ![t] = NoRequest]
    /\ UNCHANGED <<revisionVars, clusterVars, page, removal>>

FailRemoval(t) ==
    /\ ~NothingRemoved(t)
    /\ removal' = [removal EXCEPT ![t] = NoRequest]
    /\ UNCHANGED <<revisionVars, clusterVars, page, request>>

(* Somebody makes the next revision and proposes it. *)
Propose ==
    /\ proposed = NoRevision
    /\ \E n \in Revision \ published :
          /\ \A m \in published : m < n
          /\ n = 1 \/ n - 1 \in published
          /\ proposed' = n
    /\ UNCHANGED <<published, clusterVars, page, request, removal>>

Init ==
    /\ \E n \in 0..MaxRevision : published = 1..n
    /\ proposed = NoRevision
    /\ sync \in published \union {NoSync}
    /\ secret = (sync # NoSync)
    /\ page = [t \in Tab |-> Elsewhere]
    /\ request = [t \in Tab |-> NoRequest]
    /\ removal = [t \in Tab |-> NoRequest]

PageStep(t) ==
    \/ \E n \in Revision : Visit(t, n) \/ AnswerSearch(t, n)
    \/ Leave(t)
    \/ Refresh(t)
    \/ AnswerRefresh(t)

RequestStep(t) ==
    \/ CreateSync(t)
    \/ CreateSecret(t)
    \/ CreateRootSync(t)
    \/ Approve(t)
    \/ ListSyncs(t)
    \/ DeleteOldSync(t)
    \/ CreateNewSync(t)
    \/ Reload(t)
    \/ FailRequest(t)

RemovalStep(t) ==
    \/ DeleteSync(t)
    \/ DeleteSecret(t)
    \/ DeletePackageRevision(t)
    \/ DeleteSyncedRevision(t)
    \/ FailRemoval(t)

Next ==
    \/ \E t \in Tab : PageStep(t) \/ RequestStep(t) \/ RemovalStep(t)
    \/ Propose

Spec == Init /\ [][Next]_vars

-----------------------------------------------------------------------------
(* Properties                                                              *)

(***************************************************************************)
(* deleteSync deletes the RootSync before its secret and createSync makes  *)
(* the secret before the RootSync: Config Sync never finds a RootSync that *)
(* refers to a secret which does not exist, however the handlers of        *)
(* several tabs overlap or break off.                                      *)
(***************************************************************************)
SyncHasSecret == sync # NoSync => secret

(***************************************************************************)
(* updateRootSyncToLatestPackage undeploys the package until it has made   *)
(* the new RootSync, and createSync must make one for its secret: neither  *)
(* createRootSync is ever refused because another tab has made the         *)
(* RootSync in between, and neither finds its secret deleted.              *)
(***************************************************************************)
CreationAccepted ==
    \A t \in Tab :
       request[t].next \in {"createSync", "createNew"} => sync = NoSync /\ secret

Creating(t) == request[t].next \in {"createSync", "createNew"}

Deleting(t) == removal[t].next \in {"deleteSecret", "deleteSecretFirst"}

SecretInUse ==
    secret => \/ sync # NoSync
              \/ \E t \in Tab : Creating(t) \/ Deleting(t)

(***************************************************************************)
(* A secret without its RootSync can no longer be deleted by the plugin,   *)
(* and makes createSync fail for good.  The handlers of createSync,        *)
(* updateRootSyncToLatestPackage and deleteSync, overlapping in any order, *)
(* never strand it: only a call that fails for a reason of its own does.   *)
(***************************************************************************)
StrandsNoSecret == SecretInUse => SecretInUse'

OnlyFailuresStrandSecret ==
    [][\/ StrandsNoSecret
       \/ \E t \in Tab : FailRequest(t) \/ FailRemoval(t)]_vars

-----------------------------------------------------------------------------
(* The invariant behind them: the name of the secret is a lock.  Whoever   *)
(* has made it or has deleted the RootSync holds it, and passes it on by   *)
(* making the RootSync.                                                    *)

OneHolder ==
    /\ (\E t \in Tab : Creating(t) \/ Deleting(t)) => secret /\ sync = NoSync
    /\ \A t, u \in Tab :
          /\ Creating(t) /\ Creating(u) => t = u
          /\ Deleting(t) /\ Deleting(u) => t = u
          /\ ~(Creating(t) /\ Deleting(u))

LockInv == SyncHasSecret /\ OneHolder
=============================================================================
