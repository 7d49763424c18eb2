-------------------------- MODULE PackageSync_proofs --------------------------
(* Proofs about PackageSync, for every set of tabs and bound on revisions. *)
EXTENDS PackageSync, TLAPS

(* What TypeOK says of the page of one tab. *)
PageOK(p) == p \in Page /\ ("timer" \in p.polling => p.rootSync = "RootSync")

(* setRootSync leaves a page whose timer runs only for a RootSync. *)
LEMMA SetRootSyncPage ==
    ASSUME NEW p \in Page, NEW s \in {"undefined", "null", "RootSync"}
    PROVE  PageOK(SetRootSync(p, s))
BY DEF PageOK, Page, SetRootSync

(* The end of a load keeps the page well formed. *)
LEMMA ShowingPage ==
    ASSUME NEW p, PageOK(p), NEW n \in Revision
    PROVE  PageOK(Showing(p, n))
<1> USE SyncRevisionAssumption
<1>1. As(n) \in {"proposed", "published", "latest"}
    BY DEF As
<1> DEFINE q == [p EXCEPT !.shown = n, !.as = As(n)]
<1>2. n \in 0..MaxRevision
    BY DEF Revision
<1>3. PageOK(q)
    BY <1>1, <1>2 DEF PageOK, Page
<1>4. CASE As(n) = "latest"
    <2>1. Showing(p, n) = [q EXCEPT !.searches = @ \union {n}]
        BY <1>4 DEF Showing
    <2> HIDE DEF q
    <2>2. PageOK([q EXCEPT !.searches = @ \union {n}])
        BY <1>3 DEF PageOK, Page
    <2>3. QED BY <2>1, <2>2
<1>5. CASE As(n) # "latest"
    <2>1. Showing(p, n) = SetRootSync(q, "undefined")
        BY <1>5 DEF Showing
    <2> HIDE DEF q
    <2>2. QED BY <1>3, <2>1, SetRootSyncPage DEF PageOK
<1>6. QED BY <1>4, <1>5

LEMMA ElsewherePage == PageOK(Elsewhere)
BY SyncRevisionAssumption DEF PageOK, Page, Elsewhere, NoRevision, Revision

(* The two conjuncts of TypeOK about pages are PageOK of each tab's. *)
LEMMA PagesOK ==
    ASSUME page \in [Tab -> Page],
           \A t \in Tab : "timer" \in page[t].polling => page[t].rootSync = "RootSync",
           NEW t \in Tab, NEW p,
           PageOK(page[t]) => PageOK(p),
           page' = [page EXCEPT ![t] = p]
    PROVE  /\ page' \in [Tab -> Page]
           /\ \A u \in Tab :
                 "timer" \in page'[u].polling => page'[u].rootSync = "RootSync"
BY DEF PageOK

-----------------------------------------------------------------------------
(* Type correctness *)

LEMMA InitTypeOK == Init => TypeOK
<1> SUFFICES ASSUME Init PROVE TypeOK
    OBVIOUS
<1> USE SyncRevisionAssumption DEF Init
<1>1. published \in SUBSET Revision /\ proposed \in 0..MaxRevision
    BY DEF Revision, NoRevision
<1>2. sync \in 0..MaxRevision /\ secret \in BOOLEAN
    BY <1>1 DEF Revision, NoSync
<1>3. NoRequest \in Request /\ NoRequest \in Removal
    BY DEF NoRequest, Request, Removal, NoRevision
<1>4. /\ page \in [Tab -> Page]
      /\ \A t \in Tab : "timer" \in page[t].polling => page[t].rootSync = "RootSync"
    BY ElsewherePage DEF PageOK
<1>5. request \in [Tab -> Request] /\ removal \in [Tab -> Removal]
    BY <1>3
<1>6. QED BY <1>1, <1>2, <1>4, <1>5 DEF TypeOK

(* Page steps change one page, to one that is well formed. *)
LEMMA PageStepTypeOK ==
    ASSUME TypeOK, NEW t \in Tab, PageStep(t)
    PROVE  TypeOK'
<1> USE DEF TypeOK
<1>0. PageOK(page[t])
    BY DEF PageOK
<1> DEFINE Rest == UNCHANGED <<revisionVars, clusterVars, request, removal>>
<1>1. SUFFICES ASSUME NEW p, PageOK(p), page' = [page EXCEPT ![t] = p], Rest
               PROVE  TypeOK'
    <2>1. ASSUME NEW n \in Revision, Visit(t, n) PROVE TypeOK'
        <3>1. PageOK(Showing(page[t], n))
            BY <1>0, ShowingPage
        <3>2. page' = [page EXCEPT ![t] = Showing(page[t], n)] /\ Rest
            BY <2>1 DEF Visit
        <3>3. QED BY <1>1, <3>1, <3>2
    <2>2. ASSUME NEW n \in Revision, AnswerSearch(t, n) PROVE TypeOK'
        <3> DEFINE q == [page[t] EXCEPT !.searches = @ \ {n}]
        <3>1. q \in Page
            BY <1>0 DEF PageOK, Page
        <3>2. Found(n) \in {"undefined", "null", "RootSync"}
            BY DEF Found
        <3>3. page' = [page EXCEPT ![t] = SetRootSync(q, Found(n))] /\ Rest
            BY <2>2 DEF AnswerSearch
        <3> HIDE DEF q
        <3>4. PageOK(SetRootSync(q, Found(n)))
            BY <3>1, <3>2, SetRootSyncPage
        <3>5. QED BY <1>1, <3>3, <3>4
    <2>3. CASE Leave(t)
        <3>1. page' = [page EXCEPT ![t] = Elsewhere] /\ Rest
            BY <2>3 DEF Leave
        <3>2. QED BY <1>1, <3>1, ElsewherePage
    <2>4. CASE Refresh(t)
        <3> DEFINE q == [page[t] EXCEPT !.polling = {"call"}]
        <3>1. PageOK(q)
            BY <1>0 DEF PageOK, Page
        <3>2. page' = [page EXCEPT ![t] = q] /\ Rest
            BY <2>4 DEF Refresh
        <3>3. QED BY <1>1, <3>1, <3>2
    <2>5. CASE AnswerRefresh(t)
        <3> DEFINE q == [page[t] EXCEPT !.polling = @ \ {"call"}]
                   r == IF sync = NoSync THEN q ELSE SetRootSync(q, "RootSync")
        <3>1. PageOK(q)
            BY <1>0 DEF PageOK, Page
        <3>2. page' = [page EXCEPT ![t] = r] /\ Rest
            BY <2>5 DEF AnswerRefresh
        <3>3. q \in Page
            BY <3>1 DEF PageOK
        <3> HIDE DEF q
        <3>4. PageOK(r)
            BY <3>1, <3>3, SetRootSyncPage
        <3> HIDE DEF r
        <3>5. QED BY <1>1, <3>2, <3>4
    <2>6. QED BY <2>1, <2>2, <2>3, <2>4, <2>5 DEF PageStep
<1>2. /\ page' \in [Tab -> Page]
      /\ \A u \in Tab : "timer" \in page'[u].polling => page'[u].rootSync = "RootSync"
    BY <1>1, PagesOK
<1>3. QED BY <1>1, <1>2 DEF revisionVars, clusterVars

RequestNext ==
    {"none", "createSecret", "createSync", "listSyncs", "deleteOld", "createNew", "reload"}

RemovalNext == {"none", "deleteSecret", "deleteSecretFirst", "deleteRevision"}

LEMMA GoesTypes ==
    /\ \A r \in Request, x \in RequestNext : Goes(r, x) \in Request
    /\ \A r \in Removal, x \in RemovalNext : Goes(r, x) \in Removal
    /\ NoRequest \in Request /\ NoRequest \in Removal
BY SyncRevisionAssumption
   DEF Request, Removal, Goes, NoRequest, NoRevision, RequestNext, RemovalNext

(* A request step sets the request of its tab to one that is well formed,  *)
(* and leaves the rest of the types as they are.                           *)
LEMMA RequestStepTypeOK ==
    ASSUME TypeOK, NEW t \in Tab, RequestStep(t)
    PROVE  TypeOK'
<1> USE SyncRevisionAssumption
<1>1. /\ request[t] \in Request /\ PageOK(page[t])
      /\ page[t].shown \in 0..MaxRevision /\ request[t].revision \in 0..MaxRevision
    BY DEF TypeOK, PageOK, Page, Request
<1>2. SUFFICES ASSUME \/ UNCHANGED page
                      \/ \E p : PageOK(p) /\ page' = [page EXCEPT ![t] = p],
                      \E r \in Request : request' = [request EXCEPT ![t] = r],
                      published' \in SUBSET Revision,
                      proposed' \in 0..MaxRevision,
                      sync' \in 0..MaxRevision,
                      secret' \in BOOLEAN,
                      UNCHANGED removal
               PROVE  TypeOK'
    <2>1. CASE CreateSync(t)
        <3> DEFINE r == [next |-> "createSecret", revision |-> page[t].shown]
        <3>1. r \in Request
            BY <1>1 DEF Request
        <3>2. request' = [request EXCEPT ![t] = r]
            BY <2>1 DEF CreateSync
        <3> HIDE DEF r
        <3>3. UNCHANGED <<published, proposed, sync, secret, page, removal>>
            BY <2>1 DEF CreateSync, revisionVars, clusterVars
        <3>4. QED BY <1>2, <3>1, <3>2, <3>3 DEF TypeOK
    <2>10. CASE CreateSecret(t)
        <3>1. request' = [request EXCEPT ![t] = Goes(request[t], "createSync")]
            BY <2>10 DEF CreateSecret
        <3>2. Goes(request[t], "createSync") \in Request
            BY <1>1, GoesTypes DEF RequestNext
        <3>3. UNCHANGED <<published, proposed, sync, page, removal>> /\ secret' = TRUE
            BY <2>10 DEF CreateSecret, NewSecret, revisionVars
        <3>4. QED BY <1>2, <3>1, <3>2, <3>3 DEF TypeOK
    <2>2. CASE CreateRootSync(t)
        <3>1. UNCHANGED <<published, proposed, secret, removal>>
            BY <2>2 DEF CreateRootSync, revisionVars
        <3>2. request' = [request EXCEPT ![t] = NoRequest]
            BY <2>2 DEF CreateRootSync
        <3>3. CASE sync = NoSync
            <4> DEFINE q == IF page[t].shown = NoRevision
                            THEN page[t] ELSE SetRootSync(page[t], "RootSync")
            <4>1. page' = [page EXCEPT ![t] = q] /\ sync' = request[t].revision
                BY <2>2, <3>3 DEF CreateRootSync
            <4>2. PageOK(q)
                BY <1>1, SetRootSyncPage DEF PageOK
            <4> HIDE DEF q
            <4>3. QED BY <1>1, <1>2, <3>1, <3>2, <4>1, <4>2, GoesTypes DEF TypeOK
        <3>4. CASE sync # NoSync
            <4>1. UNCHANGED <<sync, page>>
                BY <2>2, <3>4 DEF CreateRootSync
            <4>2. QED BY <1>2, <3>1, <3>2, <4>1, GoesTypes DEF TypeOK
        <3>5. QED BY <3>3, <3>4
    <2>3. CASE Approve(t)
        <3> DEFINE r == [next |-> "listSyncs", revision |-> page[t].shown]
        <3>1. r \in Request
            BY <1>1 DEF Request
        <3>2. request' = [request EXCEPT ![t] = r]
            BY <2>3 DEF Approve
        <3> HIDE DEF r
        <3>3. UNCHANGED <<sync, secret, page, removal>> /\ proposed' = NoRevision
            BY <2>3 DEF Approve, clusterVars
        <3>4. published' \in SUBSET Revision
            <4>1. proposed \in Revision
                BY <1>1, <2>3 DEF Approve, Revision, NoRevision
            <4>2. QED BY <2>3, <4>1 DEF Approve, TypeOK
        <3>5. proposed' \in 0..MaxRevision
            BY <3>3 DEF NoRevision
        <3>6. QED BY <1>2, <3>1, <3>2, <3>3, <3>4, <3>5 DEF TypeOK
    <2>4. CASE ListSyncs(t)
        <3>1. UNCHANGED <<published, proposed, sync, secret, page, removal>>
            BY <2>4 DEF ListSyncs, revisionVars, clusterVars
        <3> DEFINE x == IF sync = NoSync THEN "reload" ELSE "deleteOld"
        <3>2. request' = [request EXCEPT ![t] = Goes(request[t], x)]
            BY <2>4 DEF ListSyncs
        <3>3. x \in RequestNext
            BY DEF RequestNext
        <3>4. Goes(request[t], x) \in Request
            BY <1>1, <3>3, GoesTypes
        <3> HIDE DEF x
        <3>5. QED BY <1>2, <3>1, <3>2, <3>4 DEF TypeOK
    <2>5. CASE DeleteOldSync(t)
        <3>1. UNCHANGED <<published, proposed, secret, page, removal>>
            BY <2>5 DEF DeleteOldSync, revisionVars
        <3> DEFINE r == IF sync = NoSync THEN NoRequest ELSE Goes(request[t], "createNew")
        <3>2. request' = [request EXCEPT ![t] = r] /\ sync' = NoSync
            BY <2>5 DEF DeleteOldSync
        <3>3. r \in Request
            BY <1>1, GoesTypes DEF RequestNext
        <3> HIDE DEF r
        <3>4. sync' \in 0..MaxRevision
            BY <3>2 DEF NoSync
        <3>5. QED BY <1>2, <3>1, <3>2, <3>3, <3>4 DEF TypeOK
    <2>6. CASE CreateNewSync(t)
        <3>1. UNCHANGED <<published, proposed, secret, page, removal>>
            BY <2>6 DEF CreateNewSync, revisionVars
        <3>2. CASE sync = NoSync
            <4>1. /\ sync' = request[t].revision
                  /\ request' = [request EXCEPT ![t] = Goes(request[t], "reload")]
                BY <2>6, <3>2 DEF CreateNewSync
            <4>2. Goes(request[t], "reload") \in Request
                BY <1>1, GoesTypes DEF RequestNext
            <4>3. QED BY <1>1, <1>2, <3>1, <4>1, <4>2 DEF TypeOK
        <3>3. CASE sync # NoSync
            <4>1. UNCHANGED sync /\ request' = [request EXCEPT ![t] = NoRequest]
                BY <2>6, <3>3 DEF CreateNewSync
            <4>2. QED BY <1>2, <3>1, <4>1, GoesTypes DEF TypeOK
        <3>4. QED BY <3>2, <3>3
    <2>7. CASE Reload(t)
        <3>1. UNCHANGED <<published, proposed, sync, secret, removal>>
            BY <2>7 DEF Reload, revisionVars, clusterVars
        <3>2. request' = [request EXCEPT ![t] = NoRequest]
            BY <2>7 DEF Reload
        <3> DEFINE n == request[t].revision
        <3>3. \/ UNCHANGED page
              \/ n \in published /\ page' = [page EXCEPT ![t] = Showing(page[t], n)]
            BY <2>7 DEF Reload
        <3>4. n \in published => PageOK(Showing(page[t], n))
            BY <1>1, ShowingPage DEF TypeOK
        <3> HIDE DEF n
        <3>5. QED BY <1>2, <3>1, <3>2, <3>3, <3>4, GoesTypes DEF TypeOK
    <2>8. CASE FailRequest(t)
        <3>1. /\ UNCHANGED <<published, proposed, sync, secret, page, removal>>
              /\ request' = [request EXCEPT ![t] = NoRequest]
            BY <2>8 DEF FailRequest, revisionVars, clusterVars
        <3>2. QED BY <1>2, <3>1, GoesTypes DEF TypeOK
    <2>9. QED
        BY <2>1, <2>10, <2>2, <2>3, <2>4, <2>5, <2>6, <2>7, <2>8 DEF RequestStep
<1>3. /\ page' \in [Tab -> Page]
      /\ \A u \in Tab : "timer" \in page'[u].polling => page'[u].rootSync = "RootSync"
    BY <1>2, PagesOK DEF TypeOK
<1>4. request' \in [Tab -> Request] /\ removal' \in [Tab -> Removal]
    BY <1>2 DEF TypeOK
<1>5. QED BY <1>2, <1>3, <1>4 DEF TypeOK

(* As above, for the handlers of the Advanced tab. *)
LEMMA RemovalStepTypeOK ==
    ASSUME TypeOK, NEW t \in Tab, RemovalStep(t)
    PROVE  TypeOK'
<1> USE SyncRevisionAssumption
<1>1. /\ removal[t] \in Removal /\ PageOK(page[t])
      /\ page[t].shown \in 0..MaxRevision
    BY DEF TypeOK, PageOK, Page
<1>2. SUFFICES ASSUME \/ UNCHANGED page
                      \/ \E p : PageOK(p) /\ page' = [page EXCEPT ![t] = p],
                      \/ UNCHANGED removal
                      \/ \E r \in Removal : removal' = [removal EXCEPT ![t] = r],
                      published' \in SUBSET Revision,
                      proposed' \in 0..MaxRevision,
                      sync' \in 0..MaxRevision,
                      secret' \in BOOLEAN,
                      UNCHANGED request
               PROVE  TypeOK'
    <2>1. ASSUME NEW n, RevisionDeleted(n)
          PROVE  published' \in SUBSET Revision /\ proposed' \in 0..MaxRevision
        BY <2>1 DEF RevisionDeleted, TypeOK, NoRevision
    <2>2. CASE DeleteSync(t)
        <3>1. UNCHANGED <<published, proposed, secret, page, request>> /\ sync' = NoSync
            BY <2>2 DEF DeleteSync, revisionVars
        <3> DEFINE R == {[next |-> "deleteSecret", revision |-> NoRevision],
                         [next |-> "deleteSecretFirst", revision |-> page[t].shown]}
        <3>2. PICK r \in R : removal' = [removal EXCEPT ![t] = r]
            BY <2>2 DEF DeleteSync
        <3>3. r \in Removal
            BY <1>1 DEF Removal, NoRevision
        <3> HIDE DEF R
        <3>4. sync' \in 0..MaxRevision
            BY <3>1 DEF NoSync
        <3>5. QED BY <1>2, <3>1, <3>2, <3>3, <3>4 DEF TypeOK
    <2>3. CASE DeleteSecret(t)
        <3>1. UNCHANGED <<published, proposed, sync, request>> /\ secret' = FALSE
            BY <2>3 DEF DeleteSecret, SecretDeleted, revisionVars
        <3>2. Goes(removal[t], "deleteRevision") \in Removal
            BY <1>1, GoesTypes DEF RemovalNext
        <3>3. \E r \in Removal : removal' = [removal EXCEPT ![t] = r]
            BY <2>3, <3>2, GoesTypes DEF DeleteSecret
        <3>4. UNCHANGED page \/ page' = [page EXCEPT ![t] = Elsewhere]
            BY <2>3 DEF DeleteSecret
        <3>5. QED BY <1>2, <3>1, <3>3, <3>4, ElsewherePage DEF TypeOK
    <2>4. CASE DeletePackageRevision(t)
        <3>1. /\ UNCHANGED <<sync, secret, request, removal>>
              /\ page' = [page EXCEPT ![t] = Elsewhere]
              /\ RevisionDeleted(page[t].shown)
            BY <2>4 DEF DeletePackageRevision, clusterVars
        <3>2. QED BY <1>2, <2>1, <3>1, ElsewherePage DEF TypeOK
    <2>5. CASE DeleteSyncedRevision(t)
        <3>1. /\ UNCHANGED <<sync, secret, request>>
              /\ removal' = [removal EXCEPT ![t] = NoRequest]
            BY <2>5 DEF DeleteSyncedRevision, clusterVars
        <3>2. \/ /\ RevisionDeleted(removal[t].revision)
                 /\ page' = [page EXCEPT ![t] = Elsewhere]
              \/ UNCHANGED <<published, proposed, page>>
            BY <2>5 DEF DeleteSyncedRevision, revisionVars
        <3>3. QED BY <1>2, <2>1, <3>1, <3>2, ElsewherePage, GoesTypes DEF TypeOK
    <2>6. CASE FailRemoval(t)
        <3>1. /\ UNCHANGED <<published, proposed, sync, secret, page, request>>
              /\ removal' = [removal EXCEPT ![t] = NoRequest]
            BY <2>6 DEF FailRemoval, revisionVars, clusterVars
        <3>2. QED BY <1>2, <3>1, GoesTypes DEF TypeOK
    <2>7. QED BY <2>2, <2>3, <2>4, <2>5, <2>6 DEF RemovalStep
<1>3. /\ page' \in [Tab -> Page]
      /\ \A u \in Tab : "timer" \in page'[u].polling => page'[u].rootSync = "RootSync"
    BY <1>2, PagesOK DEF TypeOK
<1>4. request' \in [Tab -> Request] /\ removal' \in [Tab -> Removal]
    BY <1>2 DEF TypeOK
<1>5. QED BY <1>2, <1>3, <1>4 DEF TypeOK

LEMMA NextTypeOK == TypeOK /\ [Next]_vars => TypeOK'
<1> SUFFICES ASSUME TypeOK, [Next]_vars PROVE TypeOK'
    OBVIOUS
<1>1. CASE Next
    <2>1. CASE Propose
        <3>1. /\ proposed' \in Revision
              /\ UNCHANGED <<published, sync, secret, page, request, removal>>
            BY <2>1 DEF Propose, clusterVars
        <3>2. QED BY <3>1 DEF TypeOK, Revision
    <2>2. QED
        BY <1>1, <2>1, PageStepTypeOK, RequestStepTypeOK, RemovalStepTypeOK DEF Next
<1>2. CASE UNCHANGED vars
    BY <1>2 DEF vars, TypeOK
<1>3. QED BY <1>1, <1>2

(***************************************************************************)
(* Type correctness, and that no page has a timer without a RootSync.      *)
(***************************************************************************)
THEOREM TypeCorrect == Spec => []TypeOK
BY InitTypeOK, NextTypeOK, PTL DEF Spec

-----------------------------------------------------------------------------
(* The secret as a lock *)

(* A handler that goes on to a call which needs no lock, or ends, while    *)
(* the cluster stays as it is, leaves the lock to whoever holds it.        *)
LEMMA NoLockTaken ==
    ASSUME LockInv,
           \A t \in Tab : Creating(t)' => Creating(t),
           \A t \in Tab : Deleting(t)' => Deleting(t),
           UNCHANGED clusterVars
    PROVE  LockInv'
BY DEF LockInv, SyncHasSecret, OneHolder, clusterVars

(* With no holder, the lock is taken by one handler. *)
LEMMA LockTaken ==
    ASSUME \A u \in Tab : ~Creating(u) /\ ~Deleting(u),
           NEW t \in Tab,
           \A u \in Tab \ {t} :
              /\ Creating(u)' => Creating(u)
              /\ Deleting(u)' => Deleting(u),
           ~(Creating(t)' /\ Deleting(t)'),
           sync' = NoSync, secret' = TRUE
    PROVE  LockInv'
<1>1. \A u \in Tab : Creating(u)' \/ Deleting(u)' => u = t
    OBVIOUS
<1>2. OneHolder'
    BY <1>1 DEF OneHolder
<1>3. QED BY <1>2 DEF LockInv, SyncHasSecret

(* The holder is the only one, and gives the lock up. *)
LEMMA LockGivenUp ==
    ASSUME LockInv, NEW t \in Tab, Creating(t) \/ Deleting(t),
           \A u \in Tab \ {t} :
              /\ Creating(u)' => Creating(u)
              /\ Deleting(u)' => Deleting(u),
           ~Creating(t)', ~Deleting(t)',
           sync' # NoSync => secret'
    PROVE  LockInv'
<1>1. \A u \in Tab \ {t} : ~Creating(u) /\ ~Deleting(u)
    BY DEF LockInv, OneHolder
<1>2. \A u \in Tab : ~Creating(u)' /\ ~Deleting(u)'
    BY <1>1
<1>3. OneHolder'
    BY <1>2 DEF OneHolder
<1>4. QED BY <1>3 DEF LockInv, SyncHasSecret

(* Nobody holds the lock while a RootSync is there, or without a secret. *)
LEMMA LockFree ==
    ASSUME LockInv, sync # NoSync \/ ~secret
    PROVE  \A u \in Tab : ~Creating(u) /\ ~Deleting(u)
BY DEF LockInv, OneHolder

LEMMA RequestStepLock ==
    ASSUME TypeOK, LockInv, NEW t \in Tab, RequestStep(t)
    PROVE  LockInv'
<1>0. request \in [Tab -> Request] /\ removal \in [Tab -> Removal]
    BY DEF TypeOK
<1>1. UNCHANGED removal
    BY DEF RequestStep, CreateSync, CreateSecret, CreateRootSync, Approve, ListSyncs,
           DeleteOldSync, CreateNewSync, Reload, FailRequest
<1>2. \A u \in Tab : Deleting(u)' <=> Deleting(u)
    BY <1>1 DEF Deleting
<1>3. \A u \in Tab \ {t} : Creating(u)' <=> Creating(u)
    <2>1. PICK r : request' = [request EXCEPT ![t] = r]
        BY DEF RequestStep, CreateSync, CreateSecret, CreateRootSync, Approve, ListSyncs,
               DeleteOldSync, CreateNewSync, Reload, FailRequest
    <2>2. QED BY <1>0, <2>1 DEF Creating
<1>4. ASSUME UNCHANGED clusterVars, ~Creating(t)' PROVE LockInv'
    BY <1>2, <1>3, <1>4, NoLockTaken
<1>14. CASE CreateSync(t)
    BY <1>0, <1>4, <1>14 DEF CreateSync, Creating
<1>5. CASE CreateSecret(t)
    <2>1. ~secret /\ secret' = TRUE /\ UNCHANGED sync
        BY <1>5 DEF CreateSecret, NewSecret
    <2>2. sync' = NoSync
        BY <2>1 DEF LockInv, SyncHasSecret
    <2>3. \A u \in Tab : ~Creating(u) /\ ~Deleting(u)
        BY <2>1, LockFree
    <2>4. QED BY <1>2, <1>3, <2>1, <2>2, <2>3, LockTaken
<1>6. CASE CreateRootSync(t)
    <2>1. Creating(t) /\ ~Creating(t)' /\ UNCHANGED secret
        BY <1>0, <1>6 DEF CreateRootSync, Creating, NoRequest
    <2>2. secret /\ ~Deleting(t)
        BY <2>1 DEF LockInv, OneHolder
    <2>3. QED BY <1>2, <1>3, <2>1, <2>2, LockGivenUp
<1>7. CASE Approve(t)
    BY <1>0, <1>4, <1>7 DEF Approve, Creating
<1>8. CASE ListSyncs(t)
    <2>1. ~Creating(t)'
        BY <1>0, <1>8 DEF ListSyncs, Creating, Goes, Request
    <2>2. QED BY <1>4, <1>8, <2>1 DEF ListSyncs
<1>9. CASE DeleteOldSync(t)
    <2>1. sync' = NoSync /\ UNCHANGED secret
        BY <1>9 DEF DeleteOldSync
    <2>2. CASE sync = NoSync
        <3>1. ~Creating(t)'
            BY <1>0, <1>9, <2>2 DEF DeleteOldSync, Creating, NoRequest
        <3>2. QED BY <1>4, <2>1, <2>2, <3>1 DEF clusterVars
    <2>3. CASE sync # NoSync
        <3>1. secret' = TRUE
            BY <2>1, <2>3 DEF LockInv, SyncHasSecret, TypeOK
        <3>2. \A u \in Tab : ~Creating(u) /\ ~Deleting(u)
            BY <2>3, LockFree
        <3>3. QED BY <1>2, <1>3, <2>1, <3>1, <3>2, LockTaken
    <2>4. QED BY <2>2, <2>3
<1>10. CASE CreateNewSync(t)
    <2>1. Creating(t) /\ UNCHANGED secret
        BY <1>10 DEF CreateNewSync, Creating
    <2>2. ~Creating(t)'
        BY <1>0, <1>10 DEF CreateNewSync, Creating, Goes, Request, NoRequest
    <2>3. secret /\ ~Deleting(t)
        BY <2>1 DEF LockInv, OneHolder
    <2>4. QED BY <1>2, <1>3, <2>1, <2>2, <2>3, LockGivenUp
<1>11. CASE Reload(t)
    BY <1>0, <1>4, <1>11 DEF Reload, Creating, NoRequest
<1>12. CASE FailRequest(t)
    BY <1>0, <1>4, <1>12 DEF FailRequest, Creating, NoRequest
<1>13. QED
    BY <1>14, <1>5, <1>6, <1>7, <1>8, <1>9, <1>10, <1>11, <1>12 DEF RequestStep

LEMMA RemovalStepLock ==
    ASSUME TypeOK, LockInv, NEW t \in Tab, RemovalStep(t)
    PROVE  LockInv'
<1>0. request \in [Tab -> Request] /\ removal \in [Tab -> Removal]
    BY DEF TypeOK
<1>1. UNCHANGED request
    BY DEF RemovalStep, DeleteSync, DeleteSecret, DeletePackageRevision,
           DeleteSyncedRevision, FailRemoval
<1>2. \A u \in Tab : Creating(u)' <=> Creating(u)
    BY <1>1 DEF Creating
<1>3. \A u \in Tab \ {t} : Deleting(u)' <=> Deleting(u)
    <2>1. UNCHANGED removal \/ \E r : removal' = [removal EXCEPT ![t] = r]
        BY DEF RemovalStep, DeleteSync, DeleteSecret, DeletePackageRevision,
               DeleteSyncedRevision, FailRemoval
    <2>2. QED BY <1>0, <2>1 DEF Deleting
<1>4. CASE DeleteSync(t)
    <2>1. sync # NoSync /\ sync' = NoSync /\ UNCHANGED secret
        BY <1>4 DEF DeleteSync
    <2>2. secret' = TRUE
        BY <2>1 DEF LockInv, SyncHasSecret, TypeOK
    <2>3. \A u \in Tab : ~Creating(u) /\ ~Deleting(u)
        BY <2>1, LockFree
    <2>4. QED BY <1>2, <1>3, <2>1, <2>2, <2>3, LockTaken
<1>5. CASE DeleteSecret(t)
    <2>1. Deleting(t) /\ UNCHANGED sync
        BY <1>5 DEF DeleteSecret, Deleting
    <2>2. ~Deleting(t)'
        BY <1>0, <1>5 DEF DeleteSecret, Deleting, Goes, Removal, NoRequest
    <2>3. sync = NoSync /\ ~Creating(t)
        BY <2>1 DEF LockInv, OneHolder
    <2>4. QED BY <1>2, <1>3, <2>1, <2>2, <2>3, LockGivenUp
<1>6. CASE DeletePackageRevision(t)
    <2>1. UNCHANGED removal /\ UNCHANGED clusterVars
        BY <1>6 DEF DeletePackageRevision
    <2>2. QED BY <1>2, <2>1, NoLockTaken DEF Deleting
<1>7. CASE DeleteSyncedRevision(t)
    <2>1. ~Deleting(t)' /\ UNCHANGED clusterVars
        BY <1>0, <1>7 DEF DeleteSyncedRevision, Deleting, NoRequest
    <2>2. QED BY <1>2, <1>3, <2>1, NoLockTaken
<1>8. CASE FailRemoval(t)
    <2>1. ~Deleting(t)' /\ UNCHANGED clusterVars
        BY <1>0, <1>8 DEF FailRemoval, Deleting, NoRequest
    <2>2. QED BY <1>2, <1>3, <2>1, NoLockTaken
<1>9. QED BY <1>4, <1>5, <1>6, <1>7, <1>8 DEF RemovalStep

LEMMA NextLock == TypeOK /\ LockInv /\ [Next]_vars => LockInv'
<1> SUFFICES ASSUME TypeOK, LockInv, [Next]_vars PROVE LockInv'
    OBVIOUS
<1>1. ASSUME UNCHANGED <<clusterVars, request, removal>> PROVE LockInv'
    BY <1>1, NoLockTaken DEF Creating, Deleting
<1>2. ASSUME NEW t \in Tab, PageStep(t) PROVE LockInv'
    BY <1>1, <1>2 DEF PageStep, Visit, Leave, AnswerSearch, Refresh, AnswerRefresh
<1>3. CASE Propose
    BY <1>1, <1>3 DEF Propose
<1>4. CASE UNCHANGED vars
    BY <1>1, <1>4 DEF vars, clusterVars
<1>5. QED
    BY <1>2, <1>3, <1>4, RequestStepLock, RemovalStepLock DEF Next

LEMMA InitLock == Init => LockInv
<1> SUFFICES ASSUME Init PROVE LockInv
    OBVIOUS
<1>1. \A t \in Tab : ~Creating(t) /\ ~Deleting(t)
    BY DEF Init, Creating, Deleting, NoRequest
<1>2. SyncHasSecret
    BY DEF Init, SyncHasSecret
<1>3. QED BY <1>1, <1>2 DEF LockInv, OneHolder

LEMMA LockHolds == Spec => []LockInv
<1>1. TypeOK /\ LockInv /\ [Next]_vars => (TypeOK /\ LockInv)'
    BY NextTypeOK, NextLock
<1>2. Init => TypeOK /\ LockInv
    BY InitTypeOK, InitLock
<1>3. QED BY <1>1, <1>2, PTL DEF Spec

(***************************************************************************)
(* No RootSync is ever without its secret, whatever handlers overlap,      *)
(* break off or fail.                                                      *)
(***************************************************************************)
THEOREM SecretBehindSync == Spec => []SyncHasSecret
<1>1. LockInv => SyncHasSecret
    BY DEF LockInv
<1>2. QED BY <1>1, LockHolds, PTL

(***************************************************************************)
(* The creation of a RootSync that createSync or the relinking of an       *)
(* approval is about to ask for is accepted.                               *)
(***************************************************************************)
THEOREM CreationsAccepted == Spec => []CreationAccepted
<1>1. LockInv => CreationAccepted
    BY DEF LockInv, OneHolder, CreationAccepted, Creating
<1>2. QED BY <1>1, LockHolds, PTL

-----------------------------------------------------------------------------
(* Stranded secrets *)

(* A handler under way was started on a revision. *)
OnARevision ==
    \A t \in Tab : ~Idle(t) => request[t].revision # NoRevision

LEMMA NextOnARevision ==
    ASSUME TypeOK, OnARevision, [Next]_vars
    PROVE  OnARevision'
<1>0. request \in [Tab -> Request]
    BY DEF TypeOK
<1>1. ASSUME UNCHANGED request PROVE OnARevision'
    BY <1>1 DEF OnARevision, Idle
<1>2. ASSUME NEW t \in Tab, NEW r, r.next = "none" \/ r.revision # NoRevision,
             request' = [request EXCEPT ![t] = r]
      PROVE  OnARevision'
    BY <1>0, <1>2 DEF OnARevision, Idle
<1>3. ASSUME NEW t \in Tab, RequestStep(t) PROVE OnARevision'
    <2>1. CASE CreateSync(t) \/ Approve(t)
        <3>1. PICK x : request' = [request EXCEPT ![t] =
                                      [next |-> x, revision |-> page[t].shown]]
            BY <2>1 DEF CreateSync, Approve
        <3>2. page[t].shown # NoRevision
            BY <2>1 DEF CreateSync, Approve
        <3>3. QED BY <1>2, <3>1, <3>2
    <2>2. CASE CreateSecret(t) \/ ListSyncs(t) \/ DeleteOldSync(t) \/ CreateNewSync(t)
        <3>1. request[t].revision # NoRevision
            BY <2>2 DEF CreateSecret, ListSyncs, DeleteOldSync, CreateNewSync, OnARevision, Idle
        <3>2. \A x : Goes(request[t], x).revision # NoRevision
            BY <1>0, <3>1 DEF Goes, Request
        <3>3. \/ request' = [request EXCEPT ![t] = NoRequest]
              \/ \E x : request' = [request EXCEPT ![t] = Goes(request[t], x)]
            BY <2>2 DEF CreateSecret, ListSyncs, DeleteOldSync, CreateNewSync
        <3>4. QED BY <1>2, <3>2, <3>3 DEF NoRequest
    <2>3. CASE CreateRootSync(t) \/ Reload(t) \/ FailRequest(t)
        <3>1. request' = [request EXCEPT ![t] = NoRequest]
            BY <2>3 DEF CreateRootSync, Reload, FailRequest
        <3>2. QED BY <1>2, <3>1 DEF NoRequest
    <2>4. QED BY <1>3, <2>1, <2>2, <2>3 DEF RequestStep
<1>4. ASSUME NEW t \in Tab, PageStep(t) \/ RemovalStep(t) PROVE OnARevision'
    BY <1>1, <1>4
       DEF PageStep, Visit, Leave, AnswerSearch, Refresh, AnswerRefresh, RemovalStep,
           DeleteSync, DeleteSecret, DeletePackageRevision, DeleteSyncedRevision,
           FailRemoval
<1>5. CASE Propose \/ UNCHANGED vars
    BY <1>1, <1>5 DEF Propose, vars
<1>6. QED BY <1>3, <1>4, <1>5 DEF Next

LEMMA InitOnARevision == Init => OnARevision
BY DEF Init, OnARevision, Idle, NoRequest

(* While the cluster stays as it is, the secret stays in use as long as no *)
(* handler gives it up.                                                    *)
LEMMA HoldersStay ==
    ASSUME UNCHANGED clusterVars,
           \A t \in Tab : Creating(t) \/ Deleting(t) => Creating(t)' \/ Deleting(t)'
    PROVE  StrandsNoSecret
BY DEF StrandsNoSecret, SecretInUse, clusterVars

(* It is in use after a step that leaves a RootSync or a holder. *)
LEMMA InUseAfter ==
    ASSUME \/ sync' # NoSync \/ secret' = FALSE
           \/ \E t \in Tab : Creating(t)' \/ Deleting(t)'
    PROVE  StrandsNoSecret
BY DEF StrandsNoSecret, SecretInUse

LEMMA RequestStepInUse ==
    ASSUME TypeOK, LockInv, OnARevision, NEW t \in Tab, RequestStep(t), ~FailRequest(t)
    PROVE  StrandsNoSecret
<1>0. request \in [Tab -> Request]
    BY DEF TypeOK
<1>1. \A u \in Tab : Deleting(u)' <=> Deleting(u)
    BY DEF RequestStep, CreateSync, CreateSecret, CreateRootSync, Approve, ListSyncs,
           DeleteOldSync, CreateNewSync, Reload, FailRequest, Deleting
<1>2. ASSUME UNCHANGED clusterVars, ~Creating(t),
             NEW r, request' = [request EXCEPT ![t] = r]
      PROVE  StrandsNoSecret
    <2>1. \A u \in Tab : Creating(u) => Creating(u)'
        BY <1>0, <1>2 DEF Creating
    <2>2. QED BY <1>1, <1>2, <2>1, HoldersStay
<1>3. Creating(t) => sync = NoSync /\ request[t].revision # NoRevision
    BY DEF LockInv, OneHolder, OnARevision, Creating, Idle
<1>12. CASE CreateSync(t)
    BY <1>2, <1>12 DEF CreateSync, Creating, Idle
<1>4. CASE CreateSecret(t)
    <2>1. Creating(t)'
        BY <1>0, <1>4 DEF CreateSecret, Creating, Goes, Request
    <2>2. QED BY <2>1, InUseAfter
<1>5. CASE CreateRootSync(t)
    <2>1. sync' # NoSync
        BY <1>3, <1>5 DEF CreateRootSync, Creating, NoRevision, NoSync
    <2>2. QED BY <2>1, InUseAfter
<1>6. CASE Approve(t)
    BY <1>2, <1>6 DEF Approve, Creating, Idle
<1>7. CASE ListSyncs(t)
    BY <1>2, <1>7 DEF ListSyncs, Creating
<1>8. CASE DeleteOldSync(t)
    <2>1. CASE sync = NoSync
        <3>1. UNCHANGED clusterVars
            BY <1>8, <2>1 DEF DeleteOldSync, clusterVars
        <3>2. QED BY <1>2, <1>8, <2>1, <3>1 DEF DeleteOldSync, Creating
    <2>2. CASE sync # NoSync
        <3>1. Creating(t)'
            BY <1>0, <1>8, <2>2 DEF DeleteOldSync, Creating, Goes, Request
        <3>2. QED BY <3>1, InUseAfter
    <2>3. QED BY <2>1, <2>2
<1>9. CASE CreateNewSync(t)
    <2>1. sync' # NoSync
        BY <1>3, <1>9 DEF CreateNewSync, Creating, NoRevision, NoSync
    <2>2. QED BY <2>1, InUseAfter
<1>10. CASE Reload(t)
    BY <1>2, <1>10 DEF Reload, Creating
<1>11. QED
    BY <1>12, <1>4, <1>5, <1>6, <1>7, <1>8, <1>9, <1>10 DEF RequestStep

LEMMA RemovalStepInUse ==
    ASSUME TypeOK, LockInv, NEW t \in Tab, RemovalStep(t), ~FailRemoval(t)
    PROVE  StrandsNoSecret
<1>0. removal \in [Tab -> Removal]
    BY DEF TypeOK
<1>1. \A u \in Tab : Creating(u)' <=> Creating(u)
    BY DEF RemovalStep, DeleteSync, DeleteSecret, DeletePackageRevision,
           DeleteSyncedRevision, FailRemoval, Creating
<1>2. CASE DeleteSync(t)
    <2>1. Deleting(t)'
        BY <1>0, <1>2 DEF DeleteSync, Deleting
    <2>2. QED BY <2>1, InUseAfter
<1>3. CASE DeleteSecret(t)
    BY <1>3, InUseAfter DEF DeleteSecret, SecretDeleted
<1>4. CASE DeletePackageRevision(t) \/ DeleteSyncedRevision(t)
    <2>1. \A u \in Tab : Deleting(u) => Deleting(u)'
        BY <1>0, <1>4 DEF DeletePackageRevision, DeleteSyncedRevision, Deleting
    <2>2. UNCHANGED clusterVars
        BY <1>4 DEF DeletePackageRevision, DeleteSyncedRevision
    <2>3. QED BY <1>1, <2>1, <2>2, HoldersStay
<1>5. QED BY <1>2, <1>3, <1>4 DEF RemovalStep

LEMMA NextInUse ==
    ASSUME TypeOK, LockInv, OnARevision, [Next]_vars
    PROVE  StrandsNoSecret \/ \E t \in Tab : FailRequest(t) \/ FailRemoval(t)
<1>1. ASSUME UNCHANGED <<clusterVars, request, removal>> PROVE StrandsNoSecret
    BY <1>1, HoldersStay DEF Creating, Deleting
<1>2. ASSUME NEW t \in Tab, PageStep(t) PROVE StrandsNoSecret
    BY <1>1, <1>2 DEF PageStep, Visit, Leave, AnswerSearch, Refresh, AnswerRefresh
<1>3. CASE Propose
    BY <1>1, <1>3 DEF Propose
<1>4. CASE UNCHANGED vars
    BY <1>1, <1>4 DEF vars, clusterVars
<1>5. QED
    BY <1>2, <1>3, <1>4, RequestStepInUse, RemovalStepInUse DEF Next

(***************************************************************************)
(* However the handlers of several tabs overlap, only a call that fails    *)
(* for a reason of its own leaves a secret behind that no RootSync uses.   *)
(***************************************************************************)
THEOREM SecretsAreNotStranded == Spec => OnlyFailuresStrandSecret
<1> DEFINE IInv == TypeOK /\ LockInv /\ OnARevision
<1>1. Init => IInv
    BY InitTypeOK, InitLock, InitOnARevision
<1>2. IInv /\ [Next]_vars => IInv'
    BY NextTypeOK, NextLock, NextOnARevision
<1>3. IInv /\ [Next]_vars =>
         [\/ StrandsNoSecret
          \/ \E t \in Tab : FailRequest(t) \/ FailRemoval(t)]_vars
    BY NextInUse
<1>4. QED BY <1>1, <1>2, <1>3, PTL DEF Spec, OnlyFailuresStrandSecret

=============================================================================
