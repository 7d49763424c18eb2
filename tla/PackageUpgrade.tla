---------------------------- MODULE PackageUpgrade ----------------------------
(***************************************************************************)
(* Upgrades of packages to newer revisions of the blueprints that they     *)
(* were cloned from: what PackageRevisionPage's loads tell of the upstream *)
(* package, and the revisions that are created from it.                    *)
(*                                                                         *)
(* A revision knows its upstream revision (status.upstreamLock).  A load   *)
(* looks it up in the listed repositories and revisions, and keeps the     *)
(* latest published revision of the blueprint in a React ref, which the    *)
(* upgrade uses later.  React updates after an await are not batched, and  *)
(* a load that was overtaken by a visit still writes the state of the page *)
(* (see PackageRevisionPage, which also has the life of a draft until it   *)
(* is approved, and the requests' awaits).                                 *)
(***************************************************************************)
EXTENDS Integers, Sequences

CONSTANTS
    Package,       \* the packages that may be upgraded
    Blueprint,     \* the packages they are clones of
    MaxRevision,   \* bound: revisions of each package
    MaxTag         \* bound: the revision numbers of each blueprint

ASSUME UpgradeBoundsAssumption == MaxRevision \in Nat \ {0} /\ MaxTag \in Nat \ {0}

VARIABLES
    tags,      \* tags[b]: the published revisions of blueprint b
    locks,     \* locks[p]: the upstream locks of the revisions of package p
    draft,     \* draft[p]: whether the last revision of p is unpublished
    page       \* the state of the page in one browser tab

vars == <<tags, locks, draft, page>>

Tag == 1..MaxTag

(* An upstream lock: a revision of a blueprint; tag 0 where there is none. *)
Lock == [blueprint : Blueprint, tag : 0..MaxTag]

Name == [package : Package, number : 1..MaxRevision]

(***************************************************************************)
(* at                       the revision in the URL                        *)
(* waits                    the calls of the page's useAsync not ended     *)
(* loads                    other loads of revisions under way             *)
(* repositories             whether allRepositories.current is filled      *)
(* shown, latest            packageRevision, and whether it is labelled as *)
(*                          the latest published one with none newer       *)
(* upgrade                  isUpgradeAvailable                             *)
(* summary                  whether upstreamPackageSummary is defined      *)
(* ref                      latestPublishedUpstream.current                *)
(* crashed                  rendering the page has thrown                  *)
(***************************************************************************)
Page ==
    [at : Name, waits : SUBSET {"repositories", "revisions"}, loads : SUBSET Name,
     repositories : BOOLEAN, shown : Name, latest : BOOLEAN,
     upgrade : BOOLEAN, summary : BOOLEAN, ref : Lock, crashed : BOOLEAN]

TypeOK ==
    /\ tags \in [Blueprint -> SUBSET Tag]
    /\ locks \in [Package -> Seq(Lock)]
    /\ \A p \in Package : Len(locks[p]) \in 1..MaxRevision
    /\ draft \in [Package -> BOOLEAN]
    /\ page \in Page
    /\ \A r \in page.loads \union {page.at, page.shown} :
          r.number <= Len(locks[r.package])

-----------------------------------------------------------------------------
(* The revisions in Porch                                                  *)

Exists(r) == r.number <= Len(locks[r.package])

LockOf(r) == locks[r.package][r.number]

Newest(p) == [package |-> p, number |-> Len(locks[p])]

(* isLatestPublishedRevision: Porch labels it *)
IsLatestPublished(r) ==
    r.number = Len(locks[r.package]) - (IF draft[r.package] THEN 1 ELSE 0)

LatestTag(b) == CHOOSE n \in tags[b] : \A m \in tags[b] : m <= n

LatestUpstream(r) ==
    LET b == LockOf(r).blueprint IN [blueprint |-> b, tag |-> LatestTag(b)]

(* The upstream revision of r is found: its repository among those that    *)
(* the page has, and the revision, which may have been deleted.            *)
UpstreamFound(p, r) ==
    /\ p.repositories
    /\ LockOf(r).tag \in tags[LockOf(r).blueprint]

(* Somebody publishes or deletes a revision of a blueprint. *)
PublishBlueprint(b) ==
    /\ \E n \in Tag \ tags[b] :
          /\ \A m \in tags[b] : m < n
          /\ tags' = [tags EXCEPT ![b] = @ \union {n}]
    /\ UNCHANGED <<locks, draft, page>>

DeleteBlueprint(b) ==
    /\ \E n \in tags[b] : tags' = [tags EXCEPT ![b] = @ \ {n}]
    /\ UNCHANGED <<locks, draft, page>>

-----------------------------------------------------------------------------
(* Visits and loads                                                        *)

Loading(p) == p.waits # {}

(* `The upstream package summary is not defined' *)
Rendered(p) ==
    [p EXCEPT !.crashed = @ \/ (~Loading(p) /\ p.upgrade /\ ~p.summary)]

(* The page for another revision of the route keeps its state, and loads   *)
(* that are under way go on.  A page that crashed has to be opened again.  *)
Visited(p, r) ==
    [p EXCEPT !.at = r,
              !.waits = {"repositories", "revisions"},
              !.loads = IF "revisions" \in p.waits THEN @ \union {p.at} ELSE @]

Opened(r) ==
    [at |-> r, waits |-> {"repositories", "revisions"}, loads |-> {},
     repositories |-> FALSE, shown |-> r, latest |-> FALSE, upgrade |-> FALSE,
     summary |-> FALSE, ref |-> [blueprint |-> LockOf(r).blueprint, tag |-> 0],
     crashed |-> FALSE]

Visit(r) ==
    /\ Exists(r)
    /\ page' = IF page.crashed THEN Opened(r) ELSE Visited(page, r)
    /\ UNCHANGED <<tags, locks, draft>>

AnswerRepositories ==
    /\ "repositories" \in page.waits
    /\ LET p == [page EXCEPT !.waits = @ \ {"repositories"}, !.repositories = TRUE]
       IN page' = Rendered(p)
    /\ UNCHANGED <<tags, locks, draft>>

UpgradeAvailable(p, r) ==
    /\ UpstreamFound(p, r) /\ IsLatestPublished(r)
    /\ LockOf(r) # LatestUpstream(r)

(* Mutant: the ref is filled once. *)
UpstreamRefOnce(p, r) ==
    IF p.ref.tag = 0 /\ UpstreamFound(p, r) /\ IsLatestPublished(r)
    THEN LatestUpstream(r) ELSE p.ref

UpstreamRef(p, r) ==
    IF UpstreamFound(p, r) /\ IsLatestPublished(r) THEN LatestUpstream(r) ELSE p.ref

(* loadPackageRevision after its await, as far as the upgrade goes, up to  *)
(* setUpstreamPackageSummary, which renders the page, and then to its end. *)
UpstreamLoaded(p, r) ==
    [p EXCEPT !.shown = r,
              !.latest = r = Newest(r.package) /\ ~draft[r.package],
              !.ref = UpstreamRef(p, r),
              !.summary = UpstreamFound(p, r)]

Loaded(p, r) ==
    LET q == Rendered(UpstreamLoaded(p, r)) IN
    IF q.crashed THEN q
    ELSE [q EXCEPT !.upgrade = UpgradeAvailable(p, r)]

EndLoad ==
    /\ "revisions" \in page.waits
    /\ LET p == [Loaded(page, page.at) EXCEPT !.waits = @ \ {"revisions"}]
       IN page' = Rendered(p)
    /\ UNCHANGED <<tags, locks, draft>>

EndOtherLoad(r) ==
    /\ r \in page.loads
    /\ LET p == [page EXCEPT !.loads = @ \ {r}]
       IN page' = Rendered(Loaded(p, r))
    /\ UNCHANGED <<tags, locks, draft>>

-----------------------------------------------------------------------------
(* Requests.  Each is answered at once.                                    *)

Ready == ~Loading(page) /\ ~page.crashed

(* getNextRevision: the workspace after the revision shown *)
NextNumber(r) == r.number + 1

(* Porch accepts a new workspace, which is the next one, and the draft's   *)
(* page is visited.  Bound: MaxRevision.                                   *)
CreateRevision(l) ==
    LET r == page.shown
        n == NextNumber(r)
    IN
    /\ n = Len(locks[r.package]) + 1 /\ n <= MaxRevision
    /\ locks' = [locks EXCEPT ![r.package] = Append(@, l)]
    /\ draft' = [draft EXCEPT ![r.package] = TRUE]
    /\ page' = Visited(page, [r EXCEPT !.number = n])
    /\ UNCHANGED tags

(* The clone task and the update task of the upgrade: Porch locks the new  *)
(* revision to the blueprint's revision named last.                        *)
CreateUpgradeRevision ==
    /\ Ready
    /\ page.latest /\ page.upgrade
    /\ page.ref.tag \in tags[page.ref.blueprint]
    /\ CreateRevision(page.ref)

CreateNewRevision ==
    /\ Ready
    /\ page.latest
    /\ CreateRevision(LockOf(page.shown))

(* approveProposedPackage, and its load *)
Approve ==
    LET r == page.shown IN
    /\ Ready
    /\ r = Newest(r.package) /\ draft[r.package]
    /\ draft' = [draft EXCEPT ![r.package] = FALSE]
    /\ page' = [page EXCEPT !.loads = @ \union {r}]
    /\ UNCHANGED <<tags, locks>>

(* The same by another tab: its page, too, gives the new revision either   *)
(* the lock of the one before or a newer revision of its blueprint.        *)
CreateElsewhere(p) ==
    LET l == LockOf(Newest(p)) IN
    /\ ~draft[p] /\ Len(locks[p]) < MaxRevision
    /\ \E n \in {l.tag} \union tags[l.blueprint] :
          /\ n >= l.tag /\ (l.tag = 0 => n = 0)
          /\ locks' = [locks EXCEPT ![p] = Append(@, [l EXCEPT !.tag = n])]
    /\ draft' = [draft EXCEPT ![p] = TRUE]
    /\ UNCHANGED <<tags, page>>

ApproveElsewhere(p) ==
    /\ draft[p]
    /\ draft' = [draft EXCEPT ![p] = FALSE]
    /\ UNCHANGED <<tags, locks, page>>

Init ==
    /\ tags = [b \in Blueprint |-> {1}]
    /\ locks \in [Package -> {<<l>> : l \in [blueprint : Blueprint, tag : {0, 1}]}]
    /\ draft \in [Package -> BOOLEAN]
    /\ \E p \in Package : page = Opened([package |-> p, number |-> 1])

Next ==
    \/ \E b \in Blueprint : PublishBlueprint(b) \/ DeleteBlueprint(b)
    \/ \E p \in Package : CreateElsewhere(p) \/ ApproveElsewhere(p)
    \/ \E r \in Name : Visit(r) \/ EndOtherLoad(r)
    \/ AnswerRepositories
    \/ EndLoad
    \/ CreateUpgradeRevision
    \/ CreateNewRevision
    \/ Approve

Spec == Init /\ [][Next]_vars

-----------------------------------------------------------------------------
(* Properties                                                              *)

(***************************************************************************)
(* Over its revisions a package never changes its blueprint, nor goes back *)
(* to an older revision of it.  createUpgradeRevision combines the         *)
(* packageRevision shown with a ref that loads of any package may have     *)
(* filled, and a load compares the two upstream revisions only for being   *)
(* different, while blueprints are published and deleted.                  *)
(***************************************************************************)
HistoryAscends ==
    \A p \in Package : \A i, j \in 1..Len(locks[p]) :
       i < j => /\ locks[p][i].blueprint = locks[p][j].blueprint
                /\ locks[p][i].tag <= locks[p][j].tag

(***************************************************************************)
(* PackageRevisionPage.tsx:730 throws if an upgrade is available and the   *)
(* upstream package summary is not defined.                                *)
(***************************************************************************)
SummaryDefined == ~page.crashed

=============================================================================
