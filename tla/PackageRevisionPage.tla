------------------------- MODULE PackageRevisionPage -------------------------
(***************************************************************************)
(* Browser tabs that show and change the revisions of one package through  *)
(* the page of PackageRevisionPage.tsx, for a package in a writable        *)
(* repository that is not a deployment repository (so approving relinks no *)
(* RootSync).                                                              *)
(*                                                                         *)
(* A tab holds what it last read of the server, and keeps acting on it     *)
(* while other tabs change the server.  The handlers are asynchronous: one *)
(* action stands for the code between two awaits, together with the        *)
(* server's side of the call that ends it.  A call that the server refuses *)
(* changes nothing but the `userInitiatedApiRequest' flag, which is set    *)
(* and reset: it is a stuttering step and has no disjunct of its own.      *)
(* So is closing a tab, whose page then takes no further step.             *)
(***************************************************************************)
EXTENDS Porch, FiniteSets

CONSTANTS
    CatalogEdit,   \* the edits whose processing awaits the function catalog
    MaxLoads       \* bound: a user starts no load while so many are in flight

ASSUME CatalogEditAssumption == CatalogEdit \subseteq Edit
ASSUME MaxLoadsAssumption == MaxLoads \in Nat \ {0}

VARIABLES
    page,   \* page[t]: the React state of the page in tab t
    loads   \* the calls of loadPackageRevision that have not ended

vars == <<revision, version, page, loads>>

(* A user's edit is named after the tab it is made in. *)
Tab == Edit

Mode == {"VIEW", "EDIT"}

(***************************************************************************)
(* status     closed: the page is not mounted; loading, error, ready: what *)
(*            useAsync reports of the load of the visited URL              *)
(* url, mode  packageName of the URL, and which of its two routes          *)
(* list       packageRevisions: the package's revisions as last loaded     *)
(* shown      the name of packageRevision, one of list                     *)
(* edits      resourcesMap, and                                            *)
(* edited     resourcesMapResourceVersion.current                          *)
(* editing    yes: an edit is inside processUpdatedResourcesMap, which     *)
(*            will set resourcesMap to `processed'; overtaken: and a load  *)
(*            has ended since; mixed: the edit has then brought back the   *)
(*            resources from before that load                              *)
(* op         the user's request: idle, or what its handler awaits         *)
(* target     the revision the handler navigates to or writes              *)
(* restoring  the resources createRestoreRevision took from its closure    *)
(* openRestoreDialog   whether its dialog is open, over whatever is shown  *)
(***************************************************************************)
Page ==
    [status : {"closed", "loading", "error", "ready"},
     url : Workspace, mode : Mode,
     list : [Workspace -> Revision], shown : Workspace,
     edits : SUBSET Edit, edited : Nat,
     editing : {"no", "yes", "overtaken", "mixed"}, processed : SUBSET Edit,
     op : {"idle", "reload", "restore", "navigate"},
     target : Workspace, restoring : SUBSET Edit,
     openRestoreDialog : BOOLEAN]

Closed ==
    [status |-> "closed", url |-> 1, mode |-> "VIEW",
     list |-> NoRevisions, shown |-> 1, edits |-> {}, edited |-> 0,
     editing |-> "no", processed |-> {},
     op |-> "idle", target |-> 1, restoring |-> {},
     openRestoreDialog |-> FALSE]

(***************************************************************************)
(* One call of loadPackageRevision for url, and the two lists it awaits:   *)
(* revs of listPackageRevisions and res of listPackageRevisionResources,   *)
(* each taken when the server answers it.  caller is visit for the load of *)
(* the useAsync of the current URL, superseded once the URL or the mode    *)
(* has changed, and handler for the reload that ends a user's request.     *)
(***************************************************************************)
Load ==
    [tab : Tab, url : Workspace, caller : {"visit", "superseded", "handler"},
     answered : SUBSET {"revisions", "resources"},
     revs : [Workspace -> Revision], res : [Workspace -> Revision]]

NewLoad(t, n, caller) ==
    [tab |-> t, url |-> n, caller |-> caller, answered |-> {},
     revs |-> NoRevisions, res |-> NoRevisions]

LoadsOf(t) == {l \in loads : l.tab = t}

TypeOK ==
    /\ revision \in [Workspace -> Revision]
    /\ version \in Nat
    /\ page \in [Tab -> Page]
    /\ loads \in SUBSET Load

-----------------------------------------------------------------------------
(* Loading                                                                 *)

(* The useAsync effect of a new URL or mode: the previous call's result is *)
(* no longer the hook's, but the call itself goes on.                      *)
Visiting(p, n, mode) ==
    [p EXCEPT !.status = "loading", !.url = n, !.mode = mode]

LoadsAfterVisit(t, n) ==
    {IF l.tab = t /\ l.caller = "visit"
     THEN [l EXCEPT !.caller = "superseded"]
     ELSE l : l \in loads} \union {NewLoad(t, n, "visit")}

RoomForLoad == Cardinality(loads) < MaxLoads

Open(t, n) ==
    /\ page[t].status = "closed" /\ page[t].op = "idle"
    /\ RoomForLoad
    /\ Exists(revision, n)
    /\ page' = [page EXCEPT ![t] = [Closed EXCEPT !.status = "loading", !.url = n]]
    /\ loads' = loads \union {NewLoad(t, n, "visit")}
    /\ UNCHANGED porchVars

(* A link to a revision of the list, the browser's back and forward, the   *)
(* Edit button of a draft, and Cancel: the same component stays mounted.   *)
Browse(t, n, mode) ==
    /\ page[t].status # "closed"
    /\ <<n, mode>> # <<page[t].url, page[t].mode>>
    /\ Exists(page[t].list, n)
    /\ mode = "EDIT" => page[t].list[n].lifecycle = "Draft"
    /\ RoomForLoad
    /\ page' = [page EXCEPT ![t] = Visiting(@, n, mode)]
    /\ loads' = LoadsAfterVisit(t, n)
    /\ UNCHANGED porchVars

AnswerRevisions(l) ==
    /\ "revisions" \notin l.answered
    /\ loads' = (loads \ {l}) \union
          {[l EXCEPT !.answered = @ \union {"revisions"}, !.revs = revision]}
    /\ UNCHANGED <<revision, version, page>>

AnswerResources(l) ==
    /\ "resources" \notin l.answered
    /\ loads' = (loads \ {l}) \union
          {[l EXCEPT !.answered = @ \union {"resources"}, !.res = revision]}
    /\ UNCHANGED <<revision, version, page>>

(* getPackageRevision throws when the URL's revision is not in the list,   *)
(* and a revision without resources makes getRevisionSummary's call throw. *)
LoadSucceeds(l) ==
    /\ Exists(l.revs, l.url)
    /\ \A n \in Workspace : Exists(l.revs, n) => Exists(l.res, n)

(* Mutant: the version of the PackageRevision, not of its resources. *)
ListedVersion(l) == l.revs[l.url].version

LoadedVersion(l) == l.res[l.url].version

(* What useAsync and the awaiting handler see of the end of a load. *)
StatusAfter(l) ==
    IF l.caller = "visit"
    THEN IF LoadSucceeds(l) THEN "ready" ELSE "error"
    ELSE page[l.tab].status

(* The finally clauses: setUserInitiatedApiRequest(false), and also        *)
(* setOpenRestoreDialog(false) at the end of the one request that is made  *)
(* while that dialog is open.                                              *)
RequestOver(p) ==
    [p EXCEPT !.op = "idle", !.target = 1, !.restoring = {}, !.openRestoreDialog = FALSE]

(* Mutant: a handler without its finally clause. *)
AwaitWithoutFinally(l, p) == p

AwaitOver(l, p) == IF l.caller = "handler" THEN RequestOver(p) ELSE p

Processing(p) == p.editing \in {"yes", "overtaken"}

Loaded(l) ==
    LET p == AwaitOver(l, [page[l.tab] EXCEPT !.status = StatusAfter(l)]) IN
    IF LoadSucceeds(l)
    THEN [p EXCEPT !.list = l.revs,
                   !.shown = l.url,
                   !.edits = l.res[l.url].edits,
                   !.edited = LoadedVersion(l),
                   !.editing = IF Processing(p) THEN "overtaken" ELSE "no"]
    ELSE p

(* The code of loadPackageRevision after its await.  Nothing guards it, so *)
(* a superseded load sets the page's state as well.                        *)
EndLoad(l) ==
    /\ l.answered = {"revisions", "resources"}
    /\ page' = [page EXCEPT ![l.tab] = Loaded(l)]
    /\ loads' = loads \ {l}
    /\ UNCHANGED porchVars

(* A call of the visit's Promise.all fails: one of the two lists, or       *)
(* listRepositories, in which case loadPackageRevision goes on.            *)
FailVisit(l) ==
    /\ l.caller = "visit"
    /\ page' = [page EXCEPT ![l.tab] = [@ EXCEPT !.status = "error"]]
    /\ \/ loads' = loads \ {l}
       \/ loads' = (loads \ {l}) \union {[l EXCEPT !.caller = "superseded"]}
    /\ UNCHANGED porchVars

-----------------------------------------------------------------------------
(* What the page offers: the buttons of PackageRevisionOptions.            *)

Shown(t) == page[t].list[page[t].shown]

Ready(t) == page[t].status = "ready"

(* An open dialog lets nothing of the page be clicked. *)
Reachable(t) == Ready(t) /\ ~page[t].openRestoreDialog

ButtonsEnabled(t) == Reachable(t) /\ page[t].op = "idle"

(* packageRevisions[0] is unpublished: a revision without a number sorts   *)
(* before every numbered one.                                              *)
NewerUnpublished(t) == \E n \in Workspace : Unpublished(page[t].list, n)

CanPropose(t) ==
    ButtonsEnabled(t) /\ Shown(t).lifecycle = "Draft" /\ page[t].mode = "VIEW"

CanSave(t) ==
    ButtonsEnabled(t) /\ Shown(t).lifecycle = "Draft" /\ page[t].mode = "EDIT"

(* Mutant: what is no draft is offered for review. *)
CanReviewAny(t) == ButtonsEnabled(t) /\ Shown(t).lifecycle # "Draft"

CanReview(t) == ButtonsEnabled(t) /\ Shown(t).lifecycle = "Proposed"

CanCreateNew(t) ==
    /\ ButtonsEnabled(t)
    /\ IsLatest(page[t].list, page[t].shown)
    /\ ~NewerUnpublished(t)

CanRestore(t) ==
    /\ ButtonsEnabled(t)
    /\ Published(page[t].list, page[t].shown)
    /\ ~IsLatest(page[t].list, page[t].shown)
    /\ ~NewerUnpublished(t)

-----------------------------------------------------------------------------
(* The handlers of PackageRevisionPage.                                    *)

(* Mutant: the lifecycle has the name an older Porch gave it. *)
MovedToFinal(copy, lifecycle) ==
    [copy EXCEPT !.lifecycle = IF lifecycle = "Published" THEN "Final" ELSE lifecycle]

(* Mutant: the request is built anew, without the copy's resourceVersion. *)
MovedAnew(copy, lifecycle) == [copy EXCEPT !.lifecycle = lifecycle, !.version = 0]

(* cloneDeep(packageRevision) with another lifecycle. *)
Moved(copy, lifecycle) == [copy EXCEPT !.lifecycle = lifecycle]

(* The reload after an accepted change of the lifecycle. *)
Reload(t) ==
    /\ page' = [page EXCEPT ![t] = [@ EXCEPT !.op = "reload"]]
    /\ loads' = loads \union {NewLoad(t, page[t].url, "handler")}

Propose(t) ==
    /\ CanPropose(t) /\ RoomForLoad
    /\ PutRevision(page[t].shown, Moved(Shown(t), "Proposed"))
    /\ Reload(t)

Reject(t) ==
    /\ CanReview(t) /\ RoomForLoad
    /\ PutRevision(page[t].shown, Moved(Shown(t), "Draft"))
    /\ Reload(t)

Approve(t) ==
    /\ CanReview(t) /\ RoomForLoad
    /\ PutApproval(page[t].shown, Moved(Shown(t), "Published"))
    /\ Reload(t)

(* getNextRevision of the copy's revision number. *)
NextWorkspace(copy) == copy.number + 1

(* getNextPackageRevisionResource(copy): its tasks rebuild its resources.  *)
PostNextRevision(copy) == PostRevision(NextWorkspace(copy), copy.edits)

CreateNewRevision(t) ==
    /\ CanCreateNew(t)
    /\ PostNextRevision(Shown(t))
    /\ page' = [page EXCEPT ![t] =
          [@ EXCEPT !.op = "navigate", !.target = NextWorkspace(Shown(t))]]
    /\ UNCHANGED loads

OpenRestoreDialog(t) ==
    /\ CanRestore(t)
    /\ page' = [page EXCEPT ![t] = [@ EXCEPT !.openRestoreDialog = TRUE]]
    /\ UNCHANGED <<revision, version, loads>>

(* The dialog is cancelled, or its action refused.  A visit leaves it open *)
(* over the page of another revision, whose resources it then restores.    *)
CloseRestoreDialog(t) ==
    /\ Ready(t) /\ page[t].openRestoreDialog
    /\ page' = [page EXCEPT ![t] = [@ EXCEPT !.openRestoreDialog = FALSE]]
    /\ UNCHANGED <<revision, version, loads>>

(* createRestoreRevision, of the list and the resources of when the dialog *)
(* is confirmed: first a new revision of the latest published one ...      *)
CreateRestoreRevision(t) ==
    /\ Ready(t) /\ page[t].openRestoreDialog /\ page[t].op = "idle"
    /\ ~NewerUnpublished(t)
    /\ \E n \in Workspace :
          /\ IsLatest(page[t].list, n)
          /\ PostNextRevision(page[t].list[n])
          /\ page' = [page EXCEPT ![t] =
                [@ EXCEPT !.op = "restore",
                          !.target = NextWorkspace(page[t].list[n]),
                          !.restoring = page[t].edits]]
    /\ UNCHANGED loads

(* ... and then the viewed resources into it, which the server may refuse  *)
(* (and the model, once the bound on versions is reached).                 *)
RestoreVersion(t) == page[t].edited

ReplaceRevisionsResources(t) ==
    /\ page[t].op = "restore"
    /\ LET p == page[t] IN
       \/ /\ PutResources(p.target, p.restoring, RestoreVersion(t))
          /\ page' = [page EXCEPT ![t] =
                [@ EXCEPT !.op = "navigate", !.restoring = {}]]
       \/ /\ ~AcceptsResources(p.target, RestoreVersion(t)) \/ version = MaxVersion
          /\ page' = [page EXCEPT ![t] = RequestOver(@)]
          /\ UNCHANGED porchVars
    /\ UNCHANGED loads

(* savePackageRevision: render errors keep the user in the editor. *)
SavedVersion(t) == page[t].edited

SavePackageRevision(t) ==
    /\ CanSave(t)
    /\ PutResources(page[t].url, page[t].edits, SavedVersion(t))
    /\ \/ page' = [page EXCEPT ![t] =
                [@ EXCEPT !.op = "navigate", !.target = page[t].url]]
       \/ UNCHANGED page
    /\ UNCHANGED loads

(* The answer to the handler's last call: navigate to a revision's page,   *)
(* also when the user has left for another page meanwhile.                 *)
AtTarget(p) ==
    /\ p.status # "closed"
    /\ p.url = p.target /\ p.mode = "VIEW"

Navigated(p) ==
    Visiting(IF p.status = "closed" THEN Closed ELSE RequestOver(p), p.target, "VIEW")

Navigate(t) ==
    /\ page[t].op = "navigate"
    /\ \/ /\ AtTarget(page[t])
          /\ page' = [page EXCEPT ![t] = RequestOver(@)]
          /\ UNCHANGED loads
       \/ /\ ~AtTarget(page[t])
          /\ page' = [page EXCEPT ![t] = Navigated(@)]
          /\ loads' = LoadsAfterVisit(t, page[t].target)
    /\ UNCHANGED porchVars

(* A call the handler awaits fails, or its answer is lost: the rest of the *)
(* handler does not run, the finally clause does.                          *)
FailRequest(t) ==
    /\ page[t].op # "idle"
    /\ page' = [page EXCEPT ![t] = RequestOver(@)]
    /\ loads' = {l \in loads : ~(l.tab = t /\ l.caller = "handler")}
    /\ UNCHANGED porchVars

(* Leaving for the repository's page unmounts this one: its loads end      *)
(* unseen, a handler goes on.                                              *)
Left(p) ==
    IF p.op \in {"restore", "navigate"}
    THEN [Closed EXCEPT !.edited = p.edited, !.op = p.op,
                        !.target = p.target, !.restoring = p.restoring]
    ELSE Closed

(* executeDeletePackageRevision: not disabled by a request in progress. A  *)
(* failed answer leaves the page as another tab's deletion leaves it.      *)
DeletePackageRevision(t) ==
    /\ Reachable(t)
    /\ DeleteRevision(page[t].url)
    /\ page' = [page EXCEPT ![t] = Left(@)]
    /\ loads' = loads \ LoadsOf(t)

-----------------------------------------------------------------------------
(* Editing: handleUpdatedResourcesMap.                                     *)

(* processUpdatedResourcesMap awaits nothing but its own results... *)
EditResources(t) ==
    /\ Reachable(t) /\ page[t].mode = "EDIT"
    /\ t \notin CatalogEdit
    /\ page' = [page EXCEPT ![t] = [@ EXCEPT !.edits = page[t].edits \union {t}]]
    /\ UNCHANGED <<revision, version, loads>>

(* ... unless it needs the function catalog for a new mutator. *)
StartEdit(t) ==
    /\ Reachable(t) /\ page[t].mode = "EDIT"
    /\ t \in CatalogEdit
    /\ ~Processing(page[t])
    /\ page' = [page EXCEPT ![t] =
          [@ EXCEPT !.editing = IF page[t].editing = "no" THEN "yes" ELSE "overtaken",
                    !.processed = page[t].edits \union {t}]]
    /\ UNCHANGED <<revision, version, loads>>

FinishEdit(t) ==
    /\ Processing(page[t])
    /\ page' = [page EXCEPT ![t] =
          [@ EXCEPT !.editing = IF page[t].editing = "yes" THEN "no" ELSE "mixed",
                    !.processed = {},
                    !.edits = page[t].processed]]
    /\ UNCHANGED <<revision, version, loads>>

-----------------------------------------------------------------------------
(* Specification                                                           *)

Init ==
    /\ PorchInit
    /\ page = [t \in Tab |-> Closed]
    /\ loads = {}

UserStep(t) ==
    \/ \E n \in Workspace : Open(t, n)
    \/ \E n \in Workspace, mode \in Mode : Browse(t, n, mode)
    \/ Propose(t)
    \/ Reject(t)
    \/ Approve(t)
    \/ CreateNewRevision(t)
    \/ OpenRestoreDialog(t)
    \/ CloseRestoreDialog(t)
    \/ CreateRestoreRevision(t)
    \/ SavePackageRevision(t)
    \/ DeletePackageRevision(t)
    \/ EditResources(t)
    \/ StartEdit(t)

LoadStep(l) ==
    AnswerRevisions(l) \/ AnswerResources(l) \/ EndLoad(l)

(* What goes on by itself once a user's request has been sent. *)
RequestStep(t) ==
    \/ Navigate(t)
    \/ ReplaceRevisionsResources(t)
    \/ \E l \in loads : l.tab = t /\ l.caller = "handler" /\ LoadStep(l)

Next ==
    \/ \E t \in Tab : UserStep(t)
    \/ \E t \in Tab : RequestStep(t)
    \/ \E t \in Tab : FinishEdit(t) \/ FailRequest(t)
    \/ \E l \in loads : LoadStep(l) \/ FailVisit(l)

Spec == Init /\ [][Next]_vars

(* Every call of a user's request is answered. *)
FairSpec == Spec /\ \A t \in Tab : WF_vars(RequestStep(t))

-----------------------------------------------------------------------------
(* Properties                                                              *)

(***************************************************************************)
(* No lost update: whenever the server would accept the save of a page,    *)
(* the page's resources contain every edit the server has, so that         *)
(* savePackageRevision never overwrites another tab's save.  The exception *)
(* is a page on which a load has ended while handleUpdatedResourcesMap was *)
(* processing an edit: the edit then brings back the older resources under *)
(* the newer resourceVersion.                                              *)
(***************************************************************************)
SaveKeepsUpdates ==
    \A t \in Tab :
       /\ AcceptsResources(page[t].url, SavedVersion(t))
       /\ page[t].status = "ready"
       /\ page[t].editing \in {"no", "yes"}
       => revision[page[t].url].edits \subseteq page[t].edits

(***************************************************************************)
(* createRestoreRevision refuses to go on when `an unpublished revision    *)
(* already exists for this package', and createNewRevision is not offered  *)
(* then: a package never has two unpublished revisions, however old the    *)
(* list is that the check was made on.                                     *)
(***************************************************************************)
AtMostOneUnpublished ==
    \A m, n \in Workspace :
       Unpublished(revision, m) /\ Unpublished(revision, n) => m = n

(***************************************************************************)
(* getNextPackageRevisionResource names the workspace after the revision   *)
(* number the draft is to get: a revision is published under the number of *)
(* the workspace it was made in.                                           *)
(***************************************************************************)
PublishedAsNamed ==
    \A n \in Workspace : Published(revision, n) => revision[n].number = n

(***************************************************************************)
(* The tabs together implement one line of history: see PackageHistory.    *)
(* It holds as long as published revisions are not deleted.                *)
(***************************************************************************)
History ==
    INSTANCE PackageHistory
       WITH lifecycle <- [n \in Workspace |-> revision[n].lifecycle],
            content <- [n \in Workspace |-> revision[n].edits]

OneLineOfHistory == History!Spec

(***************************************************************************)
(* The buttons do not stay disabled: a user's request always ends and the  *)
(* finally clause resets userInitiatedApiRequest, whatever loads, visits   *)
(* and other tabs do meanwhile.                                            *)
(***************************************************************************)
RequestEnds == \A t \in Tab : page[t].op # "idle" ~> page[t].op = "idle"

(***************************************************************************)
(* `Please correct any errors and resave the package': after a save whose  *)
(* rendering failed the server accepts the page's next save, as long as    *)
(* nobody else writes the revision.                                        *)
(***************************************************************************)
ResaveAccepted ==
    [][\A t \in Tab :
          SavePackageRevision(t) /\ UNCHANGED page
          => AcceptsResources(page[t].url, SavedVersion(t))']_vars

(***************************************************************************)
(* `Create new revision to restore [the package] to revision [n]': while   *)
(* nobody else has written the revision that createRestoreRevision has     *)
(* created, the server accepts the viewed resources for it.                *)
(***************************************************************************)
RestoreAccepted ==
    \A t \in Tab :
       page[t].op = "restore"
       => AcceptsResources(page[t].target, RestoreVersion(t))

(***************************************************************************)
(* `Are you sure you want to delete this revision?': the revision deleted  *)
(* is the one the page shows, although executeDeletePackageRevision takes  *)
(* its name from the URL and the rest of the page comes from the last load *)
(* to end.                                                                 *)
(***************************************************************************)
DeletesShownRevision ==
    [][\A t \in Tab :
          DeletePackageRevision(t) => page[t].url = page[t].shown]_vars

-----------------------------------------------------------------------------
(* Invariants that a step preserves: why the properties hold.              *)

(* The lists of revisions that pages and loads hold. *)
Copies ==
    {page[t].list : t \in Tab} \union {l.revs : l \in loads} \union {l.res : l \in loads}

(* A resourceVersion names one state of one revision. *)
VersionsName(revs) ==
    \A n \in Workspace : Exists(revs, n) =>
       /\ revs[n].version \in 1..version
       /\ \A m \in Workspace :
             Exists(revision, m) /\ revision[m].version = revs[n].version
             => m = n /\ revs[n] = revision[m]

VersionsInv == VersionsName(revision) /\ \A revs \in Copies : VersionsName(revs)

(* As long as a page's version is the current one of a revision, the page  *)
(* has that revision's edits, and so will an edit in progress.             *)
KeepsUpdates(p) ==
    /\ p.edited \in 0..version
    /\ p.status = "ready" => p.edited # 0
    /\ p.status # "closed" /\ p.editing \in {"no", "yes"} =>
          \A m \in Workspace : Exists(revision, m) /\ revision[m].version = p.edited =>
             /\ revision[m].edits \subseteq p.edits
             /\ p.editing = "yes" => revision[m].edits \subseteq p.processed

UpdatesInv ==
    /\ \A t \in Tab : KeepsUpdates(page[t])
    /\ \A l \in loads : page[l.tab].status # "closed"

(* What a copy says of a published revision stays true. *)
Frozen(revs) ==
    \A n \in Workspace : Published(revs, n) =>
       /\ Published(revision, n)
       /\ revs[n].number = n
       /\ revs[n].edits = revision[n].edits

(* Every revision before an existing one is published. *)
InLine ==
    \A m, n \in Workspace : m < n /\ Exists(revision, n) => Published(revision, m)

HistoryInv == InLine /\ PublishedAsNamed /\ \A revs \in Copies : Frozen(revs)

=============================================================================
