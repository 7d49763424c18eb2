# TLA+ models of the kpt Backstage plugins

The repository holds two Backstage plugins: `plugins/cad` (the user interface of
Config as Data: repositories, packages and their revisions, kept by a Porch
server) and `plugins/cad-backend` (the proxy between that interface and the
Kubernetes API). This directory holds TLA+ modules that model the part of them
where states, requests and other users interleave, TLC configurations that check
the modules on small instances, and proofs checked by TLAPS.

Paths below are relative to `plugins/cad/src/` unless they start with `plugins/`.

## The system

| Component | State it keeps | Operations | Talks to |
|---|---|---|---|
| Package revision page (`components/PackageRevisionPage/`) | the last loaded list, shown revision, resources map and its resourceVersion; `userInitiatedApiRequest` | load, visit, propose, reject, approve, create, restore, upgrade, edit, save, delete | Porch, through `apis/PorchRestApi.ts` |
| Upgrade availability (same page) | `allRepositories`, upstream repository, revision and summary, `isUpgradeAvailable` | part of every load | two loads that race |
| Syncs of a deployment package (same page, `AdvancedPackageRevisionOptions.tsx`, `utils/configSync.ts`) | `rootSync`, `syncStatus` | create, relink on approval, poll, delete | RootSyncs and Secrets of the cluster |
| Repository registration (`RegisterRepositoryPage`, `AdvancedRepositoryOptions.tsx`) | form state | create secret and repository; delete both | Porch, Secrets |
| Add package wizard (`AddPackagePage`) | lists, chosen source and destination, namespace state | create a package, then write its resources | Porch |
| Resources of a revision (`utils/packageRevisionResources.ts`, `ResourcesTabContent.tsx`, `PackageResourcesList.tsx`) | the resources map of the page; the revision compared with | add, change, remove a resource; diff | the page |
| Processing of updated resources (`updatedResourcesMap/`) | none | add the replacements and set-labels functions to the Kptfile | the function catalog, awaited |
| Resource editor dialogs (`ResourceEditorDialog`, `FirstClassEditors/`) | the YAML edited; in every accordion a copy of the part it edits | type, choose, add, delete, switch views, save, discard | the page |
| Parametric editor (`PxeParametricEditor/`) | the resource; in a roster the items as they are typed | change requests | the dialog |
| Porch client (`apis/PorchRestApi.ts`) | features, token scheme | one method per call | backend proxy |
| Backend proxy (`plugins/cad-backend/src/service/`) | configuration | features, function catalog, proxy of Kubernetes requests | Kubernetes API |
| Tables, summaries, landing page, viewers, links | loaded lists | pure functions and presentation | Porch client |

What is hard to get right here is not one function but the order of things:

* every page acts on copies of the server's state, while other tabs and users
  change it; the only protection is the resourceVersion sent with some calls;
* the handlers are `async` functions: between two awaits the user browses on,
  another load ends, a dialog is opened, and React keeps the same
  `PackageRevisionPage` component mounted over the two routes of all revisions,
  so a late answer writes the state of whatever page is shown by then;
* several operations are two or more calls (create and write resources, secret
  and sync, delete and recreate), any of which may fail;
* inside a dialog nothing is concurrent, and still every accordion edits a copy made
  when it was mounted, through closures of some earlier render: which copy is sent, and
  whether it is the newest of every field, depends on how React renders and on which
  copies are shared.

## What makes the components correct

* Revision page: no saved edit is lost; the revisions of a package form one line
  of history (v1, v2, ..., frozen once published, at most one open); what a
  handler changes is what the page shows; the buttons come back.
* Upgrade availability: the page never reports an upgrade without its upstream;
  the availability does not depend on which of the two loads ends first.
* Syncs: a deployed package is synced to one revision only, by a sync whose secret
  exists; no secret outlives its sync; a failed step can be retried.
* Registration: no repository loses the secret it uses, and no secret outlives its
  repositories; a repository is listed under the content it was registered for.
* Wizard: the package created is the one confirmed, of a source and in a repository
  that the action names; no function loses its configuration.
* Resources: an edit changes the resource it was made for; the Kptfile's functions
  follow the resources that configure them; the page can show every map it is given.
* Editors: what was typed is in the YAML, whatever is typed elsewhere; nothing else of
  the resource changes; of several options the one shown is written, and only that one.
* Backend: every request gets one answer; nothing is proxied without the
  credentials of the configured provider.

## Modules

| Module | What it is |
|---|---|
| `Porch` | External: the revisions of one package as the server keeps them, and what the code relies on in its answers. |
| `PackageRevisionPage` | The page in any number of tabs, with all loads in flight. |
| `PackageHistory` | Abstract specification: one line of history. |
| `MCPackageRevisionPage` | The instances that TLC checks. |
| `PackageRevisionPage_proofs` | Type correctness, no lost update, and that the page implements `PackageHistory`. |
| `PackageSync` | The RootSync of one deployed package, its secret, and the tabs that create, relink, poll and delete them. |
| `MCPackageSync`, `PackageSync_proofs` | Its instance for TLC; type correctness, and the three properties of the sync and its secret. |
| `PackageUpgrade` | Packages cloned from blueprints, and one tab whose loads and requests upgrade them. |
| `MCPackageUpgrade`, `PackageUpgrade_proofs` | Its instance for TLC; packages only ascend in the history of their blueprint. |
| `KptPipeline` | The set-namespace and kubeval functions of a package: pure operators of the wizard. |
| `AddPackagePage` | The add package wizard, from its load to the navigation at its end. |
| `MCAddPackagePage`, `AddPackagePage_proofs` | Its instance for TLC; types, allowed clones, and packages configured as confirmed. |
| `ResourcesEditor` | The resources table and its dialog, and the processing of overlapping edits. |
| `MCResourcesEditor`, `ResourcesEditor_proofs` | Its instance for TLC; functions follow their resources, the page can be shown, and a fresh dialog changes one resource. |
| `FormEditor` | The dialog that edits one resource, with a form that is a tree of accordions. |
| `EditorForms` | Seventeen such forms as data: which accordion edits what, and how. |
| `FormEditor_proofs` | Types, that no accordion sends an older copy, and that of several options one is written, the one shown; for every form. |
| `WorkloadEditor` | The form of a Deployment or StatefulSet, whose copies share objects. |
| `EditorList` | The lists of the forms, with their deleted elements. |
| `KptFunctionEditor` | The accordion of a function, with its effects and the catalog. |
| `ParametricEditor` | The parametric editor with one roster. |
| `Deletable` | The elements of a list that are not marked as deleted, for the three modules that have such lists. |
| `Editors_proofs` | The workload, the lists, the function and the roster: every property that is checked of them. |
| `RepositoryRegistration` | Registering and unregistering repositories and their secrets. |
| `RepositoryRegistration_proofs` | Secrets in use are kept, none is left over, and repositories are what they were registered as. |
| `MCScreens` | The instance of `FormEditor` with its forms, `WorkloadEditor`, `EditorList`, `KptFunctionEditor`, `ParametricEditor` and `RepositoryRegistration` for TLC. |

`PackageRevisionPage`, `PackageSync` and `PackageUpgrade` are views of `PackageRevisionPage.tsx`,
each with the state its operations read. They meet in the life of a revision:
`PackageRevisionPage` says how one is created, reviewed and published from stale
copies; `PackageSync` takes publication as one step and follows what is deployed;
`PackageUpgrade` takes creation and approval as one step each and follows where a
revision comes from. A composition of all three would be too large for TLC, and they
share no state that a handler of one writes and another's properties read, except the
published revisions. `ResourcesEditor` details what `PackageRevisionPage` has as one
edit: its `pending` edits are that module's `editing`, and a load that ends under one of
them is modelled there. The editors detail what `ResourcesEditor` has as one save of the
dialog: any text the user likes. `FormEditor` treats a list as one field and a function's
image as another; `EditorList` and `KptFunctionEditor` are what happens inside them, and
`WorkloadEditor` is the outer part of the two forms whose accordions are not independent
of each other. These modules, and `RepositoryRegistration`, share no state.

### PackageRevisionPage and Porch

`page[t]` is the React state of the page in tab `t`. Its fields are those of
`PackageRevisionPage.tsx:188-225` that the operations read: `list` for
`revisionSummaries`, `shown` for `packageRevision`, `edits` and `edited` for
`resourcesMap` and `resourcesMapResourceVersion.current`, `status` for what
`useAsync` reports, and `op` with its `target` and `restoring` for the handler in
progress (`userInitiatedApiRequest` is `op # "idle"`). `loads` holds the calls of
`loadPackageRevision` that have not ended, with the answers they have had so far.

The content of a revision is the set of edits made to it, each named after the tab
that made it: enough to see an edit being lost. A `resourceVersion` is a number.

An action is the code between two awaits together with the server's answer to the
call at its end. `Open` and `Browse` are the visits (routes and links); each starts
a load and supersedes the earlier one, which goes on. `AnswerRevisions` and
`AnswerResources` are the two lists that one load awaits, answered in either order
and at different times; `EndLoad` is the code after the await, which nothing guards,
and `FailVisit` a failed call. `Propose`, `Reject`, `Approve`, `CreateNewRevision`,
`CreateRestoreRevision` with `ReplaceRevisionsResources`, `SavePackageRevision` and
`DeletePackageRevision` are the handlers; `Navigate` is the navigation that ends
three of them; `FailRequest` is any of their calls failing or its answer being
lost. `EditResources`, `StartEdit` and `FinishEdit` are
`handleUpdatedResourcesMap`, at once or with the function catalog awaited.

`openRestoreDialog` is the restore dialog, which `OpenRestoreDialog` and
`CloseRestoreDialog` open and close. It is modal: nothing else of the page can be
clicked (`Reachable`). But the browser goes back and forth under it and late loads end, so it
may be confirmed over another revision than it was opened for: `CreateRestoreRevision` restores
what the page shows by then, and makes its own check for an unpublished revision
(`PackageRevisionPage.tsx:521`). Its handler closes the dialog when it ends.

A call the server refuses leaves all of this as it was, except that the flag is set
and reset, so it is a stuttering step. The same is closing a tab: its page takes no
more steps.

`Porch.tla` is external. It assumes: optimistic locking by resourceVersion, and an
unconditional PUT when none is sent; a PackageRevision and its resources are one
object; resources are replaced only in a draft, and kept when rendering them fails;
workspace names are unique; approval numbers the revision after the highest
published one. `DeletePublished` says whether the server deletes published
revisions.

Left out of this module: deployment repositories (`PackageSync`), upgrades
(`PackageUpgrade`; they are created like a new revision, from the same copy),
read-only repositories (no operations), rendering, and a second click on the restore
dialog's action while its request is under way.

### PackageSync

A RootSync has the package's name and its secret is called `{package}-sync`
(`utils/configSync.ts:51`, `PackageRevisionPage.tsx:471`), so the cluster's side is two variables: `sync`, the
revision that the RootSync deploys, and `secret`, whether the secret exists.
`page[t].rootSync` is the state of that name with the three values that the code
tells apart: `undefined`, `null` (searched and not found, which is what
`showCreateSync` asks for) and a RootSync. Which RootSync the page holds does not
matter, since the handlers use its name, its namespace and its secret's name only.

`Visit` is the end of a load, which starts the search of
`PackageRevisionPage.tsx:361-373` or clears `rootSync`; `AnswerSearch` is its end,
`Refresh` and `AnswerRefresh` the poll of lines 375-391, started by a timer that the
effect on `rootSync` sets and clears. `CreateSync`, `CreateSecret` and `CreateRootSync`
are `createSync`; `Approve`, `ListSyncs`, `DeleteOldSync`, `CreateNewSync` and `Reload`
are `approveProposedPackage` with `updateRootSyncToLatestPackage`; `DeleteSync`,
`DeleteSecret`, `DeletePackageRevision` and `DeleteSyncedRevision` are the two dialogs
of the Advanced tab, which a request in progress does not disable. `request[t]` and
`removal[t]` say which call these handlers make next, and for which revision they
were started. `FailRequest` and `FailRemoval` end them: a refused call, a failed one,
one whose answer was lost (the call's own action came first), or a closed tab.
`Propose` stands for the making of the next revision.

Assumed of the cluster: names are unique in the namespace, so creating what exists
and deleting what does not are refused. Left out: repositories without a secret
(`createSync` does nothing there, and a RootSync has no secret to keep), and
RootSyncs that were not made by the plugin.

### PackageUpgrade

`tags[b]` are the published revisions of blueprint `b`, `locks[p]` the upstream locks
of package `p`'s revisions in the order of their numbers, and `draft[p]` whether the
last one is unpublished. `page` is the state of the page in one tab:
`repositories` for `allRepositories.current` being filled, `shown` and `latest` for
`packageRevision` and its place in the list, `upgrade` for `isUpgradeAvailable`,
`summary` for `upstreamPackageSummary` being defined, and `ref` for
`latestPublishedUpstream.current`, whose tag is 0 before any load has filled it.

`Visit` starts the two calls of the page's `useAsync`; `AnswerRepositories` is
`loadRepositorySummary`, `EndLoad` the rest of `loadPackageRevision`, `EndOtherLoad`
the same for a load that a visit overtook or a reload. They end in any order. A load
reads the lists when it ends: that the list of revisions may have been answered some
time before is left to `PackageRevisionPage`. `Rendered` stands for
React rendering the page, which happens after every `set` that follows an await:
`crashed` is the throw of `PackageRevisionPage.tsx:730`. `CreateUpgradeRevision`,
`CreateNewRevision` and `Approve` are the handlers, each answered at once (the
interleavings of their awaits are in `PackageRevisionPage`), `CreateElsewhere` and
`ApproveElsewhere` those of other tabs, `PublishBlueprint` and `DeleteBlueprint` what
happens to blueprints meanwhile.

Assumed of Porch: the revision made by an update task has its upstream locked to the
revision named in the task; a new revision copies the tasks, and so the lock, of the
one before; an upstream revision that has been deleted cannot be cloned from.

### KptPipeline and AddPackagePage

A package is what the wizard reads and writes of it: where its set-namespace and
kubeval functions have their configuration (`mutator`, `validator`), the resources in
five files that they may be configured by, and the description, keywords and site of
the Kptfile as one `info`. `GetNamespaceState` and `SetKubeval` read the form's
settings from a package, `ApplyNamespaceState` and `ApplyValidateResourcesState` write
them, with the adding, updating and removing of single resources that they are made
of. Other functions and files are not touched by this code.

`page` has the choices and the form. React's effects run after a choice until nothing
changes, so they are part of it: `WithAction`, `WithSourceRepository` and
`SourceCleared` are the three effects of `AddPackagePage.tsx:282-353`. `listed` is the
repository whose packages the select offers (`sourcePackageRevisionSelectItems`),
which is not always the one chosen. `calls[s]` counts the `getPackageResources` calls
for source `s` that are under way; `AnswerResources` fills the form with their answer
whenever it comes. `request` is `createPackage` with the values that its closures
took from the page when it was started, and `created` the package on the server.
`FailCreate` is a call refused, failed, or with its answer lost after Porch has made
the package.

Assumed of Porch: a clone has the content of its source, an init task makes a package
with a package context and no functions. `SeparateConfigAssumption` says what
`applyNamespaceState` relies on: in a package to be cloned, the two functions do not
share a file, and no `set-namespace.yaml` is left that no function uses. Left out:
the stepper (every step can be reached), the warning at read-only repositories, and
other users of the new package before its resources are written.

### ResourcesEditor

`resourcesMap` is the page's map as `getPackageResourcesFromResourcesMap` reads it: the
resources of each file in order (no resources: the file is not in the map), and the pairs
of function and configPath in the Kptfile's mutators. A resource is its kind and a name
that stands for the rest of its text; indexes count from one. `Blank` is what an empty
text reads as: `createMultiResourceYaml` makes one of an empty array, and of each hole
that an assignment beyond the end of an array leaves. `Parses` fails on it, as
`loadYaml(...).kind` does.

`dialog` is the editor with the `selectedDialogResource` ref of `PackageRevisionResourcesTable`:
the file, index and content of when it was opened. The table's clicks (`OpenResource`,
`AddNew`, `DeleteResource`) and the dialog's save (`SaveNew`, `SaveResource`,
`MoveResource` when the path annotation names another file, `SaveKptfile`) are
`onUpdatedResource` with the updates of `packageRevisionResources.ts`; each ends in
`Update`, the call of `handleUpdatedResourcesMap`. The `pending` edits are its calls
inside `processUpdatedResourcesMap`, each with the map it began with, the map it has made
so far and the pass it is at. `EndReplacements` and `EndEdit` end the two passes, which
are one text for two kinds and so one operator, `Processed`. A pass that has to read the
catalog (`AwaitsCatalog`) lets users go on; one that does not is settled before the next
event (`Settled`). `LoseEdit` is a rejection that nothing handles: the catalog fails, or
the map has a blank.

A name generated for a new file is any file that has no resource; a path annotation may
name any file. The Kptfile is edited, but not moved, and lists a function once for a
file. Left out: sub-packages with a Kptfile of their own, filters, sorting, and the
comparison with another revision.

### FormEditor and EditorForms

The form editors (`FirstClassEditors/`) are one program written over and over: an
accordion clones the value it is given into a ref when it is mounted, its controls set
fields of that copy and send it with `onUpdate`, and the accordion around it takes what it
gets into its own copy and sends that on, until the effect of the editor writes
`latestYaml` (`ServiceEditor.tsx:120` and its like). `FormEditor` is that program;
`EditorForms` says for each form which accordions there are and what they do differently:

| Field of an accordion | In the code |
|---|---|
| `in` | the accordions around it |
| `edits`, `keeps` | the fields it has a control for; those it only hands on |
| `choice`, `default` | an option, such as the source of a variable or the kind of a probe, with the fields of each option; one that is not in the resource is worked out when mounting |
| `late` | a choice kept by `useState`, which the handler of the choice still reads as it was (`HealthEditorAccordion.tsx:102`) |
| `erases` | fields that normalizing takes from a part the copies share (`EnvVarEditorAccordion.tsx:105`) |
| `blanks` | fields that a copy has as an empty text (`ResourceMetadataAccordion.tsx`) |
| `sets`, `rederives` | fields and choices that a control sets besides its own |

`view[n]` is the copy of accordion `n`, `update` the call of `onUpdate` that is on its way
(`at` is who gets it next), `latestYaml` the YAML of `LegacyResourceEditorDialog`,
`resource` what the package has, `dialog` what is shown. `Type` and `Choose` are the
controls, `OnUpdate` one accordion taking and sending an update, `WriteYaml` the effect at
the end, `ShowYaml`, `EditYaml` and `ShowForm` the other view, `Save`, `Cancel` and `Open`
the dialog. A field is its value as read, a text typed, or absent. A control that behaves
like another one of its accordion is not a field of its own, and an element of a list is
one accordion, since the list itself is in `EditorList`.

### WorkloadEditor

In the two workload forms the details accordion and the pod accordion both clone the state
of the editor, shallowly, and send all of it back (`PodDetailsEditorAccordion.tsx:67`). So
`copies` has what each of them sends of a number or a text, and `Ref` for an object, whose
value is in `objects` for all copies. `current` is the other copy the StatefulSet's details
make on each render (`StatefulSetDetailsEditorAccordion.tsx`). `TypeReplicas`,
`TypeMinReady`, `TypeMaxUnavailable` and `ChooseType` are the details, `TypeRestartPolicy`,
`TypeRunAsUser` and the volumes' `AddVolume`, `TypeVolume`, `DeleteVolume` the pod. An edit
in one accordion takes back the numbers and texts typed in the other, and deleting the last
volume ends the editor (`StatefulSetEditor.tsx:117` reads the length of undefined):
`TakenBackAsAWhole` and `FailsOnLastVolumeOnly` say how far this goes. `held` is a history
variable, the copy that the details held before the last edit: a StatefulSet's details may send that
one, never an older one.

### EditorList

`rows` is a list with its `isDeleted` marks (`util/deletable.ts`), `shown` the copies of
the elements' accordions, by index, `around` whether the accordion around still holds the
array that the list mutates, or one it was sent. `AddRow`, `TypeRow`, `DeleteRow` are the
list's controls, `EditElsewhere` an edit in another accordion, which writes what `around`
holds, and `ShowAgain` the YAML view and back. `listKind` tells the lists apart by how
they tell of a new element.

### KptFunctionEditor

The variables are the states of `KptFunctionEditorAccordion.tsx:78-92`; `Pass` is a render
with the effects of lines 94 to 149, each on the values of that render. `CatalogArrives` is
the answer `KptfileEditor` waits for, then grouped by name in the next render;
`ChooseName`, `ChooseVersion` and `TypeImage` are the controls, which may hold part of a
name (`Partial`). A catalog is a sequence in the order the code sorts it in: by text, so
that `v0.9` comes before `v0.10`.

### ParametricEditor

`pxeResource` is the resource of `PxeParametricEditor`, with one text and one roster;
`itemChunks` the items that the roster shows, which is a state of its own only because two
items may have one key while it is typed. `RequestItems` is a change request of the roster,
which fails to be one when the object made of the items would lose some
(`PxeRosterWidgetNode.tsx:87`). Objects are in the order that JavaScript gives them:
integer keys go first, in ascending order, then the others in the order in which they were
first set (`ListedBefore`); a key set twice has what was set last (`EntriesOf`). A widget is
rendered again only when its value has changed in depth (`IsEqual`), a comparison that does
not see the order of an object.

### RepositoryRegistration

`page[u]` is what a user does: nothing, the form, a registration between its two calls
(`createSecret`, `registerRepository`), the page of a repository, or unregistering it
(`check`, then `unregister` with the `calls` of `Promise.all` not yet answered). `draft[u]`
is the form; its fields set each other as `RegisterRepositoryPage.tsx:201-236` does: an
address its type and content, a type the ways to authenticate. `secretItems` are the
secrets read when the form was opened. `since` is a history variable: the repositories
registered after the check. `spoiled` remembers that a call has failed, or that a
repository was registered without a type, which makes a secret nobody names.

A failed call leaves the page as it is (`Fails`, `CallFails`). The form stays filled in and may be
sent again: when only `registerRepository` failed, the secret is there already, and
`createSecret` is refused. Unregistering may be tried again from the page of the
repository, although one of its two calls may have succeeded.

Assumed of the cluster: names of repositories and of secrets are unique, a repository may
name a secret that is not there. Left out: descriptions, branches and directories, tokens,
read-only repositories, and the stepper: the model lets the user send the form whenever it is
shown, also if the stepper should show no step after the last one.

## Runs

| Run | Configuration | Checks |
|---|---|---|
| `two_tabs` | `TwoTabs.cfg` | `TypeOK`, `SaveKeepsUpdates`, `OneLineOfHistory` |
| `one_tab` | `OneTab.cfg` | `PublishedAsNamed`, `AtMostOneUnpublished`, `RequestEnds` |
| `restore` | `Restore.cfg` | `RestoreAccepted`, violated |
| `resave` | `Resave.cfg` | `ResaveAccepted`, violated |
| `delete` | `Delete.cfg` | `DeletesShownRevision`, violated |
| `sync` | `Sync.cfg` | `TypeOK`, `SyncHasSecret`, `CreationAccepted`, `OnlyFailuresStrandSecret` |
| `upgrade` | `Upgrade.cfg` | `HistoryAscends` |
| `late_load` | `LateLoad.cfg` | `SummaryDefined`, violated |
| `add_package` | `AddPackage.cfg` | `TypeOK`, `CloneIsAllowed`, `ConfiguredAsConfirmed`, `ConfigFilesExist` |
| `clone_named` | `CloneNamed.cfg` | `ClonesWhatActionNames`, violated |
| `resources` | `Resources.cfg` | `TypeOK`, `PageCanRender`, `FunctionsFollowResources`, `FreshUpdatesKeepOthers` |
| `screens`, the forms | `Screens.cfg` | `FormTypeOK`, `PlainEditsReachYaml`, `OnlyTypedFieldsChange`, `ChosenEditsReachYaml`, `LateChoicesFollow`, `OneSourceOnly`, `ReturnShowsTheChoice` |
| the workload | | `TakenBackAsAWhole`, `SharedPartsNeverTakenBack`, `VolumesAreThoseShown`, `FailsOnLastVolumeOnly` |
| lists and functions | | `RowsShowTheirElement`, `TypedRowsInYaml`, `OpeningKeepsTheImage`, `NoForeignVersion`, `EffectsSettle` |
| the parametric editor | | `LegalItemsAreWritten`, `OtherItemsAreKept` |
| the registration | | `UsedSecretsAreKept`, `SecretsFollowRepositories`, `RegisteredAsChosen` |

`two_tabs`: two tabs and two revisions, four resourceVersions and one load at a time
started by users (a navigation that ends a request may add one beyond the bound,
which `FewLoads` cuts). Two tabs are the fewest that race, two revisions the fewest
where one is frozen and the next is open; four versions are enough for a save, a
proposal and an approval of one tab to overtake the other. Two loads in flight are out of
TLC's reach here: that loads overtake each other is in the run `delete`, and in the theorems
`NoLostUpdate` and `PagesKeepHistory`, which hold for any number of loads. The mutants of the
code show each property reachable within these bounds. The tabs are symmetric, and no property of the run
is a liveness property.

`one_tab`: one tab, three revisions, five versions, and edits that await the
catalog, so that a load can end in the middle of an edit or a handler. Fairness is
`WF_vars(RequestStep(t))`: every call that a user's request awaits is answered, or
fails. Browser and server both give up on a connection in the end; the code
itself has no timeout. Nothing else is fair: users may stop, loads of visits may
never be answered, and `FailRequest` may happen or not.

Deadlock is not checked in these runs: the package may be deleted, and then nothing
is left to do; the bound on versions stops the model too.

`sync`: two tabs, two revisions, deployed or not at the start. One handler of the
buttons (`userInitiatedApiRequest` disables the rest) and one of the dialogs may be
under way in each tab, so four handlers overlap. `FewReads` allows one search or
poll in flight over both tabs: reads change only the page of their own tab,
and what one page believes when it starts a handler is arbitrary enough with one
late answer. Two revisions are enough for a relinking, a third tab could add only a
third handler waiting for the same name, and the theorems are for any number of
tabs.

`upgrade`: two packages, each a clone of either of two blueprints or of none, two
revisions each, blueprints with two revisions. `FewLoads` bounds the overtaken loads
to one, `OneBlueprintChanges` lets one of the blueprints change. The mutant, a ref
filled once, needs two packages of different blueprints to be visited and a blueprint
revision to be published in between. `TypeOK` of this module is proved only: TLC
found no violation of it, and no bug in the code would show as one.

`add_package`: a repository of Deployments, one of External Blueprints, two of Team
Blueprints and none of Organizational Blueprints, so that an action may have a choice of
repositories, one, or none; a package in `team` and one in the external repository. The
Team Blueprint has any of five contents: no set-namespace function, one configured by
the package context, by `set-namespace.yaml`, by another file, and one with advanced
settings, with kubeval or without. The External Blueprint has the third
(`UsualCatalog`), one call for resources is under way at a time (`OneCall`; two of them
would fill the form one after the other), and the user types one of the two names
(`OneName`). The wizard ends with its navigation, so deadlock is not checked.

`resources`: two files, of which one has a resource and, after it, an ApplyReplacements
resource that the Kptfile does not list; three edits. Three are the fewest that leave a hole:
one edit waits for the catalog and takes a resource away, one adds a resource, a dialog
is opened on it, the first one lands, and the dialog is saved. With the other resource
before it, deleting shifts the ApplyReplacements resource, which the diff then takes
for a new one. The overlapping edits do lose each other's changes; `FunctionsFollowResources`
and `PageCanRender` hold all the same. `FreshUpdatesKeepOthers` is about dialogs whose
resource is still in its place (`Fresh`): a stale one does replace a neighbour.

`screens`: a behaviour is one of the six screens, chosen at the start (`screen`); the other
modules' variables stay at one initial state. They share nothing, so a product of their
states would say no more.
The forms get three changes where there are options to choose and take back, two where
accordions only hand on: one to make a copy differ, and one elsewhere that could bring the
older one back; the theorems are for any number. Every change types a text of its own, so
an older one is always recognized, and the resource read has the fields of any option of one
choice. The workload gets three edits, the lists four (with none or two elements
read), a roster four changes over four keys of which one is empty and one an
integer. The function's catalog has two registries with the same version of one function,
of which the one that comes first is not the latest, and a second function; three choices
go there and back again. One user fills in three fields of the registration's
form, two users two between them, over an address that tells of git and of a content, one that tells of OCI,
and one that tells nothing; a repository with a secret may be there from the start. Two
users are enough for a registration between another's check and its deletion, and for
two tabs that unregister the last two users of a secret. `CHECK_DEADLOCK` is off because a dialog may be closed for good, and all
bounds stop the user.

### What the violations show

* `restore`: `createRestoreRevision` creates the new revision and then sends it the
  viewed resources with the resourceVersion of the viewed revision
  (`PackageRevisionPage.tsx:536-540`). Versions are never equal across
  revisions, so the server refuses, and the new revision stays behind with the latest content.
  `AddPackagePage.tsx:411-426` does the same operation right.
* `resave`: a save whose rendering fails is stored, gets a new resourceVersion, and
  the page keeps the old one (`PackageRevisionPage.tsx:611-651`): the resave that
  the message asks for is refused until the page is loaded anew, without the edits.
* `delete`: a later visit overtakes a load. While a request is under way the user goes to
  another revision, and the visit that ends the request begins a load of its own. When the
  earlier load ends last, the page shows the earlier revision while the Advanced tab
  deletes the one of the URL.
* `late_load`: the user visits a package without upstream and goes on, before its
  load has ended, to a package with an upgrade. When the first load ends last, it
  sets `upstreamPackageSummary` to undefined (`PackageRevisionPage.tsx:346`), while
  `isUpgradeAvailable` is still true until line 350. React 17 renders in between,
  and line 730 throws; the plugin has no error boundary that would keep the page.
* `clone_named`: the effect that lists the packages of the source repository skips a
  missing repository (`AddPackagePage.tsx:305`). The user chooses to clone a Team
  Blueprint, then an Organizational Blueprint, of which no repository is registered:
  the select still offers the Team Blueprints, and one of them is cloned.

## Proofs

`PackageRevisionPage_proofs` holds for any number of tabs, revisions, versions and loads. It
uses the named assumptions on the constants only.

* `TypeCorrect`: `Spec => []TypeOK`.
* `NoLostUpdate`: `Spec => []SaveKeepsUpdates`. The property is not inductive: why
  would a page with the server's version have the server's edits? The invariant is
  `VersionsInv` (a resourceVersion names one state of one revision, in the server
  and in every copy that a page or a load holds) and `UpdatesInv` (if a page's version
  is the current one of any revision, the page has that revision's edits, and so will an edit
  in progress). `ServerSteps` reduces every action to no change, one write under a new
  version, or one deletion; `CopiesMade` says that no list enters the system but
  what the server answered.
* `RevisionsAreNumbered`, `OneRevisionOpen` and `PagesKeepHistory`, all under
  `~DeletePublished`. The invariant `HistoryInv` adds: what any copy says of a
  published revision is still so (`Frozen`), and every revision before an existing
  one is published (`InLine`). `HistorySteps` refines `ServerSteps` to the steps of
  `PackageHistory`. If published revisions can be deleted, `OneLineOfHistory` does not
  hold: a stale tab creates the revision after the one that has gone.

`VersionsInv`, `UpdatesInv` and `HistoryInv` were checked by TLC before they were proved.

`PackageSync_proofs`, for any number of tabs and revisions:

* `TypeCorrect`: `TypeOK`, with its clause that a timer runs only while the page has a
  RootSync.
* `SecretBehindSync` and `CreationsAccepted`: `SyncHasSecret` and `CreationAccepted`.
  The invariant is `LockInv`: the name of the secret is a lock. A handler takes it by
  creating the secret (`createSync`) or by deleting the RootSync (relinking,
  `deleteSync`), both of which only one handler can do, and gives it up by making the
  RootSync, deleting the secret, or failing. `OneHolder` says that there is one
  such handler at most, and that the secret exists and the RootSync does not while it
  is between its calls. `CreationAccepted` is not inductive alone, because it does
  not say that a `deleteSync` which is about to delete the secret excludes it.
* `SecretsAreNotStranded`: the action property `OnlyFailuresStrandSecret`, from `LockInv`
  and `OnARevision` (a handler was started on a revision).

`PackageUpgrade_proofs`, for any packages, blueprints and bounds:

* `HistoriesAscend`: `HistoryAscends`. The invariant adds to it `TypeOK` and
  `Offer(page)`: if the page offers an upgrade, the ref is a newer revision of the
  blueprint of the package shown than that of the revision shown. A package that has
  got another revision meanwhile has taken the workspace's name, so the upgrade is
  refused. This holds in
  spite of late loads, because a load writes `packageRevision`, the ref and
  `isUpgradeAvailable` without an await in between; it is why a mutant that keeps an
  older ref is caught.
* `UpgradeTypeCorrect`: `TypeOK`.

`AddPackagePage_proofs`, for any repositories, sources and contents of these:

* `WizardTypeCorrect`: `TypeOK`.
* `ClonesAreAllowed`: `CloneIsAllowed`. The property is about a request; the invariant
  `ChoiceInv` is about every list and choice it can come from: whatever the wizard
  lists or has chosen to add from is of a content that may be cloned to what is added,
  which is why the lists that are left behind do no worse than `clone_named` shows.
* `PackagesAreConfigured`: `ConfiguredAsConfirmed`. `ValidateApplied` and
  `NamespaceApplied` say what the two functions of the code do to every package with
  separate configurations: what is read back is what was asked for, and neither
  disturbs the other's.
* `ConfigFilesStay`: `ConfigFilesExist`. `Separate` (one resource in each file that
  configures, and no file for two functions) is kept by `applyValidateResourcesState`, and
  enough for `applyNamespaceState`, which may end with both functions in the package
  context: deletions by path do not take the other's configuration. It rests on `SeparateConfigAssumption` and
  `OneConfigAssumption` about the packages cloned; without them the code does delete a
  file that the other function needs.

`ResourcesEditor_proofs`, for any files, resources and number of edits:

* `EditorTypeCorrect`: `TypeOK`, with its clause that a dialog is never opened on a blank.
* `PageAlwaysRenders`: `PageCanRender`. It is inductive with the types: a pass changes no
  file, and a map with a blank ends in a rejection.
* `FunctionsAlwaysFollow`: the action property `FunctionsFollowResources`. The invariant
  `FollowsSoFar` says what the passes done so far owe the map an edit began with: the
  functions of the passes to come are untouched (`Same`), those of the passes done follow
  (`Follows`). `ProcessedFollows` is the heart of it: a diff by kind, file and index adds
  and removes the right mutators although deletions shift the indexes, because a kind
  that leaves a file always leaves one of its indexes there.
* `FreshUpdatesAreExact`: the action property `FreshUpdatesKeepOthers`, which counts each
  resource before and after. `Count` is the number of places a resource has (`Where`), so
  what an edit does to it is a bijection of places: an assignment keeps all but one, a splice
  closes the gap it leaves, an append adds one behind the others. Cardinalities of infinite
  sets have no such arithmetic. So `PackagesAssumption` says that a package read has
  resources in finitely many files, and `FewFiles` that edits, in processing or landed, keep
  it so.

`FormEditor_proofs`, for every set of forms that satisfies two assumptions, which TLC evaluates
over the seventeen forms. `FormsAssumption`: the accordions around another are a path of a
tree (`IsTree`), each holds what the ones in it send, and a plain field (one without options)
lies on one path of accordions, at most one on each level that edits it. `ChoicesAssumption`:
one accordion alone holds a choice, and no control but its own sets it; the fields it decides
on lie on one branch, edited in no accordion around; choices are nested only in late ones; and
what a copy loses by normalizing goes out of sight in the accordions that show it.

* `FormTypeCorrect`: `FormTypeOK`.
* `TypedTextReachesYaml`: `PlainEditsReachYaml`. It says nothing of the time when an update
  is on its way, and nothing of the copies that only hand a field on, so it is not
  inductive. `CopiesAgree` is: every copy of a plain field, edited there or not, is what the
  YAML has, except in the accordions that the update has passed, which have what it brings.
* `OtherFieldsStay`: the action property `OnlyTypedFieldsChange`, from `CopiesAgree` and
  `OnlyTyped` (an update brings nothing new but the field typed and those it sets).
* `NeverTwoSources`, `LateChoicesAreSent` and `ChoicesAreShownAgain`: `OneSourceOnly`,
  `LateChoicesFollow` and `ReturnShowsTheChoice`. The invariant `ChoiceInv` says of every
  copy around a choice, of the YAML, of the resource and of the update that each has fields
  of one option only (`OneSource`); that it is the option shown, where no update of this
  branch is still to come (`ShowsChoice`); and that an update brings what a late choice makes
  of the copy now, not when it began (`LateSent`). A copy that an update is on its way to may
  show another option: that is why both speak of where the update is.
* `ChosenTextReachesYaml`: `ChosenEditsReachYaml`. `CopiesAgree` is not true of fields that a
  choice decides on: an accordion that is not shown keeps what was typed while the YAML has
  lost it. `EditsInv` takes one accordion with a choice and follows its value of each field
  in three directions: the accordions in it that are in sight have it (`InnerAgree`), those
  around have what the YAML has (`OuterAgree`), and what it sends is what the YAML has or the
  update brings (`SentOn`). An update begins in an accordion in sight (`BeginsInSight`), which
  is what stops the text of an option not chosen from coming back.

`Editors_proofs`, for any texts, lists, catalogs and number of changes. Lists are filtered
everywhere (`getActiveElements`), and what a filter does needs induction. It is had without
the library's theorems: were a fact about the first `n` elements not true of all `n`, there
would be a least one (`LeastExists`, from the well-foundedness of the order of the naturals),
and it is neither 0 nor after another. `CountingUp` is that argument, `AmongIs` shows that the recursive
function of `Deletable` is defined, and `AmongAppend`, `AmongTwice`, `AmongAll` and
`AmongNone` are what the proofs need of it.

* `RowsStayTheirs` and `TypedRowsStay`: `RowsShowTheirElement` and `TypedRowsInYaml`. The
  second is not inductive: an edit elsewhere writes what the accordion around holds, which
  need not be the list. `ListInv` asks of that one, too, that it tells what was typed, and
  of the list and the YAML that they are equal where a new element is told of.
* `EditsTakenBackAsAWhole`, `SharedPartsStay`, `VolumesStay` and `FailsWithoutVolumes`, the
  four properties of the workload. `SentLast` says of what was sent last, whoever sent it,
  which parts it has of which accordion, and that a StatefulSet's details are at most one
  edit behind; `CopiesInv` which of the shared objects a copy
  refers to, and that a pod's own list of volumes is the shared one's active elements.
* `VersionOfTheFunction`: `NoForeignVersion`. While an effect is to come the version may be
  that of another function; `VersionFits` says that then the name has changed, so that the
  next pass chooses it anew.
* `EffectsEnd`: `EffectsSettle`. `PassesInv` says what has settled after each pass: the
  catalog after one, the name after two, the image after three, what is sent after four.
* `OpeningChangesNoVersion`: `OpeningKeepsTheImage`, from `OpeningInv`: an untouched form is
  as it was opened (`AsOpened`), or shows the function found in the catalog (`Recognised`).
* `LegalItemsWritten` and `OtherItemsStay`: `LegalItemsAreWritten` and the action property
  `OtherItemsAreKept`. `PxeInv` adds that the resource and the items have their types, without
  which nothing is known of what is dumped. The order of an object's entries is a strict order
  of finitely many keys, in which each place is taken once (`Ranking`); so an object made of
  items with different keys has as many entries as items, and what is written and read again
  is written the same (`DumpedTwice`).

They assume that the catalog is a list of images and no function of it has the name that
stands for a custom image (`FunctionCatalogAssumption`), that what is typed are texts
(`RowTextsAssumption`, `EditValuesAssumption`), in a roster none of the two markers that
the model has for no value (`ItemTextsAssumption`), and that the integer keys are some of the keys
(`IntegerKeysAssumption`).

`RepositoryRegistration_proofs`, for any users, addresses and names
(`RegistrationAssumption`: finitely many users; the name of no secret is the mark for none):

* `SecretsInUseAreKept`: the action property `UsedSecretsAreKept`, from `DeletionInv`: what was true when
  the uses were looked up stays true of all but the repositories in `since`.
* `SecretsFollow`: `SecretsFollowRepositories`. The property speaks of a resting user;
  `SecretsDuring` says by how much secrets and repositories differ at each step of a task,
  and that the secrets the form offers are still there, which holds because one user does
  one task at a time.
* `ListedAsChosen`: `RegisteredAsChosen`. A repository keeps the details of its content
  (`AsChosen`), and these details tell every two contents apart, although Team Blueprints have
  no label of their own.

Only model-checked is `RequestEnds`: it is a liveness property, and the prover does not
reason about fairness. Every other property of the passing runs is a theorem. The violations
are TLC's counterexamples; nothing is proved about them. TLC also checks what the theorems
take as given: the assumptions on the constants, for the constants of each run.

## Not modelled

* The backend proxy and the features: a request is handled on its own, from a
  configuration read once. What it lacks, an answer when the Kubernetes API or the
  function catalog cannot be reached (`plugins/cad-backend/src/service/router.ts:113,147`),
  is a hazard on the list; `RequestEnds` assumes that such calls end.
* Tables, summaries, the related packages, the comparison of revisions, `getSyncStatus`: pure functions of what
  the last load has brought, computed anew with it.
* First class viewers, links, controls and routes: presentation. The confirmation dialog
  starts handlers, and is part of these.
* The generated Backstage app and backend.
* Of the editors: what the selects offer (resources of the package), how an image is split
  into name and tag, and how references of ApplyReplacements are written as texts; a
  selector of a package variant set without a template, which does not render.
* Compositions: syncs and history in one module, and packages of one name in two
  repositories. Both would need the server's answers to be shared by the modules, and the product
  of their states is out of TLC's reach.

## Plan

Done: the revision page and the history it implements; syncs; upgrades; the add package
wizard; the resources and their processing; the editors; the registration of
repositories; the proofs listed above.

Worth doing next: packages of one name in two repositories, whose syncs collide; the order
of revisions and the status of a sync against reference definitions; two approvals that
overlap with their relinkings, as a run of its own.
