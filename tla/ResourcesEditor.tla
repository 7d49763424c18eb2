---------------------------- MODULE ResourcesEditor ----------------------------
(***************************************************************************)
(* Editing the resources of a package: the table of the Resources tab and  *)
(* its editor dialog, which address a resource by its file and its index   *)
(* there, and handleUpdatedResourcesMap, whose processing of an edit adds  *)
(* and removes the functions of the Kptfile that ApplyReplacements and     *)
(* SetLabels resources configure.  Processing waits for the function       *)
(* catalog when a function is to be added; meanwhile the user goes on.     *)
(*                                                                         *)
(* A package is what the code reads of its resourcesMap: the resources of  *)
(* each file in order, without those of a file that is not in the map, and *)
(* the pairs <<kind, file>> of the Kptfile's mutators: the function that a *)
(* resource of this kind configures, with this file as its configPath.     *)
(* The Kptfile itself is one resource in a file of its own, which has no   *)
(* Delete and is not renamed here; a function is listed once per file.     *)
(***************************************************************************)
EXTENDS Naturals, Sequences, FiniteSets

CONSTANTS
    File,       \* paths of files other than the Kptfile
    Name,       \* what else tells two resources of a kind apart
    Packages,   \* contents that a page may have loaded
    MaxEdits    \* bound: edits of a session

FunctionKind == {"ApplyReplacements", "SetLabels"}

Resource == [kind : FunctionKind \union {"Other"}, name : Name]

(* What is read from an empty text: loadYaml returns no object. *)
Blank == [kind |-> "none", name |-> "none"]

Content == Resource \union {Blank}

ResourcesMap == [files : [File -> Seq(Content)], mutators : SUBSET (FunctionKind \X File)]

(* No resource's text is empty; getPackageResourcesFromResourcesMap throws  *)
(* a TypeError on one, at its first use of what loadYaml returned.          *)
Parses(m) ==
    \A f \in File : \A i \in DOMAIN m.files[f] : m.files[f][i] # Blank

ASSUME PackagesAssumption ==
    /\ MaxEdits \in Nat
    /\ \A m \in Packages :
        m \in ResourcesMap /\ Parses(m) /\ IsFiniteSet({f \in File : m.files[f] # <<>>})

VARIABLES
    resourcesMap,   \* the page's resourcesMap
    dialog,         \* the editor, with the resource it was opened for
    pending,        \* edits inside processUpdatedResourcesMap
    edits           \* the number of edits so far

vars == <<resourcesMap, dialog, pending, edits>>

NoDialog == [editor |-> "none"]

Dialog ==
    [editor : {"none", "new"}]
    \union [editor : {"kptfile"}, mutators : SUBSET (FunctionKind \X File)]
    \union [editor : {"resource"}, file : File, index : Nat \ {0}, resource : Resource]

(* pass      the kind whose functions are processed next                    *)
(* kptfile   the user has edited the Kptfile                                *)
Edit ==
    [id : Nat, original : ResourcesMap, current : ResourcesMap,
     pass : FunctionKind, kptfile : BOOLEAN]

TypeOK ==
    /\ resourcesMap \in ResourcesMap
    /\ dialog \in Dialog
    /\ pending \subseteq Edit
    /\ edits \in 0..MaxEdits

Init ==
    /\ resourcesMap \in Packages
    /\ dialog = NoDialog
    /\ pending = {}
    /\ edits = 0

-----------------------------------------------------------------------------
(* utils/packageRevisionResources.ts                                       *)

(* createMultiResourceYaml, read back: no text at all is one empty text *)
Written(s) == IF s = <<>> THEN <<Blank>> ELSE s

AddResource(m, f, r) == [m EXCEPT !.files[f] = Append(@, r)]

(* Assigning beyond the end of an array leaves holes, joined as "". *)
Assigned(s, i, r) ==
    [j \in 1..(IF i > Len(s) THEN i ELSE Len(s)) |->
        IF j = i THEN r ELSE IF j \in DOMAIN s THEN s[j] ELSE Blank]

(* Mutant: a new version of the resource is appended. *)
UpdateByAppending(m, f, i, r) == AddResource(m, f, r)

UpdateResource(m, f, i, r) == [m EXCEPT !.files[f] = Assigned(@, i, r)]

(* splice, which removes nothing beyond the end *)
Spliced(s, i) ==
    IF i \in DOMAIN s THEN SubSeq(s, 1, i - 1) \o SubSeq(s, i + 1, Len(s)) ELSE s

RemoveResource(m, f, i) ==
    [m EXCEPT !.files[f] = IF i = 1 /\ Len(@) = 1 THEN <<>> ELSE Written(Spliced(@, i))]

-----------------------------------------------------------------------------
(* updatedResourcesMap: diffs of resources know them as kind:file:index    *)

Holds(m, k, f) == \E i \in DOMAIN m.files[f] : m.files[f][i].kind = k

HoldsAt(m, k, f, i) == i \in DOMAIN m.files[f] /\ m.files[f][i].kind = k

(* The files with a resource of kind k in m whose id is not one of n. *)
AddedFiles(k, n, m) ==
    {f \in File : \E i \in DOMAIN m.files[f] : HoldsAt(m, k, f, i) /\ ~HoldsAt(n, k, f, i)}

(* Mutant: another resource of the file is not looked for. *)
ObsoleteRegardless(k, n, m) == {<<k, f>> : f \in AddedFiles(k, m, n) \ AddedFiles(k, n, m)}

Obsolete(k, n, m) == {<<k, f>> : f \in {g \in AddedFiles(k, m, n) : ~Holds(m, k, g)}}

(* processApplyReplacementsUpdates and processSetLabelsUpdates, which are   *)
(* one text for two kinds: n is the original package, m the current one     *)
Processed(k, n, m) ==
    [m EXCEPT !.mutators = (@ \union {<<k, f>> : f \in AddedFiles(k, n, m)}) \ Obsolete(k, n, m)]

(* listCatalogFunctions is called for a function that is to be added. *)
AwaitsCatalog(e) ==
    /\ Parses(e.current)
    /\ \E f \in AddedFiles(e.pass, e.original, e.current) : <<e.pass, f>> \notin e.current.mutators

(* Promises that wait for no request are settled before the next event. *)
Settled == \A e \in pending : AwaitsCatalog(e)

-----------------------------------------------------------------------------
(* The table and the dialog                                                *)

Open(d) ==
    /\ Settled
    /\ dialog = NoDialog
    /\ dialog' = d
    /\ UNCHANGED <<resourcesMap, pending, edits>>

AddNew == Open([editor |-> "new"])

OpenKptfile == Open([editor |-> "kptfile", mutators |-> resourcesMap.mutators])

(* Mutant: indexes counted from zero, as in the code. *)
OpenFromZero ==
    \E f \in File : \E i \in DOMAIN resourcesMap.files[f] :
        Open([editor |-> "resource", file |-> f, index |-> i - 1,
              resource |-> resourcesMap.files[f][i]])

OpenResource ==
    \E f \in File : \E i \in DOMAIN resourcesMap.files[f] :
        Open([editor |-> "resource", file |-> f, index |-> i,
              resource |-> resourcesMap.files[f][i]])

CancelDialog ==
    /\ Settled
    /\ dialog # NoDialog
    /\ dialog' = NoDialog
    /\ UNCHANGED <<resourcesMap, pending, edits>>

(* onUpdatedResource ends in handleUpdatedResourcesMap, with the map that   *)
(* the page shows and the updated one.                                      *)
Update(m, kptfile) ==
    /\ edits < MaxEdits
    /\ edits' = edits + 1
    /\ pending' = pending \union
        {[id |-> edits, original |-> resourcesMap, current |-> m,
          pass |-> "ApplyReplacements", kptfile |-> kptfile]}
    /\ dialog' = NoDialog
    /\ UNCHANGED resourcesMap

(* The file is one that no resource has, or the one of a path annotation. *)
SaveNew ==
    /\ Settled
    /\ dialog.editor = "new"
    /\ \E r \in Resource, f \in File : Update(AddResource(resourcesMap, f, r), FALSE)

SaveResource ==
    /\ Settled
    /\ dialog.editor = "resource"
    /\ \E r \in Resource : Update(UpdateResource(resourcesMap, dialog.file, dialog.index, r), FALSE)

(* The path annotation names another file.  When the resource's file is no  *)
(* longer there, reading what is left of it throws: the dialog stays open.  *)
MoveResource ==
    LET removed == RemoveResource(resourcesMap, dialog.file, dialog.index) IN
    /\ Settled
    /\ dialog.editor = "resource"
    /\ Parses(removed)
    /\ \E r \in Resource, f \in File \ {dialog.file} : Update(AddResource(removed, f, r), FALSE)

SaveKptfile ==
    /\ Settled
    /\ dialog.editor = "kptfile"
    /\ \E mutators \in SUBSET (FunctionKind \X File) :
        Update([resourcesMap EXCEPT !.mutators = mutators], TRUE)

(* The table behind an open dialog takes no click. *)
DeleteResource ==
    /\ Settled
    /\ dialog = NoDialog
    /\ \E f \in File : \E i \in DOMAIN resourcesMap.files[f] :
        Update(RemoveResource(resourcesMap, f, i), FALSE)

-----------------------------------------------------------------------------
(* processUpdatedResourcesMap and handleUpdatedResourcesMap                *)

(* Mutant: a text that cannot be read is taken as it is. *)
ContinuesUnread(e) == AwaitsCatalog(e) => Settled

(* A request is answered when nothing else is left to settle. *)
Continues(e) == Parses(e.current) /\ (AwaitsCatalog(e) => Settled)

EndReplacements(e) ==
    /\ e.pass = "ApplyReplacements"
    /\ Continues(e)
    /\ pending' = (pending \ {e}) \union
        {[e EXCEPT !.current = Processed(e.pass, e.original, @), !.pass = "SetLabels"]}
    /\ UNCHANGED <<resourcesMap, dialog, edits>>

EndEdit(e) ==
    /\ e.pass = "SetLabels"
    /\ Continues(e)
    /\ resourcesMap' = Processed(e.pass, e.original, e.current)
    /\ pending' = pending \ {e}
    /\ UNCHANGED <<dialog, edits>>

(* The map cannot be read, or the catalog not be listed: nobody handles the *)
(* rejection of handleUpdatedResourcesMap.                                  *)
LoseEdit(e) ==
    /\ ~Parses(e.current) \/ (AwaitsCatalog(e) /\ Settled)
    /\ pending' = pending \ {e}
    /\ UNCHANGED <<resourcesMap, dialog, edits>>

Next ==
    \/ AddNew
    \/ OpenKptfile
    \/ OpenResource
    \/ CancelDialog
    \/ SaveNew
    \/ SaveResource
    \/ MoveResource
    \/ SaveKptfile
    \/ DeleteResource
    \/ \E e \in pending : EndReplacements(e) \/ EndEdit(e) \/ LoseEdit(e)

Spec == Init /\ [][Next]_vars

-----------------------------------------------------------------------------
(* Properties                                                              *)

(* Every text of the page's resourcesMap can be read: a render with one    *)
(* that cannot would throw, and take the page down.  Dialogs that address  *)
(* a resource by an index which has changed since do write such maps.      *)
PageCanRender == Parses(resourcesMap)

Unconfigured(m) ==
    {p \in FunctionKind \X File : Holds(m, p[1], p[2]) /\ p \notin m.mutators}

Dangling(m) == {p \in m.mutators : ~Holds(m, p[1], p[2])}

(* However resources are added, deleted, moved, given another kind or      *)
(* shifted in their file, by whatever edits overlap, what an edit leaves   *)
(* on the page has no ApplyReplacements or SetLabels resource without its  *)
(* function, and no function without its resource, that the user did not   *)
(* have before.  Edits of the Kptfile are the user's own.                  *)
FunctionsFollowResources ==
    [][\A e \in pending :
        e \notin pending' /\ resourcesMap' # resourcesMap /\ ~e.kptfile
            => /\ Unconfigured(resourcesMap') \subseteq Unconfigured(e.original)
               /\ Dangling(resourcesMap') \subseteq Dangling(e.original)]_vars

Count(m, r) ==
    Cardinality({p \in UNION {{f} \X DOMAIN m.files[f] : f \in File} :
                    m.files[p[1]][p[2]] = r})

(* The resource is still where it was when the dialog was opened for it. *)
Fresh ==
    dialog.editor = "resource"
        => /\ dialog.index \in DOMAIN resourcesMap.files[dialog.file]
           /\ resourcesMap.files[dialog.file][dialog.index] = dialog.resource

(* From a dialog that has not gone stale, and from the table, an update of *)
(* the resourcesMap exchanges one resource for another, or adds one, or    *)
(* deletes one: all others are kept, in whatever files and at whatever     *)
(* indexes earlier moves and deletions have left them.                     *)
FreshUpdatesKeepOthers ==
    [][\A e \in pending' \ pending :
        edits' # edits /\ Fresh /\ ~e.kptfile
            => /\ Parses(e.current)
               /\ \E old, new \in Content :
                    /\ dialog.editor = "resource" => old = dialog.resource
                    /\ \A r \in Resource :
                        Count(e.current, r) + (IF r = old THEN 1 ELSE 0)
                            = Count(e.original, r) + (IF r = new THEN 1 ELSE 0)]_vars

=============================================================================
