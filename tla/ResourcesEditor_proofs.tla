------------------------ MODULE ResourcesEditor_proofs ------------------------
(***************************************************************************)
(* Proofs about the editing of resources, for any files, resources and     *)
(* contents of packages, and for any number of edits that overlap.         *)
(***************************************************************************)
EXTENDS ResourcesEditor, SequenceTheorems, FiniteSetTheorems, TLAPS

-----------------------------------------------------------------------------
(* Types of the operators on packages                                      *)

(* Splicing and assigning make sequences of what they are given. *)
LEMMA SequenceTypes ==
    ASSUME NEW s \in Seq(Content), NEW i \in Nat \ {0}
    PROVE  /\ Written(Spliced(s, i)) \in Seq(Content)
           /\ \A r \in Content : Append(s, r) \in Seq(Content)
           /\ \A r \in Content : Assigned(s, i, r) \in Seq(Content)
<1>1. Spliced(s, i) \in Seq(Content)
  <2>1. CASE i \in DOMAIN s
    <3>1. i \in 1..Len(s) /\ Len(s) \in Nat
      BY <2>1
    <3>2. SubSeq(s, 1, i - 1) \in Seq(Content)
      <4>1. \A j \in 1..(i - 1) : s[j] \in Content
        BY <3>1
      <4> QED BY <3>1, <4>1, SubSeqProperties
    <3>3. SubSeq(s, i + 1, Len(s)) \in Seq(Content)
      <4>1. \A j \in (i + 1)..Len(s) : s[j] \in Content
        BY <3>1
      <4> QED BY <3>1, <4>1, SubSeqProperties
    <3> QED BY <2>1, <3>2, <3>3, ConcatProperties DEF Spliced
  <2>2. CASE i \notin DOMAIN s
    BY <2>2 DEF Spliced
  <2> QED BY <2>1, <2>2
<1>2. Written(Spliced(s, i)) \in Seq(Content)
  <2>1. <<Blank>> \in Seq(Content)
    BY DEF Content
  <2> QED BY <1>1, <2>1 DEF Written
<1>3. ASSUME NEW r \in Content
      PROVE  Assigned(s, i, r) \in Seq(Content)
  <2> DEFINE n == IF i > Len(s) THEN i ELSE Len(s)
             v(j) == IF j = i THEN r ELSE IF j \in DOMAIN s THEN s[j] ELSE Blank
  <2>1. n \in Nat
    OBVIOUS
  <2>2. \A j \in 1..n : v(j) \in Content
    <3>1. Blank \in Content
      BY DEF Content
    <3>2. \A j \in DOMAIN s : s[j] \in Content
      OBVIOUS
    <3> QED BY <3>1, <3>2
  <2>3. [j \in 1..n |-> v(j)] \in [1..n -> Content]
    BY <2>2
  <2>4. [j \in 1..n |-> v(j)] \in Seq(Content)
    <3> HIDE DEF n, v
    <3> QED BY <2>1, <2>3
  <2> QED BY <2>4 DEF Assigned
<1> QED BY <1>2, <1>3

(* Adding, updating and removing a resource make packages. *)
LEMMA UpdateTypes ==
    ASSUME NEW m \in ResourcesMap, NEW f \in File
    PROVE  /\ \A r \in Resource : AddResource(m, f, r) \in ResourcesMap
           /\ \A i \in Nat \ {0}, r \in Resource : UpdateResource(m, f, i, r) \in ResourcesMap
           /\ \A i \in Nat \ {0} : RemoveResource(m, f, i) \in ResourcesMap
<1>1. /\ m.files \in [File -> Seq(Content)]
      /\ m.files[f] \in Seq(Content)
      /\ DOMAIN m = {"files", "mutators"}
  BY DEF ResourcesMap
<1>2. ASSUME NEW s \in Seq(Content)
      PROVE  [m EXCEPT !.files[f] = s] \in ResourcesMap
  BY <1>1 DEF ResourcesMap
<1>3. ASSUME NEW r \in Resource
      PROVE  AddResource(m, f, r) \in ResourcesMap
  <2>1. Append(m.files[f], r) \in Seq(Content)
    BY <1>1 DEF Content
  <2> QED BY <1>2, <2>1 DEF AddResource
<1>4. ASSUME NEW i \in Nat \ {0}, NEW r \in Resource
      PROVE  UpdateResource(m, f, i, r) \in ResourcesMap
  <2>1. Assigned(m.files[f], i, r) \in Seq(Content)
    BY <1>1, SequenceTypes DEF Content
  <2> QED BY <1>2, <2>1 DEF UpdateResource
<1>5. ASSUME NEW i \in Nat \ {0}
      PROVE  RemoveResource(m, f, i) \in ResourcesMap
  <2> DEFINE s == IF i = 1 /\ Len(m.files[f]) = 1
                  THEN <<>> ELSE Written(Spliced(m.files[f], i))
  <2>1. s \in Seq(Content)
    <3>1. <<>> \in Seq(Content)
      OBVIOUS
    <3> QED BY <1>1, <3>1, SequenceTypes
  <2> HIDE DEF s
  <2>2. RemoveResource(m, f, i) = [m EXCEPT !.files[f] = s]
    BY DEF RemoveResource, s
  <2> QED BY <1>2, <2>1, <2>2
<1> QED BY <1>3, <1>4, <1>5

-----------------------------------------------------------------------------
(* Processing an edit                                                      *)

(* For files f and functions k: the resource lacks its function, the       *)
(* function lacks its resource.                                            *)
Lacks(m, k, f) == Holds(m, k, f) /\ <<k, f>> \notin m.mutators

Dangles(m, k, f) == <<k, f>> \in m.mutators /\ ~Holds(m, k, f)

Same(m, n, k) == \A f \in File : <<k, f>> \in m.mutators <=> <<k, f>> \in n.mutators

Follows(m, n, k) ==
    \A f \in File : (Lacks(m, k, f) => Lacks(n, k, f)) /\ (Dangles(m, k, f) => Dangles(n, k, f))

(* The mutators that processing makes, and what it leaves alone. *)
LEMMA ProcessedTypes ==
    ASSUME NEW k \in FunctionKind, NEW n \in ResourcesMap, NEW m \in ResourcesMap
    PROVE  /\ Processed(k, n, m) \in ResourcesMap
           /\ Processed(k, n, m).files = m.files
           /\ Parses(m) => Parses(Processed(k, n, m))
           /\ \A j \in FunctionKind \ {k} : Same(Processed(k, n, m), m, j)
           /\ \A f \in File : <<k, f>> \in Processed(k, n, m).mutators
                <=> /\ (<<k, f>> \in m.mutators) \/ (f \in AddedFiles(k, n, m))
                    /\ ~(f \in AddedFiles(k, m, n) /\ ~Holds(m, k, f))
<1> DEFINE p == Processed(k, n, m)
           added == {<<k, f>> : f \in AddedFiles(k, n, m)}
<1> DEFINE mutators == (m.mutators \union added) \ Obsolete(k, n, m)
<1>1. /\ p.files = m.files
      /\ p.mutators = mutators
      /\ p = [files |-> m.files, mutators |-> mutators]
  <2>1. m = [files |-> m.files, mutators |-> m.mutators]
    BY DEF ResourcesMap
  <2>2. p = [m EXCEPT !.mutators = mutators]
    BY DEF Processed
  <2> HIDE DEF p, mutators
  <2> QED BY <2>1, <2>2
<1>2. AddedFiles(k, n, m) \subseteq File /\ AddedFiles(k, m, n) \subseteq File
  BY DEF AddedFiles
<1>3. added \subseteq FunctionKind \X File
  BY <1>2
<1>4. p \in ResourcesMap
  <2>1. mutators \in SUBSET (FunctionKind \X File)
    BY <1>3 DEF ResourcesMap
  <2>2. m.files \in [File -> Seq(Content)]
    BY DEF ResourcesMap
  <2> QED BY <1>1, <2>1, <2>2 DEF ResourcesMap
<1>5. Parses(m) => Parses(p)
  BY <1>1 DEF Parses
<1>6. ASSUME NEW f \in File
      PROVE  <<k, f>> \in Obsolete(k, n, m) <=> f \in AddedFiles(k, m, n) /\ ~Holds(m, k, f)
  BY <1>2 DEF Obsolete
<1>7. ASSUME NEW f \in File
      PROVE  <<k, f>> \in added <=> f \in AddedFiles(k, n, m)
  OBVIOUS
<1>8. ASSUME NEW j \in FunctionKind \ {k}, NEW f \in File
      PROVE  <<j, f>> \notin added /\ <<j, f>> \notin Obsolete(k, n, m)
  BY DEF Obsolete
<1>9. \A j \in FunctionKind \ {k} : Same(p, m, j)
  BY <1>1, <1>8 DEF Same
<1>10. \A f \in File : <<k, f>> \in p.mutators
                <=> /\ (<<k, f>> \in m.mutators) \/ (f \in AddedFiles(k, n, m))
                    /\ ~(f \in AddedFiles(k, m, n) /\ ~Holds(m, k, f))
  BY <1>1, <1>6, <1>7
<1> QED BY <1>1, <1>4, <1>5, <1>9, <1>10

(* A function whose mutators an edit did not touch follows its resources   *)
(* after processing: nothing lacks or dangles that did not before.         *)
LEMMA ProcessedFollows ==
    ASSUME NEW k \in FunctionKind, NEW n \in ResourcesMap, NEW m \in ResourcesMap,
           Same(m, n, k)
    PROVE  Follows(Processed(k, n, m), n, k)
<1> DEFINE p == Processed(k, n, m)
<1>1. SUFFICES ASSUME NEW f \in File
               PROVE  /\ Lacks(p, k, f) => Lacks(n, k, f)
                      /\ Dangles(p, k, f) => Dangles(n, k, f)
  BY DEF Follows
<1>2. /\ Holds(p, k, f) <=> Holds(m, k, f)
      /\ <<k, f>> \in p.mutators
            <=> /\ (<<k, f>> \in m.mutators) \/ (f \in AddedFiles(k, n, m))
                /\ ~(f \in AddedFiles(k, m, n) /\ ~Holds(m, k, f))
  <2>1. p.files = m.files
    BY ProcessedTypes
  <2>2. Holds(p, k, f) <=> Holds(m, k, f)
    <3> HIDE DEF p
    <3> QED BY <2>1 DEF Holds
  <2>3. <<k, f>> \in p.mutators
            <=> /\ (<<k, f>> \in m.mutators) \/ (f \in AddedFiles(k, n, m))
                /\ ~(f \in AddedFiles(k, m, n) /\ ~Holds(m, k, f))
    BY ProcessedTypes
  <2> QED BY <2>2, <2>3
<1>3. <<k, f>> \in m.mutators <=> <<k, f>> \in n.mutators
  BY DEF Same
<1>4. Holds(m, k, f) /\ f \notin AddedFiles(k, n, m) => Holds(n, k, f)
  BY DEF Holds, HoldsAt, AddedFiles
<1>5. Holds(n, k, f) /\ ~Holds(m, k, f) => f \in AddedFiles(k, m, n)
  BY DEF Holds, HoldsAt, AddedFiles
<1>6. f \in AddedFiles(k, n, m) => Holds(m, k, f)
  BY DEF Holds, HoldsAt, AddedFiles
<1> HIDE DEF p
<1>7. Lacks(p, k, f) => Lacks(n, k, f)
  BY <1>2, <1>3, <1>4, <1>6 DEF Lacks
<1>8. Dangles(p, k, f) => Dangles(n, k, f)
  BY <1>2, <1>3, <1>5, <1>6 DEF Dangles
<1> QED BY <1>7, <1>8

(* Updates of resources leave the mutators alone. *)
LEMMA UpdatesKeepMutators ==
    ASSUME NEW m \in ResourcesMap, NEW f \in File
    PROVE  /\ \A r : AddResource(m, f, r).mutators = m.mutators
           /\ \A i, r : UpdateResource(m, f, i, r).mutators = m.mutators
           /\ \A i : RemoveResource(m, f, i).mutators = m.mutators
BY DEF ResourcesMap, AddResource, UpdateResource, RemoveResource

-----------------------------------------------------------------------------
(* The invariant                                                           *)

(* What the passes so far have made of an edit of another resource than    *)
(* the Kptfile.                                                            *)
FollowsSoFar(e) ==
    ~e.kptfile =>
        /\ Same(e.current, e.original, "SetLabels")
        /\ IF e.pass = "ApplyReplacements"
           THEN Same(e.current, e.original, "ApplyReplacements")
           ELSE Follows(e.current, e.original, "ApplyReplacements")

EditorInv ==
    /\ TypeOK
    /\ PageCanRender
    /\ \A e \in pending : FollowsSoFar(e)

LEMMA InitialInv == Init => EditorInv
<1> SUFFICES ASSUME Init PROVE EditorInv
  OBVIOUS
<1>1. resourcesMap \in ResourcesMap /\ Parses(resourcesMap) /\ MaxEdits \in Nat
  BY PackagesAssumption DEF Init
<1>2. dialog \in Dialog
  BY DEF Init, Dialog, NoDialog
<1> QED BY <1>1, <1>2 DEF Init, EditorInv, TypeOK, PageCanRender

(* Opening a dialog only changes the dialog. *)
LEMMA OpenKeepsInv ==
    ASSUME EditorInv, NEW d \in Dialog, Open(d)
    PROVE  EditorInv'
BY DEF EditorInv, TypeOK, PageCanRender, Open

(* An update begins an edit, whose original is the page's map.             *)
LEMMA UpdateKeepsInv ==
    ASSUME EditorInv, NEW m \in ResourcesMap, NEW kptfile \in BOOLEAN, Update(m, kptfile),
           kptfile \/ m.mutators = resourcesMap.mutators
    PROVE  EditorInv'
<1> DEFINE new == [id |-> edits, original |-> resourcesMap, current |-> m,
                   pass |-> "ApplyReplacements", kptfile |-> kptfile]
<1>1. /\ edits \in 0..MaxEdits /\ edits < MaxEdits /\ edits' = edits + 1
      /\ MaxEdits \in Nat /\ resourcesMap \in ResourcesMap /\ pending \subseteq Edit
      /\ pending' = pending \union {new} /\ dialog' = NoDialog /\ resourcesMap' = resourcesMap
  BY PackagesAssumption DEF EditorInv, TypeOK, Update
<1>2. new \in Edit
  BY <1>1 DEF Edit, FunctionKind
<1>3. FollowsSoFar(new)
  BY DEF FollowsSoFar, Same
<1>4. dialog' \in Dialog /\ edits' \in 0..MaxEdits
  BY <1>1 DEF Dialog, NoDialog
<1>5. TypeOK'
  <2> HIDE DEF new
  <2> QED BY <1>1, <1>2, <1>4 DEF TypeOK
<1>6. \A e \in pending' : FollowsSoFar(e)
  <2> HIDE DEF new
  <2> QED BY <1>1, <1>3 DEF EditorInv
<1>7. PageCanRender'
  BY <1>1 DEF EditorInv, PageCanRender
<1> QED BY <1>5, <1>6, <1>7 DEF EditorInv

(* The end of a pass of an edit makes a package that follows the original. *)
LEMMA PassFollows ==
    ASSUME NEW e \in Edit, FollowsSoFar(e), ~e.kptfile
    PROVE  LET p == Processed(e.pass, e.original, e.current) IN
           /\ Follows(p, e.original, e.pass)
           /\ e.pass = "ApplyReplacements" => Same(p, e.original, "SetLabels")
           /\ e.pass = "SetLabels" => Follows(p, e.original, "ApplyReplacements")
<1> DEFINE p == Processed(e.pass, e.original, e.current)
<1>1. /\ e.pass \in FunctionKind
      /\ e.original \in ResourcesMap /\ e.current \in ResourcesMap
  BY DEF Edit
<1>2. Same(e.current, e.original, e.pass)
  BY <1>1 DEF FollowsSoFar, FunctionKind
<1>3. Follows(p, e.original, e.pass)
  BY <1>1, <1>2, ProcessedFollows
<1>4. p.files = e.current.files /\ \A j \in FunctionKind \ {e.pass} : Same(p, e.current, j)
  BY <1>1, ProcessedTypes
<1> HIDE DEF p
<1>5. ASSUME e.pass = "ApplyReplacements"
      PROVE  Same(p, e.original, "SetLabels")
  <2>1. Same(p, e.current, "SetLabels")
    BY <1>4, <1>5 DEF FunctionKind
  <2>2. Same(e.current, e.original, "SetLabels")
    BY DEF FollowsSoFar
  <2> QED BY <2>1, <2>2 DEF Same
<1>6. ASSUME e.pass = "SetLabels"
      PROVE  Follows(p, e.original, "ApplyReplacements")
  <2>1. Same(p, e.current, "ApplyReplacements")
    BY <1>4, <1>6 DEF FunctionKind
  <2>2. Follows(e.current, e.original, "ApplyReplacements")
    BY <1>6 DEF FollowsSoFar
  <2>3. \A k, f : Holds(p, k, f) <=> Holds(e.current, k, f)
    BY <1>4 DEF Holds
  <2> QED BY <2>1, <2>2, <2>3 DEF Same, Follows, Lacks, Dangles
<1> QED BY <1>3, <1>5, <1>6 DEF p

LEMMA NextKeepsInv ==
    ASSUME EditorInv, [Next]_vars
    PROVE  EditorInv'
<1>1. /\ resourcesMap \in ResourcesMap /\ Parses(resourcesMap) /\ pending \subseteq Edit
      /\ dialog \in Dialog /\ resourcesMap.files \in [File -> Seq(Content)]
      /\ resourcesMap.mutators \in SUBSET (FunctionKind \X File)
  BY DEF EditorInv, TypeOK, PageCanRender, ResourcesMap
<1>2. ASSUME AddNew PROVE EditorInv'
  <2>1. [editor |-> "new"] \in Dialog
    BY DEF Dialog
  <2> QED BY <1>2, <2>1, OpenKeepsInv DEF AddNew
<1>3. ASSUME OpenKptfile PROVE EditorInv'
  <2>1. [editor |-> "kptfile", mutators |-> resourcesMap.mutators] \in Dialog
    BY <1>1 DEF Dialog
  <2> QED BY <1>3, <2>1, OpenKeepsInv DEF OpenKptfile
<1>4. ASSUME OpenResource PROVE EditorInv'
  <2>1. PICK f \in File : \E i \in DOMAIN resourcesMap.files[f] :
            Open([editor |-> "resource", file |-> f, index |-> i,
                  resource |-> resourcesMap.files[f][i]])
    BY <1>4 DEF OpenResource
  <2>2. PICK i \in DOMAIN resourcesMap.files[f] :
            Open([editor |-> "resource", file |-> f, index |-> i,
                  resource |-> resourcesMap.files[f][i]])
    BY <2>1
  <2>3. i \in Nat \ {0} /\ resourcesMap.files[f][i] \in Content
    BY <1>1, <2>2
  <2>4. resourcesMap.files[f][i] \in Resource
    BY <1>1, <2>2, <2>3 DEF Parses, Content
  <2>5. [editor |-> "resource", file |-> f, index |-> i,
         resource |-> resourcesMap.files[f][i]] \in Dialog
    BY <2>3, <2>4 DEF Dialog
  <2> QED BY <2>2, <2>5, OpenKeepsInv
<1>5. ASSUME CancelDialog PROVE EditorInv'
  <2>1. NoDialog \in Dialog
    BY DEF Dialog, NoDialog
  <2> QED BY <1>5, <2>1 DEF CancelDialog, EditorInv, TypeOK, PageCanRender
<1>6. ASSUME SaveNew PROVE EditorInv'
  <2>1. PICK r \in Resource, f \in File : Update(AddResource(resourcesMap, f, r), FALSE)
    BY <1>6 DEF SaveNew
  <2>2. /\ AddResource(resourcesMap, f, r) \in ResourcesMap
        /\ AddResource(resourcesMap, f, r).mutators = resourcesMap.mutators
    BY <1>1, UpdateTypes, UpdatesKeepMutators
  <2> QED BY <2>1, <2>2, UpdateKeepsInv
<1>7. ASSUME dialog.editor = "resource"
      PROVE  dialog.file \in File /\ dialog.index \in Nat \ {0}
  BY <1>1, <1>7 DEF Dialog
<1>8. ASSUME SaveResource PROVE EditorInv'
  <2>1. dialog.file \in File /\ dialog.index \in Nat \ {0}
    BY <1>7, <1>8 DEF SaveResource
  <2>2. PICK r \in Resource :
            Update(UpdateResource(resourcesMap, dialog.file, dialog.index, r), FALSE)
    BY <1>8 DEF SaveResource
  <2> DEFINE m == UpdateResource(resourcesMap, dialog.file, dialog.index, r)
  <2>3. m \in ResourcesMap /\ m.mutators = resourcesMap.mutators
    BY <1>1, <2>1, UpdateTypes, UpdatesKeepMutators
  <2> HIDE DEF m
  <2>4. Update(m, FALSE)
    BY <2>2 DEF m
  <2> QED BY <2>3, <2>4, UpdateKeepsInv
<1>9. ASSUME MoveResource PROVE EditorInv'
  <2> DEFINE removed == RemoveResource(resourcesMap, dialog.file, dialog.index)
  <2>1. dialog.file \in File /\ dialog.index \in Nat \ {0}
    BY <1>7, <1>9 DEF MoveResource
  <2>2. removed \in ResourcesMap /\ removed.mutators = resourcesMap.mutators
    BY <1>1, <2>1, UpdateTypes, UpdatesKeepMutators
  <2>3. PICK r \in Resource, f \in File \ {dialog.file} : Update(AddResource(removed, f, r), FALSE)
    BY <1>9 DEF MoveResource
  <2> HIDE DEF removed
  <2>4. /\ AddResource(removed, f, r) \in ResourcesMap
        /\ AddResource(removed, f, r).mutators = resourcesMap.mutators
    BY <2>2, <2>3, UpdateTypes, UpdatesKeepMutators
  <2> QED BY <2>3, <2>4, UpdateKeepsInv
<1>10. ASSUME SaveKptfile PROVE EditorInv'
  <2>1. PICK mutators \in SUBSET (FunctionKind \X File) :
            Update([resourcesMap EXCEPT !.mutators = mutators], TRUE)
    BY <1>10 DEF SaveKptfile
  <2>2. [resourcesMap EXCEPT !.mutators = mutators] \in ResourcesMap
    BY <2>1 DEF EditorInv, TypeOK, ResourcesMap
  <2> QED BY <2>1, <2>2, UpdateKeepsInv
<1>11. ASSUME DeleteResource PROVE EditorInv'
  <2>1. PICK f \in File : \E i \in DOMAIN resourcesMap.files[f] :
            Update(RemoveResource(resourcesMap, f, i), FALSE)
    BY <1>11 DEF DeleteResource
  <2>2. PICK i \in DOMAIN resourcesMap.files[f] : Update(RemoveResource(resourcesMap, f, i), FALSE)
    BY <2>1
  <2>3. i \in Nat \ {0}
    BY <1>1, <2>2
  <2>4. /\ RemoveResource(resourcesMap, f, i) \in ResourcesMap
        /\ RemoveResource(resourcesMap, f, i).mutators = resourcesMap.mutators
    BY <1>1, <2>3, UpdateTypes, UpdatesKeepMutators
  <2> QED BY <2>2, <2>4, UpdateKeepsInv
<1>12. ASSUME NEW e \in pending, EndReplacements(e) PROVE EditorInv'
  <2> DEFINE p == Processed(e.pass, e.original, e.current)
             next == [e EXCEPT !.current = p, !.pass = "SetLabels"]
  <2>1. e \in Edit /\ FollowsSoFar(e) /\ e.pass = "ApplyReplacements"
    BY <1>1, <1>12 DEF EditorInv, EndReplacements
  <2>2. e.original \in ResourcesMap /\ e.current \in ResourcesMap
    BY <2>1 DEF Edit
  <2>3. p \in ResourcesMap
    <3>1. e.pass \in FunctionKind
      BY <2>1 DEF FunctionKind
    <3> QED BY <2>2, <3>1, ProcessedTypes
  <2>4. ~e.kptfile => Follows(p, e.original, "ApplyReplacements") /\ Same(p, e.original, "SetLabels")
    <3> SUFFICES ASSUME ~e.kptfile
                 PROVE  Follows(p, e.original, e.pass) /\ Same(p, e.original, "SetLabels")
      BY <2>1
    <3> QED BY <2>1, PassFollows
  <2>5. pending' = (pending \ {e}) \union {next}
    BY <1>12 DEF EndReplacements
  <2> HIDE DEF p
  <2>6. next \in Edit
    BY <2>1, <2>3 DEF Edit, FunctionKind
  <2>7. FollowsSoFar(next)
    <3>1. next.kptfile = e.kptfile /\ next.original = e.original
          /\ next.current = p /\ next.pass = "SetLabels"
      BY <2>1 DEF Edit
    <3> HIDE DEF next
    <3> QED BY <2>4, <3>1 DEF FollowsSoFar
  <2> HIDE DEF next
  <2>8. UNCHANGED <<resourcesMap, dialog, edits>>
    BY <1>12 DEF EndReplacements
  <2> QED BY <2>5, <2>6, <2>7, <2>8 DEF EditorInv, TypeOK, PageCanRender
<1>13. ASSUME NEW e \in pending, EndEdit(e) PROVE EditorInv'
  <2>1. /\ e.pass \in FunctionKind /\ Parses(e.current)
        /\ e.original \in ResourcesMap /\ e.current \in ResourcesMap
    BY <1>1, <1>13 DEF EndEdit, Continues, Edit
  <2>2. resourcesMap' \in ResourcesMap /\ Parses(resourcesMap')
    BY <1>13, <2>1, ProcessedTypes DEF EndEdit
  <2>3. pending' = pending \ {e} /\ UNCHANGED <<dialog, edits>>
    BY <1>13 DEF EndEdit
  <2> QED BY <2>2, <2>3 DEF EditorInv, TypeOK, PageCanRender
<1>14. ASSUME NEW e \in pending, LoseEdit(e) PROVE EditorInv'
  BY <1>14 DEF LoseEdit, EditorInv, TypeOK, PageCanRender
<1>15. ASSUME UNCHANGED vars PROVE EditorInv'
  BY <1>15 DEF vars, EditorInv, TypeOK, PageCanRender
<1> QED BY <1>2, <1>3, <1>4, <1>5, <1>6, <1>8, <1>9, <1>10, <1>11, <1>12, <1>13, <1>14, <1>15 DEF Next

-----------------------------------------------------------------------------
(* Theorems                                                                *)

LEMMA InvHolds == Spec => []EditorInv
<1>1. Init => EditorInv
  BY InitialInv
<1>2. EditorInv /\ [Next]_vars => EditorInv'
  BY NextKeepsInv
<1> QED BY <1>1, <1>2, PTL DEF Spec

(* Pages, dialogs and edits in processing are of their types, whatever     *)
(* indexes of other times the updates of a resourcesMap have used.         *)
THEOREM EditorTypeCorrect == Spec => []TypeOK
<1>1. EditorInv => TypeOK
  BY DEF EditorInv
<1> QED BY <1>1, InvHolds, PTL

(* No text of the page's resourcesMap is unreadable, for any number of     *)
(* dialogs that have gone stale: the processing of such an edit fails      *)
(* before the page is given its map.                                       *)
THEOREM PageAlwaysRenders == Spec => []PageCanRender
<1>1. EditorInv => PageCanRender
  BY DEF EditorInv
<1> QED BY <1>1, InvHolds, PTL

(* Whatever edits overlap, processing an edit of a resource leaves no      *)
(* function without its resource and no resource without its function, but *)
(* those that were so in the package the edit began with.                  *)
THEOREM FunctionsAlwaysFollow == Spec => FunctionsFollowResources
<1> DEFINE A(e) == e \notin pending' /\ resourcesMap' # resourcesMap /\ ~e.kptfile
                       => /\ Unconfigured(resourcesMap') \subseteq Unconfigured(e.original)
                          /\ Dangling(resourcesMap') \subseteq Dangling(e.original)
<1>1. ASSUME EditorInv, Next, NEW e \in pending, NEW d \in pending, EndEdit(d)
      PROVE  A(e)
  <2>1. SUFFICES ASSUME e \notin pending', ~e.kptfile
                 PROVE  /\ Unconfigured(resourcesMap') \subseteq Unconfigured(e.original)
                        /\ Dangling(resourcesMap') \subseteq Dangling(e.original)
    OBVIOUS
  <2>2. e = d /\ e.pass = "SetLabels" /\ resourcesMap' = Processed(e.pass, e.original, e.current)
    BY <1>1, <2>1 DEF EndEdit
  <2>3. e \in Edit /\ FollowsSoFar(e)
    BY <1>1 DEF EditorInv, TypeOK
  <2>4. /\ Follows(resourcesMap', e.original, "SetLabels")
        /\ Follows(resourcesMap', e.original, "ApplyReplacements")
    BY <2>1, <2>2, <2>3, PassFollows
  <2>5. resourcesMap' \in ResourcesMap
    <3>1. /\ e.pass \in FunctionKind
          /\ e.original \in ResourcesMap /\ e.current \in ResourcesMap
      BY <2>3 DEF Edit
    <3> QED BY <2>2, <3>1, ProcessedTypes
  <2>6. ASSUME NEW q \in Unconfigured(resourcesMap')
        PROVE  q \in Unconfigured(e.original)
    <3>1. PICK k \in FunctionKind, f \in File : q = <<k, f>>
      BY <2>6 DEF Unconfigured
    <3>2. Lacks(resourcesMap', k, f)
      BY <2>6, <3>1 DEF Unconfigured, Lacks
    <3>3. Lacks(e.original, k, f)
      BY <2>4, <3>1, <3>2 DEF Follows, FunctionKind
    <3> QED BY <3>1, <3>3 DEF Unconfigured, Lacks
  <2>7. ASSUME NEW q \in Dangling(resourcesMap')
        PROVE  q \in Dangling(e.original)
    <3>1. PICK k \in FunctionKind, f \in File : q = <<k, f>>
      BY <2>5, <2>7 DEF Dangling, ResourcesMap
    <3>2. Dangles(resourcesMap', k, f)
      BY <2>7, <3>1 DEF Dangling, Dangles
    <3>3. Dangles(e.original, k, f)
      BY <2>4, <3>1, <3>2 DEF Follows, FunctionKind
    <3> QED BY <3>1, <3>3 DEF Dangling, Dangles
  <2> QED BY <2>6, <2>7
<1>2. ASSUME Next, resourcesMap' # resourcesMap
      PROVE  \E d \in pending : EndEdit(d)
  BY <1>2 DEF Next, AddNew, OpenKptfile, OpenResource, Open, CancelDialog, SaveNew, SaveResource,
        MoveResource, SaveKptfile, DeleteResource, Update, EndReplacements, LoseEdit
<1>3. EditorInv /\ [Next]_vars => [\A e \in pending : A(e)]_vars
  BY <1>1, <1>2
<1> QED BY <1>3, InvHolds, PTL DEF Spec, FunctionsFollowResources

-----------------------------------------------------------------------------
(* Counting resources                                                      *)

(* A package has resources in finitely many files. *)
Bounded(m) == IsFiniteSet({f \in File : m.files[f] # <<>>})

Places(m) == UNION {{f} \X DOMAIN m.files[f] : f \in File}

(* Where a resource is.  Count is the number of these places. *)
Where(m, r) == {p \in Places(m) : m.files[p[1]][p[2]] = r}

LEMMA CountIs == \A m, r : Count(m, r) = Cardinality(Where(m, r))
BY DEF Count, Where, Places

LEMMA PlacesFinite ==
    ASSUME NEW m \in ResourcesMap, Bounded(m)
    PROVE  IsFiniteSet(Places(m))
<1> DEFINE F == {f \in File : m.files[f] # <<>>}
           places == [f \in F |-> {f} \X DOMAIN m.files[f]]
           S == {places[f] : f \in F}
<1>1. \A f \in File : m.files[f] \in Seq(Content)
  BY DEF ResourcesMap
<1>2. IsFiniteSet(S)
  <2>1. places \in Surjection(F, S)
    <3> HIDE DEF F
    <3> QED BY DEF Surjection
  <2>2. IsFiniteSet(F)
    BY DEF Bounded
  <2> HIDE DEF places, S, F
  <2> QED BY <2>1, <2>2, FS_Surjection
<1>3. ASSUME NEW T \in S PROVE IsFiniteSet(T)
  <2>1. PICK f \in F : T = {f} \X DOMAIN m.files[f]
    OBVIOUS
  <2>2. IsFiniteSet({f})
    BY FS_Singleton
  <2>3. IsFiniteSet(DOMAIN m.files[f])
    <3>1. DOMAIN m.files[f] = 1..Len(m.files[f]) /\ 1 \in Int /\ Len(m.files[f]) \in Int
      BY <1>1
    <3>2. IsFiniteSet(1..Len(m.files[f]))
      BY <3>1, FS_Interval
    <3> QED BY <3>1, <3>2
  <2> QED BY <2>1, <2>2, <2>3, FS_Product
<1>4. IsFiniteSet(UNION S)
  <2> HIDE DEF S
  <2> QED BY <1>2, <1>3, FS_UNION
<1>5. Places(m) \subseteq UNION S
  <2>1. ASSUME NEW f \in File, NEW i \in DOMAIN m.files[f] PROVE f \in F
    BY <1>1, <2>1
  <2> HIDE DEF F
  <2> QED BY <2>1 DEF Places
<1> HIDE DEF S
<1> QED BY <1>4, <1>5, FS_Subset

LEMMA WhereFinite ==
    ASSUME NEW m \in ResourcesMap, Bounded(m), NEW r
    PROVE  IsFiniteSet(Where(m, r)) /\ Cardinality(Where(m, r)) \in Nat
<1>1. Where(m, r) \in SUBSET Places(m)
  BY DEF Where
<1> QED BY <1>1, PlacesFinite, FS_Subset, FS_CardinalityType

LEMMA InPlace ==
    ASSUME NEW m, NEW r, NEW f, NEW i
    PROVE  <<f, i>> \in Where(m, r) <=> f \in File /\ i \in DOMAIN m.files[f] /\ m.files[f][i] = r
<1>1. <<f, i>> \in Places(m) <=> f \in File /\ i \in DOMAIN m.files[f]
  BY DEF Places
<1> QED BY <1>1 DEF Where

LEMMA Placed ==
    ASSUME NEW m, NEW r, NEW p \in Where(m, r)
    PROVE  p = <<p[1], p[2]>> /\ p[1] \in File /\ p[2] \in DOMAIN m.files[p[1]]
BY DEF Where, Places

(* Changing one file keeps the files few. *)
LEMMA StillBounded ==
    ASSUME NEW m, Bounded(m), NEW n, NEW f, \A g \in File \ {f} : n.files[g] = m.files[g]
    PROVE  Bounded(n)
<1> DEFINE F == {g \in File : m.files[g] # <<>>}
           G == {g \in File : n.files[g] # <<>>}
<1>1. G \in SUBSET (F \union {f})
  OBVIOUS
<1>2. IsFiniteSet(F \union {f})
  BY FS_AddElement DEF Bounded
<1> HIDE DEF F
<1>3. IsFiniteSet(G)
  BY <1>1, <1>2, FS_Subset
<1> QED BY <1>3 DEF Bounded

(* A resource that is added is in one place more. *)
LEMMA CountAdded ==
    ASSUME NEW m \in ResourcesMap, Bounded(m), NEW f \in File, NEW new \in Resource, NEW r
    PROVE  Count(AddResource(m, f, new), r) = Count(m, r) + (IF r = new THEN 1 ELSE 0)
<1> DEFINE n == AddResource(m, f, new)
           s == m.files[f]
           last == Len(s) + 1
<1>1. /\ s \in Seq(Content) /\ new \in Content
      /\ n.files[f] = Append(s, new) /\ \A g \in File \ {f} : n.files[g] = m.files[g]
  BY DEF ResourcesMap, AddResource, Content
<1>2. /\ \A i : i \in DOMAIN n.files[f] <=> i \in DOMAIN s \/ i = last
      /\ n.files[f][last] = new /\ last \notin DOMAIN s
      /\ \A i \in DOMAIN s : n.files[f][i] = s[i]
  <2>1. /\ Append(s, new) \in Seq(Content) /\ Len(Append(s, new)) = Len(s) + 1
        /\ Append(s, new)[last] = new /\ \A i \in 1..Len(s) : Append(s, new)[i] = s[i]
    BY <1>1, AppendProperties
  <2>2. DOMAIN Append(s, new) = 1..(Len(s) + 1) /\ DOMAIN s = 1..Len(s) /\ Len(s) \in Nat
    BY <1>1, <2>1, LenProperties
  <2> HIDE DEF s
  <2> QED BY <1>1, <2>1, <2>2
<1> HIDE DEF n, last
<1>3. ASSUME NEW g, NEW i
      PROVE  <<g, i>> \in Where(n, r) <=>
               <<g, i>> \in Where(m, r) \/ (<<g, i>> = <<f, last>> /\ r = new)
  <2>1. CASE g = f
    BY <1>2, <2>1, InPlace
  <2>2. CASE g # f
    BY <1>1, <2>2, InPlace
  <2> QED BY <2>1, <2>2
<1>4. <<f, last>> \notin Where(m, r)
  BY <1>2, InPlace
<1>5. Where(n, r) = Where(m, r) \union (IF r = new THEN {<<f, last>>} ELSE {})
  <2>1. \A p : p \in Where(n, r) <=> p \in Where(m, r) \/ (p = <<f, last>> /\ r = new)
    BY <1>3, Placed
  <2> QED BY <2>1
<1>6. IsFiniteSet(Where(m, r)) /\ Cardinality(Where(m, r)) \in Nat
  BY WhereFinite
<1>7. Cardinality(Where(n, r)) = Cardinality(Where(m, r)) + (IF r = new THEN 1 ELSE 0)
  <2>1. CASE r = new
    <3>1. Where(n, r) = Where(m, r) \union {<<f, last>>}
      BY <1>5, <2>1
    <3> QED BY <1>4, <1>6, <2>1, <3>1, FS_AddElement
  <2>2. CASE r # new
    <3>1. Where(n, r) = Where(m, r)
      BY <1>5, <2>2
    <3> QED BY <1>6, <2>2, <3>1
  <2> QED BY <2>1, <2>2
<1>8. Count(n, r) = Count(m, r) + (IF r = new THEN 1 ELSE 0)
  BY <1>7, CountIs
<1> QED BY <1>8 DEF n

(* A resource that is replaced in its place makes room for the new one. *)
LEMMA CountUpdated ==
    ASSUME NEW m \in ResourcesMap, Bounded(m), NEW f \in File, NEW i \in DOMAIN m.files[f],
           NEW new \in Resource, NEW r
    PROVE  /\ Count(UpdateResource(m, f, i, new), r) + (IF r = m.files[f][i] THEN 1 ELSE 0)
                = Count(m, r) + (IF r = new THEN 1 ELSE 0)
           /\ Parses(m) => Parses(UpdateResource(m, f, i, new))
<1> DEFINE n == UpdateResource(m, f, i, new)
           s == m.files[f]
           t == n.files[f]
           rest == Where(m, r) \ {<<f, i>>}
<1>1. /\ s \in Seq(Content) /\ new \in Content /\ i \in 1..Len(s) /\ Len(s) \in Nat
      /\ t = Assigned(s, i, new) /\ \A g \in File \ {f} : n.files[g] = m.files[g]
  BY DEF ResourcesMap, UpdateResource, Content
<1>2. /\ \A j : j \in DOMAIN t <=> j \in DOMAIN s
      /\ t[i] = new /\ \A j \in DOMAIN s \ {i} : t[j] = s[j]
  <2>1. ~ (i > Len(s)) /\ DOMAIN s = 1..Len(s)
    BY <1>1
  <2> HIDE DEF s, t
  <2> QED BY <1>1, <2>1 DEF Assigned
<1>3. n \in ResourcesMap /\ Bounded(n)
  <2>1. n \in ResourcesMap
    BY <1>1, UpdateTypes
  <2> HIDE DEF n
  <2> QED BY <1>1, <2>1, StillBounded
<1> HIDE DEF n, t, s
<1>4. ASSUME NEW g, NEW j, <<g, j>> # <<f, i>>
      PROVE  <<g, j>> \in Where(n, r) <=> <<g, j>> \in Where(m, r)
  <2>1. CASE g = f
    BY <1>2, <1>4, <2>1, InPlace DEF s, t
  <2>2. CASE g # f
    BY <1>1, <2>2, InPlace
  <2> QED BY <2>1, <2>2
<1>5. Where(n, r) \ {<<f, i>>} = rest
  BY <1>4, Placed
<1>6. (<<f, i>> \in Where(n, r) <=> r = new) /\ (<<f, i>> \in Where(m, r) <=> r = s[i])
  BY <1>2, InPlace DEF s, t
<1>7. /\ IsFiniteSet(Where(m, r)) /\ Cardinality(Where(m, r)) \in Nat
      /\ IsFiniteSet(Where(n, r)) /\ Cardinality(Where(n, r)) \in Nat
  BY <1>3, WhereFinite
<1> HIDE DEF rest
<1>8. Cardinality(rest) = IF r = new THEN Cardinality(Where(n, r)) - 1 ELSE Cardinality(Where(n, r))
  BY <1>5, <1>6, <1>7, FS_RemoveElement
<1>9. Cardinality(rest) = IF r = s[i] THEN Cardinality(Where(m, r)) - 1 ELSE Cardinality(Where(m, r))
  BY <1>6, <1>7, FS_RemoveElement DEF rest
<1>10. Count(n, r) + (IF r = s[i] THEN 1 ELSE 0) = Count(m, r) + (IF r = new THEN 1 ELSE 0)
  <2>1. Count(n, r) = Cardinality(Where(n, r)) /\ Count(m, r) = Cardinality(Where(m, r))
    BY CountIs
  <2> QED BY <1>7, <1>8, <1>9, <2>1
<1>11. Parses(m) => Parses(n)
  <2> SUFFICES ASSUME Parses(m), NEW g \in File, NEW j \in DOMAIN n.files[g]
               PROVE  n.files[g][j] # Blank
    BY DEF Parses
  <2>1. new # Blank
    BY DEF Resource, FunctionKind, Blank
  <2>2. CASE g = f
    <3>1. j \in DOMAIN s /\ s[j] # Blank
      BY <1>2, <2>2 DEF Parses, s, t
    <3> QED BY <1>2, <2>1, <2>2, <3>1 DEF t
  <2>3. CASE g # f
    BY <1>1, <2>3 DEF Parses
  <2> QED BY <2>2, <2>3
<1> QED BY <1>10, <1>11 DEF n, s

(* What is behind a removed resource moves up. *)
LEMMA SplicedIs ==
    ASSUME NEW s \in Seq(Content), NEW i \in DOMAIN s
    PROVE  /\ DOMAIN Spliced(s, i) = 1..(Len(s) - 1) /\ Len(s) \in Nat /\ i \in 1..Len(s)
           /\ DOMAIN s = 1..Len(s) /\ Len(Spliced(s, i)) = Len(s) - 1
           /\ \A j \in 1..(i - 1) : Spliced(s, i)[j] = s[j]
           /\ \A j \in (i + 1)..Len(s) : Spliced(s, i)[j - 1] = s[j]
<1> DEFINE front == SubSeq(s, 1, i - 1)
           back == SubSeq(s, i + 1, Len(s))
<1>1. i \in 1..Len(s) /\ Len(s) \in Nat /\ DOMAIN s = 1..Len(s)
  OBVIOUS
<1>2. front \in Seq(Content) /\ Len(front) = i - 1 /\ \A j \in 1..(i - 1) : front[j] = s[j]
  <2>1. \A j \in 1..(i - 1) : s[j] \in Content
    BY <1>1
  <2> QED BY <1>1, <2>1, SubSeqProperties
<1>3. /\ back \in Seq(Content) /\ Len(back) = Len(s) - i
      /\ \A j \in 1..(Len(s) - i) : back[j] = s[i + j]
  <2>1. \A j \in (i + 1)..Len(s) : s[j] \in Content
    BY <1>1
  <2> QED BY <1>1, <2>1, SubSeqProperties
<1>4. Spliced(s, i) = front \o back
  BY DEF Spliced
<1> HIDE DEF front, back
<1>5. /\ front \o back \in Seq(Content) /\ Len(front \o back) = Len(s) - 1
      /\ \A j \in 1..(Len(s) - 1) :
           (front \o back)[j] = IF j <= i - 1 THEN front[j] ELSE back[j - (i - 1)]
  <2>1. /\ front \o back \in Seq(Content)
        /\ Len(front \o back) = Len(front) + Len(back)
        /\ \A j \in 1..(Len(front) + Len(back)) :
             (front \o back)[j] = IF j <= Len(front) THEN front[j] ELSE back[j - Len(front)]
    BY <1>2, <1>3, ConcatProperties
  <2> QED BY <1>1, <1>2, <1>3, <2>1
<1>6. DOMAIN (front \o back) = 1..(Len(s) - 1)
  BY <1>5, LenProperties
<1>7. ASSUME NEW j \in 1..(i - 1) PROVE (front \o back)[j] = s[j]
  BY <1>1, <1>2, <1>5
<1>8. ASSUME NEW j \in (i + 1)..Len(s) PROVE (front \o back)[j - 1] = s[j]
  <2>1. /\ j - 1 \in 1..(Len(s) - 1) /\ ~ (j - 1 <= i - 1)
        /\ (j - 1) - (i - 1) = j - i /\ j - i \in 1..(Len(s) - i) /\ i + (j - i) = j
    BY <1>1
  <2> QED BY <1>3, <1>5, <2>1
<1> QED BY <1>1, <1>4, <1>5, <1>6, <1>7, <1>8

LEMMA Removed ==
    ASSUME NEW m \in ResourcesMap, NEW f \in File, NEW i \in DOMAIN m.files[f]
    PROVE  /\ RemoveResource(m, f, i).files[f] = Spliced(m.files[f], i)
           /\ \A g \in File \ {f} : RemoveResource(m, f, i).files[g] = m.files[g]
<1> DEFINE s == m.files[f]
           t == IF i = 1 /\ Len(s) = 1 THEN <<>> ELSE Written(Spliced(s, i))
<1>1. s \in Seq(Content)
  BY DEF ResourcesMap
<1>2. Spliced(s, i) \in Seq(Content) /\ Len(Spliced(s, i)) = Len(s) - 1 /\ Len(s) \in Nat /\ i \in 1..Len(s)
  <2>1. SubSeq(s, 1, i - 1) \o SubSeq(s, i + 1, Len(s)) = Spliced(s, i)
    BY DEF Spliced
  <2>2. SubSeq(s, 1, i - 1) \in Seq(Content) /\ SubSeq(s, i + 1, Len(s)) \in Seq(Content)
    <3>1. /\ i \in 1..Len(s) /\ Len(s) \in Nat /\ \A j \in 1..Len(s) : s[j] \in Content
      BY <1>1
    <3>2. \A j \in 1..(i - 1) : s[j] \in Content
      BY <3>1
    <3>3. \A j \in (i + 1)..Len(s) : s[j] \in Content
      BY <3>1
    <3> QED BY <3>1, <3>2, <3>3, SubSeqProperties
  <2>3. Spliced(s, i) \in Seq(Content)
    BY <2>1, <2>2, ConcatProperties
  <2> QED BY <1>1, <2>3, SplicedIs
<1>3. t = Spliced(s, i)
  <2> DEFINE u == Spliced(s, i)
  <2> HIDE DEF u, s
  <2>1. u \in Seq(Content) /\ Len(u) = Len(s) - 1 /\ i \in 1..Len(s) /\ Len(s) \in Nat
    BY <1>2 DEF u
  <2>2. CASE Len(s) = 1
    <3>1. i = 1 /\ u = <<>>
      BY <2>1, <2>2
    <3> QED BY <2>2, <3>1 DEF u
  <2>3. CASE Len(s) # 1
    <3>1. u # <<>>
      BY <2>1, <2>3
    <3> QED BY <2>3, <3>1 DEF Written, u
  <2> QED BY <2>2, <2>3
<1> HIDE DEF t
<1>4. RemoveResource(m, f, i) = [m EXCEPT !.files[f] = t]
  BY DEF RemoveResource, t
<1>5. DOMAIN m = {"files", "mutators"} /\ DOMAIN m.files = File
  BY DEF ResourcesMap
<1> QED BY <1>3, <1>4, <1>5

(* A resource that is deleted is in one place less. *)
LEMMA CountRemoved ==
    ASSUME NEW m \in ResourcesMap, Bounded(m), NEW f \in File, NEW i \in DOMAIN m.files[f], NEW r
    PROVE  /\ Count(RemoveResource(m, f, i), r) + (IF r = m.files[f][i] THEN 1 ELSE 0) = Count(m, r)
           /\ Bounded(RemoveResource(m, f, i))
           /\ Parses(m) => Parses(RemoveResource(m, f, i))
<1> DEFINE n == RemoveResource(m, f, i)
           s == m.files[f]
           t == n.files[f]
           k == Len(s)
           rest == Where(m, r) \ {<<f, i>>}
           moved(p) == IF p[1] = f /\ p[2] > i THEN <<f, p[2] - 1>> ELSE p
           move == [p \in rest |-> moved(p)]
<1>1. s \in Seq(Content)
  BY DEF ResourcesMap
<1>2. t = Spliced(s, i) /\ \A g \in File \ {f} : n.files[g] = m.files[g]
  BY Removed
<1>3. /\ k \in Nat /\ i \in 1..k /\ DOMAIN s = 1..k /\ DOMAIN t = 1..(k - 1)
      /\ \A j \in 1..(i - 1) : t[j] = s[j]
      /\ \A j \in (i + 1)..k : t[j - 1] = s[j]
  BY <1>1, <1>2, SplicedIs
<1>4. Bounded(n)
  <2> HIDE DEF n
  <2> QED BY <1>2, StillBounded
<1> HIDE DEF n, t, k, s
<1>5. ASSUME NEW p \in rest PROVE moved(p) \in Where(n, r)
  <2>1. /\ p = <<p[1], p[2]>> /\ p[1] \in File /\ p[2] \in DOMAIN m.files[p[1]]
        /\ m.files[p[1]][p[2]] = r /\ p # <<f, i>>
    BY Placed, InPlace
  <2>2. CASE p[1] # f
    <3>1. <<p[1], p[2]>> \in Where(n, r)
      BY <1>2, <2>1, <2>2, InPlace
    <3> QED BY <2>1, <2>2, <3>1
  <2>3. CASE p[1] = f /\ p[2] > i
    <3>1. p[2] \in (i + 1)..k /\ p[2] - 1 \in 1..(k - 1)
      BY <1>3, <2>1, <2>3 DEF s
    <3>2. t[p[2] - 1] = r
      BY <1>3, <2>1, <2>3, <3>1 DEF s
    <3>3. <<f, p[2] - 1>> \in Where(n, r)
      BY <1>3, <3>1, <3>2, InPlace DEF t
    <3> QED BY <2>3, <3>3
  <2>4. CASE p[1] = f /\ ~ (p[2] > i)
    <3>1. p[2] \in 1..(i - 1) /\ p[2] \in 1..(k - 1)
      BY <1>3, <2>1, <2>4 DEF s
    <3>2. <<f, p[2]>> \in Where(n, r)
      BY <1>3, <2>1, <2>4, <3>1, InPlace DEF s, t
    <3> QED BY <2>1, <2>4, <3>2
  <2> QED BY <2>2, <2>3, <2>4
<1>6. ASSUME NEW p \in rest, NEW q \in rest, moved(p) = moved(q) PROVE p = q
  <2>1. /\ p = <<p[1], p[2]>> /\ p[2] \in DOMAIN m.files[p[1]] /\ p # <<f, i>>
        /\ q = <<q[1], q[2]>> /\ q[2] \in DOMAIN m.files[q[1]] /\ q # <<f, i>>
    BY Placed
  <2>2. p[1] = q[1]
    BY <1>6, <2>1
  <2>3. CASE p[1] # f
    BY <1>6, <2>2, <2>3
  <2>4. CASE p[1] = f
    <3>1. p[2] \in 1..k /\ q[2] \in 1..k /\ p[2] # i /\ q[2] # i
      BY <1>3, <2>1, <2>2, <2>4 DEF s
    <3>2. (IF p[2] > i THEN p[2] - 1 ELSE p[2]) = (IF q[2] > i THEN q[2] - 1 ELSE q[2])
      BY <1>6, <2>1, <2>2, <2>4
    <3>3. p[2] = q[2]
      BY <1>3, <3>1, <3>2
    <3> QED BY <2>1, <2>2, <3>3
  <2> QED BY <2>3, <2>4
<1>7. ASSUME NEW q \in Where(n, r) PROVE \E p \in rest : moved(p) = q
  <2>1. /\ q = <<q[1], q[2]>> /\ q[1] \in File /\ q[2] \in DOMAIN n.files[q[1]]
        /\ n.files[q[1]][q[2]] = r
    BY Placed, InPlace
  <2>2. CASE q[1] # f
    <3>1. <<q[1], q[2]>> \in Where(m, r)
      BY <1>2, <2>1, <2>2, InPlace
    <3> QED BY <2>1, <2>2, <3>1
  <2>3. CASE q[1] = f /\ q[2] < i
    <3>1. q[2] \in 1..(i - 1) /\ q[2] \in DOMAIN s /\ ~ (q[2] > i) /\ q[2] # i
      BY <1>3, <2>1, <2>3 DEF t
    <3>2. <<f, q[2]>> \in Where(m, r)
      BY <1>3, <2>1, <2>3, <3>1, InPlace DEF s, t
    <3> QED BY <2>1, <2>3, <3>1, <3>2
  <2>4. CASE q[1] = f /\ ~ (q[2] < i)
    <3> DEFINE j == q[2] + 1
    <3>1. j \in (i + 1)..k /\ j - 1 = q[2] /\ j > i /\ j # i /\ j \in DOMAIN s
      BY <1>3, <2>1, <2>4 DEF t
    <3>2. <<f, j>> \in Where(m, r)
      BY <1>3, <2>1, <2>4, <3>1, InPlace DEF s, t
    <3>3. <<f, j>> \in rest /\ moved(<<f, j>>) = q
      BY <2>1, <2>4, <3>1, <3>2
    <3> QED BY <3>3
  <2> QED BY <1>3, <2>1, <2>2, <2>3, <2>4 DEF t
<1>8. IsFiniteSet(Where(m, r)) /\ Cardinality(Where(m, r)) \in Nat
  BY WhereFinite
<1>9. (<<f, i>> \in Where(m, r)) <=> (r = s[i])
  BY <1>3, InPlace DEF s
<1>10. Cardinality(Where(n, r)) = Cardinality(rest) /\ IsFiniteSet(rest)
  <2>1. move \in Bijection(rest, Where(n, r))
    <3>1. \A p \in rest : move[p] = moved(p)
      OBVIOUS
    <3>2. move \in [rest -> Where(n, r)]
      BY <1>5
    <3> HIDE DEF rest, move, moved
    <3> QED BY <1>6, <1>7, <3>1, <3>2 DEF Bijection, Injection, IsInjective, Surjection
  <2>2. IsFiniteSet(rest)
    BY <1>8, FS_RemoveElement
  <2> HIDE DEF rest, move
  <2> QED BY <2>1, <2>2, FS_Bijection DEF ExistsBijection
<1>11. Cardinality(rest) = IF r = s[i] THEN Cardinality(Where(m, r)) - 1 ELSE Cardinality(Where(m, r))
  BY <1>8, <1>9, FS_RemoveElement
<1> HIDE DEF rest
<1>12. Count(n, r) + (IF r = s[i] THEN 1 ELSE 0) = Count(m, r)
  <2>1. Count(n, r) = Cardinality(Where(n, r)) /\ Count(m, r) = Cardinality(Where(m, r))
    BY CountIs
  <2> QED BY <1>8, <1>10, <1>11, <2>1
<1>13. Parses(m) => Parses(n)
  <2> SUFFICES ASSUME Parses(m), NEW g \in File, NEW j \in DOMAIN n.files[g]
               PROVE  n.files[g][j] # Blank
    BY DEF Parses
  <2>1. CASE g = f /\ j < i
    <3>1. j \in 1..(i - 1) /\ j \in DOMAIN s
      BY <1>3, <2>1 DEF t
    <3> QED BY <1>3, <2>1, <3>1 DEF Parses, s, t
  <2>2. CASE g = f /\ ~ (j < i)
    <3>1. j + 1 \in (i + 1)..k /\ (j + 1) - 1 = j /\ j + 1 \in DOMAIN s
      BY <1>3, <2>2 DEF t
    <3>2. t[j] = s[j + 1] /\ s[j + 1] # Blank
      BY <1>3, <3>1 DEF Parses, s
    <3> QED BY <2>2, <3>2 DEF t
  <2>3. CASE g # f
    BY <1>2, <2>3 DEF Parses
  <2> QED BY <2>1, <2>2, <2>3
<1> QED BY <1>4, <1>12, <1>13 DEF n, s

LEMMA AddedParses ==
    ASSUME NEW m \in ResourcesMap, Parses(m), NEW f \in File, NEW new \in Resource
    PROVE  Parses(AddResource(m, f, new))
<1> DEFINE n == AddResource(m, f, new)
           s == m.files[f]
<1>1. /\ s \in Seq(Content) /\ new \in Content /\ new # Blank
      /\ n.files[f] = Append(s, new) /\ \A g \in File \ {f} : n.files[g] = m.files[g]
  BY DEF ResourcesMap, AddResource, Content, Resource, FunctionKind, Blank
<1>2. \A i \in DOMAIN s : s[i] # Blank
  BY DEF Parses
<1> HIDE DEF n, s
<1>3. \A i \in DOMAIN Append(s, new) : Append(s, new)[i] = new \/ (i \in DOMAIN s /\ Append(s, new)[i] = s[i])
  <2>1. /\ Len(Append(s, new)) = Len(s) + 1
        /\ Append(s, new)[Len(s) + 1] = new /\ \A i \in 1..Len(s) : Append(s, new)[i] = s[i]
        /\ Append(s, new) \in Seq(Content)
    BY <1>1, AppendProperties
  <2>2. DOMAIN Append(s, new) = 1..(Len(s) + 1) /\ DOMAIN s = 1..Len(s) /\ Len(s) \in Nat
    BY <1>1, <2>1, LenProperties
  <2> QED BY <2>1, <2>2
<1>4. \A i \in DOMAIN n.files[f] : n.files[f][i] # Blank
  BY <1>1, <1>2, <1>3
<1>5. \A g \in File \ {f} : \A i \in DOMAIN n.files[g] : n.files[g][i] # Blank
  BY <1>1 DEF Parses
<1> QED BY <1>4, <1>5 DEF Parses, n

(* Only the end of an edit changes the page's map. *)
LEMMA ChangedByEndEdit ==
    ASSUME Next, resourcesMap' # resourcesMap
    PROVE  \E d \in pending : EndEdit(d)
BY DEF Next, AddNew, OpenKptfile, OpenResource, Open, CancelDialog, SaveNew, SaveResource,
       MoveResource, SaveKptfile, DeleteResource, Update, EndReplacements, LoseEdit

-----------------------------------------------------------------------------
(* Updates of the resources                                                *)

FewFiles ==
    /\ Bounded(resourcesMap)
    /\ \A e \in pending : Bounded(e.current)

LEMMA OtherFilesStay ==
    ASSUME NEW m \in ResourcesMap, Bounded(m), NEW f \in File
    PROVE  /\ \A r : Bounded(AddResource(m, f, r))
           /\ \A i, r : Bounded(UpdateResource(m, f, i, r))
           /\ \A i : Bounded(RemoveResource(m, f, i))
<1>1. /\ \A r : \A g \in File \ {f} : AddResource(m, f, r).files[g] = m.files[g]
      /\ \A i, r : \A g \in File \ {f} : UpdateResource(m, f, i, r).files[g] = m.files[g]
      /\ \A i : \A g \in File \ {f} : RemoveResource(m, f, i).files[g] = m.files[g]
  BY DEF ResourcesMap, AddResource, UpdateResource, RemoveResource
<1> QED BY <1>1, StillBounded

(* What the edit that an update begins has of it. *)
LEMMA EditBegun ==
    ASSUME NEW m, NEW kptfile, Update(m, kptfile), NEW e \in pending' \ pending
    PROVE  e.current = m /\ e.original = resourcesMap /\ e.kptfile = kptfile
BY DEF Update

(* What each way of updating makes of the page's map. *)
LEMMA UpdatesAre ==
    ASSUME TypeOK, NEW e \in pending' \ pending, Next
    PROVE  \/ \E r \in Resource, f \in File :
                /\ dialog.editor = "new"
                /\ Update(AddResource(resourcesMap, f, r), FALSE)
           \/ \E r \in Resource :
                /\ dialog.editor = "resource"
                /\ Update(UpdateResource(resourcesMap, dialog.file, dialog.index, r), FALSE)
           \/ \E r \in Resource, f \in File \ {dialog.file} :
                /\ dialog.editor = "resource"
                /\ Update(AddResource(RemoveResource(resourcesMap, dialog.file, dialog.index), f, r), FALSE)
           \/ \E mutators \in SUBSET (FunctionKind \X File) :
                Update([resourcesMap EXCEPT !.mutators = mutators], TRUE)
           \/ \E f \in File : \E i \in DOMAIN resourcesMap.files[f] :
                dialog = NoDialog /\ Update(RemoveResource(resourcesMap, f, i), FALSE)
           \/ \E d \in pending : EndReplacements(d)
BY DEF Next, AddNew, OpenKptfile, OpenResource, Open, CancelDialog, SaveNew, SaveResource,
       MoveResource, SaveKptfile, DeleteResource, EndEdit, LoseEdit

LEMMA DialogFacts ==
    ASSUME TypeOK
    PROVE  /\ dialog.editor = "resource" =>
                dialog.file \in File /\ dialog.index \in Nat \ {0} /\ dialog.resource \in Resource
           /\ resourcesMap \in ResourcesMap /\ pending \subseteq Edit
BY DEF TypeOK, Dialog

LEMMA ProcessedBounded ==
    ASSUME NEW d \in Edit, Bounded(d.current)
    PROVE  Bounded(Processed(d.pass, d.original, d.current))
<1>1. d.pass \in FunctionKind /\ d.original \in ResourcesMap /\ d.current \in ResourcesMap
  BY DEF Edit
<1>2. Processed(d.pass, d.original, d.current).files = d.current.files
  BY <1>1, ProcessedTypes
<1> QED BY <1>2 DEF Bounded

LEMMA NewEditsFew ==
    ASSUME TypeOK, FewFiles, Next, NEW e \in pending' \ pending
    PROVE  Bounded(e.current)
<1>1. /\ dialog.editor = "resource" => dialog.file \in File /\ dialog.index \in Nat \ {0}
      /\ resourcesMap \in ResourcesMap /\ Bounded(resourcesMap) /\ pending \subseteq Edit
  BY DialogFacts DEF FewFiles
<1>2. ASSUME NEW r \in Resource, NEW f \in File, Update(AddResource(resourcesMap, f, r), FALSE)
      PROVE  Bounded(e.current)
  <2> DEFINE m == AddResource(resourcesMap, f, r)
  <2>1. Bounded(m)
    BY <1>1, OtherFilesStay
  <2>2. e.current = m
    BY <1>2, EditBegun
  <2> HIDE DEF m
  <2> QED BY <2>1, <2>2
<1>3. ASSUME NEW r \in Resource, dialog.editor = "resource",
             Update(UpdateResource(resourcesMap, dialog.file, dialog.index, r), FALSE)
      PROVE  Bounded(e.current)
  <2> DEFINE m == UpdateResource(resourcesMap, dialog.file, dialog.index, r)
  <2>1. Bounded(m)
    BY <1>1, <1>3, OtherFilesStay
  <2>2. e.current = m
    BY <1>3, EditBegun
  <2> HIDE DEF m
  <2> QED BY <2>1, <2>2
<1>4. ASSUME NEW r \in Resource, NEW f \in File, dialog.editor = "resource",
             Update(AddResource(RemoveResource(resourcesMap, dialog.file, dialog.index), f, r), FALSE)
      PROVE  Bounded(e.current)
  <2> DEFINE removed == RemoveResource(resourcesMap, dialog.file, dialog.index)
  <2>1. removed \in ResourcesMap /\ Bounded(removed)
    BY <1>1, <1>4, UpdateTypes, OtherFilesStay
  <2>2. e.current = AddResource(removed, f, r)
    BY <1>4, EditBegun
  <2> HIDE DEF removed
  <2> QED BY <2>1, <2>2, OtherFilesStay
<1>5. ASSUME NEW mutators, Update([resourcesMap EXCEPT !.mutators = mutators], TRUE)
      PROVE  Bounded(e.current)
  <2>1. e.current = [resourcesMap EXCEPT !.mutators = mutators]
    BY <1>5, EditBegun
  <2>2. e.current.files = resourcesMap.files
    BY <1>1, <2>1 DEF ResourcesMap
  <2> QED BY <1>1, <2>2 DEF Bounded
<1>6. ASSUME NEW f \in File, NEW i, Update(RemoveResource(resourcesMap, f, i), FALSE)
      PROVE  Bounded(e.current)
  <2> DEFINE m == RemoveResource(resourcesMap, f, i)
  <2>1. Bounded(m)
    BY <1>1, OtherFilesStay
  <2>2. e.current = m
    BY <1>6, EditBegun
  <2> HIDE DEF m
  <2> QED BY <2>1, <2>2
<1>7. ASSUME NEW d \in pending, EndReplacements(d)
      PROVE  Bounded(e.current)
  <2> DEFINE p == Processed(d.pass, d.original, d.current)
  <2>1. d \in Edit /\ Bounded(d.current)
    BY <1>1 DEF FewFiles
  <2>2. Bounded(p)
    BY <2>1, ProcessedBounded
  <2> HIDE DEF p
  <2>3. e = [d EXCEPT !.current = p, !.pass = "SetLabels"]
    BY <1>7 DEF EndReplacements, p
  <2>4. e.current = p
    BY <2>1, <2>3 DEF Edit
  <2> QED BY <2>2, <2>4
<1> QED BY <1>2, <1>3, <1>4, <1>5, <1>6, <1>7, UpdatesAre

LEMMA FilesStayFew == Spec => []FewFiles
<1>1. Init => FewFiles
  BY PackagesAssumption DEF Init, FewFiles, Bounded
<1>2. EditorInv /\ FewFiles /\ [Next]_vars => FewFiles'
  <2> SUFFICES ASSUME EditorInv, FewFiles, [Next]_vars PROVE FewFiles'
    OBVIOUS
  <2>1. TypeOK /\ pending \subseteq Edit
    BY DEF EditorInv, TypeOK
  <2>2. CASE Next
    <3>1. \A e \in pending' : Bounded(e.current)
      BY <2>1, <2>2, NewEditsFew DEF FewFiles
    <3>2. Bounded(resourcesMap')
      <4>1. CASE resourcesMap' = resourcesMap
        BY <4>1 DEF FewFiles
      <4>2. CASE resourcesMap' # resourcesMap
        <5>1. PICK d \in pending : EndEdit(d)
          BY <2>2, <4>2, ChangedByEndEdit
        <5> QED BY <2>1, <5>1, ProcessedBounded DEF FewFiles, EndEdit
      <4> QED BY <4>1, <4>2
    <3> QED BY <3>1, <3>2 DEF FewFiles, Bounded
  <2>3. CASE UNCHANGED vars
    BY <2>3 DEF vars, FewFiles, Bounded
  <2> QED BY <2>2, <2>3
<1> QED BY <1>1, <1>2, InvHolds, PTL DEF Spec

Exchanged(m, n, old, new) ==
    \A r \in Resource :
        Count(n, r) + (IF r = old THEN 1 ELSE 0) = Count(m, r) + (IF r = new THEN 1 ELSE 0)

(* From a dialog whose resource is still in its place, and from the table,  *)
(* an update adds, deletes or exchanges one resource, whatever packages and *)
(* edits there were before (packageRevisionResources.ts).                   *)
THEOREM FreshUpdatesAreExact == Spec => FreshUpdatesKeepOthers
<1> DEFINE A(e) == edits' # edits /\ Fresh /\ ~e.kptfile
                     => /\ Parses(e.current)
                        /\ \E old, new \in Content :
                             /\ dialog.editor = "resource" => old = dialog.resource
                             /\ \A r \in Resource :
                                 Count(e.current, r) + (IF r = old THEN 1 ELSE 0)
                                     = Count(e.original, r) + (IF r = new THEN 1 ELSE 0)
<1>1. ASSUME EditorInv, FewFiles, Next, NEW e \in pending' \ pending, edits' # edits, Fresh, ~e.kptfile
      PROVE  /\ Parses(e.current)
             /\ \E old, new \in Content :
                  /\ dialog.editor = "resource" => old = dialog.resource
                  /\ Exchanged(e.original, e.current, old, new)
  <2> DEFINE Goal(m) == /\ Parses(m)
                        /\ \E old, new \in Content :
                             /\ dialog.editor = "resource" => old = dialog.resource
                             /\ Exchanged(resourcesMap, m, old, new)
  <2>1. /\ dialog.editor = "resource" =>
             /\ dialog.file \in File /\ dialog.index \in Nat \ {0} /\ dialog.resource \in Content
             /\ dialog.index \in DOMAIN resourcesMap.files[dialog.file]
             /\ resourcesMap.files[dialog.file][dialog.index] = dialog.resource
        /\ resourcesMap \in ResourcesMap /\ Bounded(resourcesMap) /\ Parses(resourcesMap) /\ TypeOK
    BY <1>1, DialogFacts DEF EditorInv, FewFiles, PageCanRender, Fresh, Content
  <2>2. /\ Blank \in Content /\ Resource \subseteq Content
        /\ \A r \in Resource : r # Blank
    BY DEF Content, Resource, FunctionKind, Blank
  <2>3. ASSUME NEW r \in Resource, NEW f \in File, dialog.editor = "new"
        PROVE  Goal(AddResource(resourcesMap, f, r))
    <3>1. Exchanged(resourcesMap, AddResource(resourcesMap, f, r), Blank, r)
      <4> SUFFICES ASSUME NEW q \in Resource
                   PROVE  Count(AddResource(resourcesMap, f, r), q) + (IF q = Blank THEN 1 ELSE 0)
                            = Count(resourcesMap, q) + (IF q = r THEN 1 ELSE 0)
        BY DEF Exchanged
      <4>1. Count(AddResource(resourcesMap, f, r), q) = Count(resourcesMap, q) + (IF q = r THEN 1 ELSE 0)
        BY <2>1, CountAdded
      <4>2. Count(resourcesMap, q) \in Nat
        BY <2>1, CountIs, WhereFinite
      <4> QED BY <2>2, <4>1, <4>2
    <3>2. Parses(AddResource(resourcesMap, f, r))
      BY <2>1, AddedParses
    <3> QED BY <2>2, <2>3, <3>1, <3>2
  <2>4. ASSUME NEW r \in Resource, dialog.editor = "resource"
        PROVE  Goal(UpdateResource(resourcesMap, dialog.file, dialog.index, r))
    <3> DEFINE n == UpdateResource(resourcesMap, dialog.file, dialog.index, r)
    <3>1. Exchanged(resourcesMap, n, dialog.resource, r) /\ Parses(n)
      BY <2>1, <2>4, CountUpdated DEF Exchanged
    <3> HIDE DEF n
    <3>2. Goal(n)
      BY <2>1, <2>2, <2>4, <3>1
    <3> QED BY <3>2 DEF n
  <2>5. ASSUME NEW r \in Resource, NEW f \in File \ {dialog.file}, dialog.editor = "resource"
        PROVE  Goal(AddResource(RemoveResource(resourcesMap, dialog.file, dialog.index), f, r))
    <3> DEFINE removed == RemoveResource(resourcesMap, dialog.file, dialog.index)
               n == AddResource(removed, f, r)
    <3>1. removed \in ResourcesMap
      BY <2>1, <2>5, UpdateTypes
    <3>2. /\ Bounded(removed) /\ Parses(removed)
          /\ \A q : Count(removed, q) + (IF q = dialog.resource THEN 1 ELSE 0) = Count(resourcesMap, q)
      BY <2>1, <2>5, CountRemoved
    <3> HIDE DEF removed
    <3>3. \A q : Count(n, q) = Count(removed, q) + (IF q = r THEN 1 ELSE 0)
      BY <3>1, <3>2, CountAdded
    <3>4. Parses(n)
      BY <3>1, <3>2, AddedParses
    <3>5. \A q : Count(removed, q) \in Nat
      BY <3>1, <3>2, CountIs, WhereFinite
    <3> HIDE DEF n
    <3>6. Exchanged(resourcesMap, n, dialog.resource, r)
      <4> SUFFICES ASSUME NEW q \in Resource
                   PROVE  Count(n, q) + (IF q = dialog.resource THEN 1 ELSE 0)
                            = Count(resourcesMap, q) + (IF q = r THEN 1 ELSE 0)
        BY DEF Exchanged
      <4> QED BY <3>2, <3>3, <3>5
    <3>7. Goal(n)
      BY <2>1, <2>2, <2>5, <3>4, <3>6
    <3> QED BY <3>7 DEF n, removed
  <2>6. ASSUME NEW f \in File, NEW i \in DOMAIN resourcesMap.files[f], dialog = NoDialog
        PROVE  Goal(RemoveResource(resourcesMap, f, i))
    <3> DEFINE n == RemoveResource(resourcesMap, f, i)
               old == resourcesMap.files[f][i]
    <3>1. Parses(n) /\ \A q : Count(n, q) + (IF q = old THEN 1 ELSE 0) = Count(resourcesMap, q)
      BY <2>1, CountRemoved
    <3>2. \A q : Count(resourcesMap, q) \in Nat
      BY <2>1, CountIs, WhereFinite
    <3>3. dialog.editor # "resource"
      BY <2>6 DEF NoDialog
    <3>4. old \in Content
      BY <2>1 DEF ResourcesMap
    <3> HIDE DEF n, old
    <3>5. Exchanged(resourcesMap, n, old, Blank)
      BY <2>2, <3>1, <3>2 DEF Exchanged
    <3>6. Goal(n)
      BY <2>2, <3>1, <3>3, <3>4, <3>5
    <3> QED BY <3>6 DEF n
  <2> HIDE DEF Goal
  <2>7. e.original = resourcesMap /\ Goal(e.current)
    <3>1. \A d \in pending : ~ EndReplacements(d)
      BY <1>1 DEF EndReplacements
    <3>2. \A mutators : ~ Update([resourcesMap EXCEPT !.mutators = mutators], TRUE)
      BY <1>1, EditBegun
    <3>3. ASSUME NEW m, Goal(m), Update(m, FALSE)
          PROVE  e.original = resourcesMap /\ Goal(e.current)
      BY <3>3, EditBegun
    <3> QED BY <1>1, <2>1, <2>3, <2>4, <2>5, <2>6, <3>1, <3>2, <3>3, UpdatesAre
  <2> QED BY <2>7 DEF Goal
<1>2. EditorInv /\ FewFiles /\ [Next]_vars => [\A e \in pending' \ pending : A(e)]_vars
  BY <1>1 DEF Exchanged
<1> QED BY <1>2, InvHolds, FilesStayFew, PTL DEF Spec, FreshUpdatesKeepOthers

=============================================================================
