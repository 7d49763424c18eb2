--------------------- MODULE PackageRevisionPage_proofs ---------------------
(* Theorems about PackageRevisionPage, for any number of tabs.             *)
EXTENDS PackageRevisionPage, TLAPS

-----------------------------------------------------------------------------
(* Types                                                                   *)

USE DEF Tab

LEMMA FirstWorkspace == 1 \in Workspace /\ Workspace \subseteq Nat
BY MaxRevisionAssumption DEF Workspace

LEMMA NoRevisionType == NoRevision \in Revision /\ NoRevisions \in [Workspace -> Revision]
BY DEF NoRevision, NoRevisions, Revision, Lifecycle

LEMMA ClosedType == Closed \in Page
BY NoRevisionType, FirstWorkspace DEF Closed, Page, Mode

(* What the helpers make of a page is a page. *)
LEMMA PageHelpers ==
    ASSUME NEW p \in Page
    PROVE  /\ RequestOver(p) \in Page
           /\ \A n \in Workspace, mode \in Mode : Visiting(p, n, mode) \in Page
           /\ Left(p) \in Page
           /\ Navigated(p) \in Page
<1>1. RequestOver(p) \in Page
  BY FirstWorkspace DEF RequestOver, Page
<1>2. \A q \in Page : \A n \in Workspace, mode \in Mode : Visiting(q, n, mode) \in Page
  BY DEF Visiting, Page
<1>3. Left(p) \in Page
  <2>1. CASE p.op \in {"restore", "navigate"}
    <3>1. /\ p.edited \in Nat /\ p.target \in Workspace /\ p.restoring \in SUBSET Edit
          /\ p.op \in {"idle", "reload", "restore", "navigate"}
      BY DEF Page
    <3> DEFINE q == [Closed EXCEPT !.edited = p.edited, !.op = p.op,
                                   !.target = p.target, !.restoring = p.restoring]
    <3>2. q \in Page
      BY <3>1, ClosedType DEF Page
    <3> QED BY <2>1, <3>2 DEF Left
  <2>2. CASE p.op \notin {"restore", "navigate"}
    BY <2>2, ClosedType DEF Left
  <2> QED BY <2>1, <2>2
<1>4. Navigated(p) \in Page
  BY <1>1, <1>2, ClosedType DEF Navigated, Mode, Page
<1> QED BY <1>1, <1>2, <1>3, <1>4

LEMMA LoadHelpers ==
    ASSUME TypeOK, NEW t \in Tab, NEW n \in Workspace
    PROVE  /\ \A caller \in {"visit", "handler"} : NewLoad(t, n, caller) \in Load
           /\ LoadsAfterVisit(t, n) \in SUBSET Load
<1>1. \A caller \in {"visit", "handler"} : NewLoad(t, n, caller) \in Load
  BY NoRevisionType DEF NewLoad, Load
<1>2. \A l \in loads : [l EXCEPT !.caller = "superseded"] \in Load
  BY DEF TypeOK, Load
<1> QED BY <1>1, <1>2 DEF LoadsAfterVisit, TypeOK

LEMMA LoadedType ==
    ASSUME TypeOK, NEW l \in loads
    PROVE  Loaded(l) \in Page
<1>1. l \in Load /\ page[l.tab] \in Page
  BY DEF TypeOK, Load
<1> DEFINE q == [page[l.tab] EXCEPT !.status = StatusAfter(l)]
<1>2. q \in Page
  BY <1>1 DEF StatusAfter, Page
<1> DEFINE p == AwaitOver(l, q)
<1>3. p \in Page
  BY <1>2, PageHelpers DEF AwaitOver
<1>4. /\ l.revs \in [Workspace -> Revision] /\ l.url \in Workspace
      /\ l.res[l.url].edits \in SUBSET Edit /\ LoadedVersion(l) \in Nat
  BY <1>1 DEF Load, LoadedVersion, Revision
<1> HIDE DEF p
<1> DEFINE b == IF Processing(p) THEN "overtaken" ELSE "no"
<1>5. b \in {"no", "yes", "overtaken", "mixed"}
  OBVIOUS
<1> HIDE DEF b
<1>6. [p EXCEPT !.list = l.revs, !.shown = l.url, !.edits = l.res[l.url].edits,
                !.edited = LoadedVersion(l), !.editing = b] \in Page
  BY <1>1, <1>3, <1>4, <1>5 DEF Page
<1> QED BY <1>3, <1>6 DEF Loaded, p, b

(* A change of the given fields leaves a page a page. *)
LEMMA PageFields ==
    ASSUME TypeOK, NEW t \in Tab
    PROVE  /\ [page[t] EXCEPT !.op = "reload"] \in Page
           /\ \A n \in Workspace :
                 [page[t] EXCEPT !.op = "navigate", !.target = n] \in Page
           /\ \A n \in Workspace :
                 [page[t] EXCEPT !.op = "restore", !.target = n,
                                 !.restoring = page[t].edits] \in Page
           /\ [page[t] EXCEPT !.op = "navigate", !.restoring = {}] \in Page
           /\ [page[t] EXCEPT !.status = "error"] \in Page
<1>1. page[t] \in Page /\ page[t].edits \in SUBSET Edit
  BY DEF TypeOK, Page
<1>2. [page[t] EXCEPT !.op = "reload"] \in Page
  BY <1>1 DEF Page
<1>3. ASSUME NEW n \in Workspace
      PROVE  [page[t] EXCEPT !.op = "navigate", !.target = n] \in Page
  BY <1>1 DEF Page
<1>4. ASSUME NEW n \in Workspace
      PROVE  [page[t] EXCEPT !.op = "restore", !.target = n,
                             !.restoring = page[t].edits] \in Page
  BY <1>1 DEF Page
<1>5. [page[t] EXCEPT !.op = "navigate", !.restoring = {}] \in Page
  BY <1>1 DEF Page
<1>6. [page[t] EXCEPT !.status = "error"] \in Page
  BY <1>1 DEF Page
<1> QED BY <1>2, <1>3, <1>4, <1>5, <1>6

(* What an accepted write does to the server's state. *)
Write(n, r) ==
    /\ n \in Workspace /\ r \in Revision
    /\ r.lifecycle # "Absent"
    /\ r.version = version + 1 /\ version' = version + 1
    /\ revision' = [revision EXCEPT ![n] = r]

LEMMA PostRevisionWrites ==
    ASSUME TypeOK, NEW n, NEW edits \in SUBSET Edit, PostRevision(n, edits)
    PROVE  Write(n, [lifecycle |-> "Draft", number |-> 0,
                     version |-> version + 1, edits |-> edits])
BY DEF TypeOK, PostRevision, Write, NextVersion, Revision, Lifecycle

LEMMA PutRevisionWrites ==
    ASSUME TypeOK, NEW n, NEW copy \in Revision, copy.lifecycle # "Absent",
           PutRevision(n, copy)
    PROVE  Write(n, [revision[n] EXCEPT !.lifecycle = copy.lifecycle,
                                        !.version = version + 1])
<1>1. /\ n \in Workspace /\ version' = version + 1
      /\ revision' = [revision EXCEPT ![n] = [revision[n] EXCEPT
            !.lifecycle = copy.lifecycle, !.version = version + 1]]
  BY DEF PutRevision, UpToDate, Exists, NextVersion
<1>2. /\ revision[n] \in Revision /\ version + 1 \in Nat
      /\ copy.lifecycle \in Lifecycle
  BY <1>1 DEF TypeOK, Revision
<1> DEFINE q == revision[n]
           v == version + 1
           life == copy.lifecycle
           r == [q EXCEPT !.lifecycle = life, !.version = v]
<1>q. q \in Revision /\ v \in Nat /\ life \in Lifecycle
  BY <1>2
<1> HIDE DEF q, v, life
<1>3. r \in Revision /\ r.lifecycle = life /\ r.version = v
  BY <1>q DEF Revision
<1> QED BY <1>1, <1>3 DEF Write, q, v, life

LEMMA PutApprovalWrites ==
    ASSUME TypeOK, NEW n, NEW copy \in Revision, copy.lifecycle # "Absent",
           PutApproval(n, copy)
    PROVE  \E k \in Nat :
              /\ IsNextNumber(revision, k)
              /\ Write(n, [revision[n] EXCEPT !.lifecycle = copy.lifecycle,
                                              !.number = k,
                                              !.version = version + 1])
<1>1. PICK k \in 1..MaxVersion :
         /\ IsNextNumber(revision, k)
         /\ revision' = [revision EXCEPT ![n] =
               [@ EXCEPT !.lifecycle = copy.lifecycle, !.number = k,
                         !.version = version']]
  BY DEF PutApproval
<1>2. k \in Nat
  BY MaxVersionAssumption
<1>3. n \in Workspace /\ version' = version + 1
  BY DEF PutApproval, UpToDate, Exists, NextVersion
<1>4. /\ revision[n] \in Revision /\ version + 1 \in Nat
      /\ copy.lifecycle \in Lifecycle
  BY <1>3 DEF TypeOK, Revision
<1> DEFINE q == revision[n]
           v == version + 1
           life == copy.lifecycle
           r == [q EXCEPT !.lifecycle = life, !.number = k, !.version = v]
<1>q. q \in Revision /\ v \in Nat /\ life \in Lifecycle
  BY <1>4
<1> HIDE DEF q, v, life
<1>5. r \in Revision /\ r.lifecycle = life /\ r.version = v
  BY <1>2, <1>q DEF Revision
<1>6. revision' = [revision EXCEPT ![n] = r]
  BY <1>1, <1>3 DEF q, v, life
<1>7. Write(n, r)
  BY <1>3, <1>5, <1>6 DEF Write, v, life
<1> QED BY <1>1, <1>2, <1>7 DEF q, v, life

LEMMA PutResourcesWrites ==
    ASSUME TypeOK, NEW n, NEW edits \in SUBSET Edit, NEW sent, PutResources(n, edits, sent)
    PROVE  /\ revision[n].lifecycle = "Draft"
           /\ Write(n, [revision[n] EXCEPT !.edits = edits, !.version = version + 1])
<1>1. /\ n \in Workspace /\ version' = version + 1
      /\ revision[n].lifecycle = "Draft"
      /\ revision' = [revision EXCEPT ![n] =
            [revision[n] EXCEPT !.edits = edits, !.version = version + 1]]
  BY DEF PutResources, AcceptsResources, UpToDate, Exists, NextVersion
<1>2. revision[n] \in Revision /\ version + 1 \in Nat
  BY <1>1 DEF TypeOK
<1> DEFINE q == revision[n]
           v == version + 1
           r == [q EXCEPT !.edits = edits, !.version = v]
<1>q. q \in Revision /\ v \in Nat
  BY <1>2
<1> HIDE DEF q, v
<1>3. r \in Revision /\ r.lifecycle = q.lifecycle /\ r.version = v
  BY <1>q DEF Revision
<1> QED BY <1>1, <1>3 DEF Write, q, v

LEMMA WriteType ==
    ASSUME TypeOK, NEW n, NEW r, Write(n, r)
    PROVE  revision' \in [Workspace -> Revision] /\ version' \in Nat
BY DEF TypeOK, Write

LEMMA ShownType ==
    ASSUME TypeOK, NEW t \in Tab
    PROVE  /\ page[t].shown \in Workspace /\ page[t].url \in Workspace
           /\ page[t].target \in Workspace
           /\ Shown(t) \in Revision
           /\ \A n \in Workspace : page[t].list[n] \in Revision
           /\ page[t].edits \in SUBSET Edit /\ page[t].restoring \in SUBSET Edit
BY DEF TypeOK, Page, Shown

(* The fields that KeepsUpdates looks at.                                  *)
SameFields(q, p) ==
    /\ q.status = p.status /\ q.edits = p.edits /\ q.edited = p.edited
    /\ q.editing = p.editing /\ q.processed = p.processed

(* Opening or closing the restore dialog changes nothing else.             *)
LEMMA DialogStep ==
    ASSUME TypeOK, NEW t \in Tab, OpenRestoreDialog(t) \/ CloseRestoreDialog(t)
    PROVE  /\ UNCHANGED <<revision, version, loads>>
           /\ page[t].status # "closed"
           /\ \E q \in Page :
                 /\ page' = [page EXCEPT ![t] = q]
                 /\ q.list = page[t].list /\ SameFields(q, page[t])
<1>1. PICK b \in BOOLEAN : page' = [page EXCEPT ![t] = [@ EXCEPT !.openRestoreDialog = b]]
  BY DEF OpenRestoreDialog, CloseRestoreDialog
<1> DEFINE q == [page[t] EXCEPT !.openRestoreDialog = b]
<1>2. page[t] \in Page
  BY DEF TypeOK
<1>3. q \in Page /\ q.list = page[t].list /\ SameFields(q, page[t])
  BY <1>2 DEF Page, SameFields
<1>4. UNCHANGED <<revision, version, loads>> /\ page[t].status # "closed"
  BY DEF OpenRestoreDialog, CloseRestoreDialog, CanRestore, ButtonsEnabled, Reachable, Ready
<1> QED BY <1>1, <1>3, <1>4

LEMMA MovedType ==
    ASSUME NEW copy \in Revision, NEW life \in Lifecycle
    PROVE  /\ Moved(copy, life) \in Revision
           /\ Moved(copy, life).lifecycle = life
           /\ Moved(copy, life).version = copy.version
BY DEF Moved, Revision

LEMMA ReloadType ==
    ASSUME TypeOK, NEW t \in Tab, Reload(t)
    PROVE  page' \in [Tab -> Page] /\ loads' \in SUBSET Load
<1>1. NewLoad(t, page[t].url, "handler") \in Load
  BY ShownType, LoadHelpers
<1>2. [page[t] EXCEPT !.op = "reload"] \in Page
  BY PageFields
<1> QED BY <1>1, <1>2 DEF Reload, TypeOK

LEMMA AnswerType ==
    ASSUME TypeOK, NEW l \in loads
    PROVE  /\ [l EXCEPT !.answered = @ \union {"revisions"}, !.revs = revision] \in Load
           /\ [l EXCEPT !.answered = @ \union {"resources"}, !.res = revision] \in Load
           /\ [l EXCEPT !.caller = "superseded"] \in Load
<1>1. l \in Load /\ revision \in [Workspace -> Revision]
  BY DEF TypeOK
<1>2. l.answered \union {"revisions"} \in SUBSET {"revisions", "resources"}
  BY <1>1 DEF Load
<1>3. l.answered \union {"resources"} \in SUBSET {"revisions", "resources"}
  BY <1>1 DEF Load
<1>4. [l EXCEPT !.answered = l.answered \union {"revisions"}, !.revs = revision] \in Load
  BY <1>1, <1>2 DEF Load
<1>5. [l EXCEPT !.answered = l.answered \union {"resources"}, !.res = revision] \in Load
  BY <1>1, <1>3 DEF Load
<1>6. [l EXCEPT !.caller = "superseded"] \in Load
  BY <1>1 DEF Load
<1> QED BY <1>4, <1>5, <1>6

LEMMA InitType == Init => TypeOK
<1> SUFFICES ASSUME Init PROVE TypeOK
  OBVIOUS
<1>1. PICK k \in 0..(MaxRevision - 1) :
         /\ version = IF k = 0 THEN 1 ELSE k
         /\ revision = [n \in Workspace |->
               CASE n <= k -> [lifecycle |-> "Published", number |-> n,
                               version |-> n, edits |-> {}]
                 [] k = 0 /\ n = 1 -> [lifecycle |-> "Draft", number |-> 0,
                                       version |-> 1, edits |-> {}]
                 [] OTHER -> NoRevision]
  BY DEF Init, PorchInit
<1>2. version \in Nat
  BY <1>1, MaxRevisionAssumption
<1>3. ASSUME NEW n \in Workspace
      PROVE  revision[n] \in Revision
  <2>1. n \in Nat
    BY FirstWorkspace
  <2>2. /\ [lifecycle |-> "Published", number |-> n, version |-> n, edits |-> {}] \in Revision
        /\ [lifecycle |-> "Draft", number |-> 0, version |-> 1, edits |-> {}] \in Revision
    BY <2>1 DEF Revision, Lifecycle
  <2> QED BY <1>1, <2>2, NoRevisionType
<1>4. revision \in [Workspace -> Revision]
  BY <1>1, <1>3
<1> QED BY <1>2, <1>4, ClosedType DEF Init, TypeOK

LEMMA UserStepType ==
    ASSUME TypeOK, NEW t \in Tab, UserStep(t)
    PROVE  TypeOK'
<1>1. ASSUME NEW n \in Workspace, Open(t, n)
      PROVE  TypeOK'
  <2>1. [Closed EXCEPT !.status = "loading", !.url = n] \in Page
    BY ClosedType DEF Page
  <2>2. NewLoad(t, n, "visit") \in Load
    BY <1>1, LoadHelpers
  <2> QED BY <1>1, <2>1, <2>2 DEF Open, TypeOK, porchVars
<1>2. ASSUME NEW n \in Workspace, NEW mode \in Mode, Browse(t, n, mode)
      PROVE  TypeOK'
  <2>1. Visiting(page[t], n, mode) \in Page
    BY PageHelpers DEF TypeOK
  <2>2. LoadsAfterVisit(t, n) \in SUBSET Load
    BY LoadHelpers
  <2> QED BY <1>2, <2>1, <2>2 DEF Browse, TypeOK, porchVars
<1>3. ASSUME NEW life \in {"Proposed", "Draft"},
             PutRevision(page[t].shown, Moved(Shown(t), life)), Reload(t)
      PROVE  TypeOK'
  <2>1. Moved(Shown(t), life) \in Revision /\ Moved(Shown(t), life).lifecycle # "Absent"
    BY ShownType, MovedType DEF Lifecycle
  <2>2. \E r : Write(page[t].shown, r)
    BY <1>3, <2>1, PutRevisionWrites
  <2> QED BY <1>3, <2>2, WriteType, ReloadType DEF TypeOK
<1>4. CASE Propose(t)
  BY <1>3, <1>4 DEF Propose
<1>5. CASE Reject(t)
  BY <1>3, <1>5 DEF Reject
<1>6. CASE Approve(t)
  <2>1. Moved(Shown(t), "Published") \in Revision
        /\ Moved(Shown(t), "Published").lifecycle # "Absent"
    BY ShownType, MovedType DEF Lifecycle
  <2>2. \E r : Write(page[t].shown, r)
    BY <1>6, <2>1, PutApprovalWrites DEF Approve
  <2> QED BY <1>6, <2>2, WriteType, ReloadType DEF TypeOK, Approve
<1>7. CASE CreateNewRevision(t)
  <2> DEFINE n == NextWorkspace(Shown(t))
  <2>1. Shown(t).edits \in SUBSET Edit
    BY ShownType DEF Revision
  <2>2. PostRevision(n, Shown(t).edits)
    BY <1>7 DEF CreateNewRevision, PostNextRevision
  <2>3. \E r : Write(n, r)
    BY <2>1, <2>2, PostRevisionWrites
  <2>4. n \in Workspace
    BY <2>2 DEF PostRevision
  <2>5. [page[t] EXCEPT !.op = "navigate", !.target = n] \in Page
    BY <2>4, PageFields
  <2>6. page' \in [Tab -> Page] /\ loads' = loads
    BY <1>7, <2>5 DEF CreateNewRevision, TypeOK
  <2> HIDE DEF n
  <2> QED BY <2>3, <2>6, WriteType DEF TypeOK
<1>8. CASE CreateRestoreRevision(t)
  <2>1. PICK m \in Workspace :
           /\ PostNextRevision(page[t].list[m])
           /\ page' = [page EXCEPT ![t] =
                 [@ EXCEPT !.op = "restore",
                           !.target = NextWorkspace(page[t].list[m]),
                           !.restoring = page[t].edits]]
    BY <1>8 DEF CreateRestoreRevision
  <2> DEFINE n == NextWorkspace(page[t].list[m])
  <2>2. page[t].list[m].edits \in SUBSET Edit
    BY ShownType DEF Revision
  <2>3. PostRevision(n, page[t].list[m].edits)
    BY <2>1 DEF PostNextRevision
  <2>4. \E r : Write(n, r)
    BY <2>2, <2>3, PostRevisionWrites
  <2>5. n \in Workspace
    BY <2>3 DEF PostRevision
  <2>6. [page[t] EXCEPT !.op = "restore", !.target = n, !.restoring = page[t].edits] \in Page
    BY <2>5, PageFields
  <2>7. page' \in [Tab -> Page] /\ loads' = loads
    BY <1>8, <2>1, <2>6 DEF CreateRestoreRevision, TypeOK
  <2> HIDE DEF n
  <2> QED BY <2>4, <2>7, WriteType DEF TypeOK
<1>9. CASE SavePackageRevision(t)
  <2>1. \E r : Write(page[t].url, r)
    BY <1>9, ShownType, PutResourcesWrites DEF SavePackageRevision
  <2>2. [page[t] EXCEPT !.op = "navigate", !.target = page[t].url] \in Page
    BY PageFields, ShownType
  <2> QED BY <1>9, <2>1, <2>2, WriteType DEF SavePackageRevision, TypeOK
<1>10. CASE DeletePackageRevision(t)
  <2>1. revision' \in [Workspace -> Revision] /\ version' = version
    BY <1>10, NoRevisionType DEF DeletePackageRevision, DeleteRevision, TypeOK
  <2>2. Left(page[t]) \in Page
    BY PageHelpers DEF TypeOK
  <2> QED BY <1>10, <2>1, <2>2 DEF DeletePackageRevision, TypeOK
<1>11. CASE EditResources(t)
  <2>1. page[t] \in Page /\ page[t].edits \union {t} \in SUBSET Edit
    BY ShownType DEF TypeOK
  <2>2. [page[t] EXCEPT !.edits = page[t].edits \union {t}] \in Page
    BY <2>1 DEF Page
  <2> QED BY <1>11, <2>2 DEF EditResources, TypeOK
<1>12. CASE StartEdit(t)
  <2> DEFINE b == IF page[t].editing = "no" THEN "yes" ELSE "overtaken"
             e == page[t].edits \union {t}
  <2>1. page[t] \in Page /\ e \in SUBSET Edit /\ b \in {"no", "yes", "overtaken", "mixed"}
    BY ShownType DEF TypeOK
  <2> HIDE DEF b, e
  <2>2. [page[t] EXCEPT !.editing = b, !.processed = e] \in Page
    BY <2>1 DEF Page
  <2> QED BY <1>12, <2>2 DEF StartEdit, TypeOK, b, e
<1>13. CASE OpenRestoreDialog(t) \/ CloseRestoreDialog(t)
  <2>1. UNCHANGED <<revision, version, loads>> /\ page' \in [Tab -> Page]
    BY <1>13, DialogStep DEF TypeOK
  <2> QED BY <2>1 DEF TypeOK
<1> QED BY <1>1, <1>2, <1>4, <1>5, <1>6, <1>7, <1>8, <1>9, <1>10, <1>11, <1>12, <1>13
        DEF UserStep

LEMMA RequestStepType ==
    ASSUME TypeOK, NEW t \in Tab,
           Navigate(t) \/ ReplaceRevisionsResources(t) \/ FinishEdit(t) \/ FailRequest(t)
    PROVE  TypeOK'
<1>1. page[t] \in Page /\ RequestOver(page[t]) \in Page /\ Navigated(page[t]) \in Page
  BY PageHelpers DEF TypeOK
<1>2. CASE Navigate(t)
  <2>1. LoadsAfterVisit(t, page[t].target) \in SUBSET Load
    BY LoadHelpers, ShownType
  <2> QED BY <1>1, <1>2, <2>1 DEF Navigate, TypeOK, porchVars
<1>3. CASE ReplaceRevisionsResources(t)
  <2>1. CASE PutResources(page[t].target, page[t].restoring, RestoreVersion(t))
             /\ page' = [page EXCEPT ![t] = [@ EXCEPT !.op = "navigate", !.restoring = {}]]
    <3>1. \E r : Write(page[t].target, r)
      BY <2>1, ShownType, PutResourcesWrites
    <3> QED BY <1>3, <2>1, <3>1, WriteType, PageFields
            DEF ReplaceRevisionsResources, TypeOK
  <2>2. CASE page' = [page EXCEPT ![t] = RequestOver(@)] /\ UNCHANGED porchVars
    BY <1>1, <1>3, <2>2 DEF ReplaceRevisionsResources, TypeOK, porchVars
  <2> QED BY <1>3, <2>1, <2>2 DEF ReplaceRevisionsResources
<1>4. CASE FinishEdit(t)
  <2> DEFINE b == IF page[t].editing = "yes" THEN "no" ELSE "mixed"
             e == page[t].processed
  <2>1. e \in SUBSET Edit /\ b \in {"no", "yes", "overtaken", "mixed"}
    BY <1>1 DEF Page
  <2> HIDE DEF b, e
  <2>2. [page[t] EXCEPT !.editing = b, !.processed = {}, !.edits = e] \in Page
    BY <1>1, <2>1 DEF Page
  <2> QED BY <1>4, <2>2 DEF FinishEdit, TypeOK, b, e
<1>5. CASE FailRequest(t)
  BY <1>1, <1>5 DEF FailRequest, TypeOK, porchVars
<1> QED BY <1>2, <1>3, <1>4, <1>5

LEMMA LoadStepType ==
    ASSUME TypeOK, NEW l \in loads, LoadStep(l) \/ FailVisit(l)
    PROVE  TypeOK'
<1>1. l \in Load /\ l.tab \in Tab /\ page[l.tab] \in Page
  BY DEF TypeOK, Load
<1>2. CASE AnswerRevisions(l)
  BY <1>2, AnswerType DEF AnswerRevisions, TypeOK
<1>3. CASE AnswerResources(l)
  BY <1>3, AnswerType DEF AnswerResources, TypeOK
<1>4. CASE EndLoad(l)
  BY <1>1, <1>4, LoadedType DEF EndLoad, TypeOK, porchVars
<1>5. CASE FailVisit(l)
  <2>1. [page[l.tab] EXCEPT !.status = "error"] \in Page
    BY <1>1, PageFields
  <2> QED BY <1>1, <1>5, <2>1, AnswerType DEF FailVisit, TypeOK, porchVars
<1> QED BY <1>2, <1>3, <1>4, <1>5 DEF LoadStep

LEMMA StepType == TypeOK /\ [Next]_vars => TypeOK'
<1> SUFFICES ASSUME TypeOK, [Next]_vars PROVE TypeOK'
  OBVIOUS
<1>1. ASSUME NEW t \in Tab, UserStep(t) PROVE TypeOK'
  BY <1>1, UserStepType
<1>2. ASSUME NEW t \in Tab,
             Navigate(t) \/ ReplaceRevisionsResources(t) \/ FinishEdit(t) \/ FailRequest(t)
      PROVE  TypeOK'
  BY <1>2, RequestStepType
<1>3. ASSUME NEW l \in loads, LoadStep(l) \/ FailVisit(l) PROVE TypeOK'
  BY <1>3, LoadStepType
<1>4. CASE UNCHANGED vars
  BY <1>4 DEF vars, TypeOK
<1> QED BY <1>1, <1>2, <1>3, <1>4 DEF Next, RequestStep

(* The page's state and the server's stay what their types say, whatever   *)
(* order users, loads and requests take their steps in.                    *)
THEOREM TypeCorrect == Spec => []TypeOK
BY InitType, StepType, PTL DEF Spec

-----------------------------------------------------------------------------
(* Steps, seen from the copies and from the server                         *)

(* A page is handed no other list than one that a load read of the server. *)
LEMMA CopiesMade ==
    ASSUME TypeOK, [Next]_vars
    PROVE  Copies' \subseteq Copies \union {NoRevisions, revision'}
<1> DEFINE Old == Copies \union {NoRevisions, revision'}
<1>1. SUFFICES /\ \A t \in Tab : page'[t].list \in Old
               /\ \A l \in loads' : l.revs \in Old /\ l.res \in Old
  BY DEF Copies
<1>2. /\ \A t \in Tab : page[t].list \in Old /\ page[t] \in Page
      /\ \A l \in loads : l.revs \in Old /\ l.res \in Old
      /\ \A l \in loads : l \in Load /\ l.tab \in Tab
  BY DEF Copies, TypeOK, Load
<1> HIDE DEF Old
<1>3. NoRevisions \in Old /\ revision' \in Old /\ Closed.list = NoRevisions
  BY DEF Old, Closed
<1>4. \A t \in Tab, n \in Workspace, caller \in {"visit", "handler"} :
         NewLoad(t, n, caller).revs \in Old /\ NewLoad(t, n, caller).res \in Old
  BY <1>3 DEF NewLoad
<1>5. ASSUME NEW t \in Tab, NEW p, page' = [page EXCEPT ![t] = p], p.list \in Old
      PROVE  \A u \in Tab : page'[u].list \in Old
  BY <1>2, <1>5 DEF TypeOK
<1>6. ASSUME NEW p \in Page
      PROVE  /\ RequestOver(p).list = p.list
             /\ \A n, mode : Visiting(p, n, mode).list = p.list
             /\ Left(p).list = NoRevisions
             /\ Navigated(p).list \in {NoRevisions, p.list}
             /\ \A x : [p EXCEPT !.op = x].list = p.list
             /\ \A x, y : [p EXCEPT !.op = x, !.target = y].list = p.list
             /\ \A x, y, z : [p EXCEPT !.op = x, !.target = y, !.restoring = z].list = p.list
             /\ \A x, y : [p EXCEPT !.op = x, !.restoring = y].list = p.list
             /\ \A x, y : [p EXCEPT !.editing = x, !.processed = y].list = p.list
             /\ \A x, y, z : [p EXCEPT !.editing = x, !.processed = y, !.edits = z].list = p.list
             /\ \A x : [p EXCEPT !.edits = x].list = p.list
             /\ \A x : [p EXCEPT !.status = x].list = p.list
  <2>1. RequestOver(p).list = p.list
    BY DEF RequestOver, Page
  <2>2. \A q \in Page : \A n, mode : Visiting(q, n, mode).list = q.list
    BY DEF Visiting, Page
  <2>3. Left(p).list = NoRevisions
    BY DEF Left, Closed
  <2>4. Navigated(p).list \in {NoRevisions, p.list}
    BY <2>1, <2>2, <1>3, ClosedType, PageHelpers DEF Navigated
  <2>5. QED BY <2>1, <2>2, <2>3, <2>4 DEF Page
<1>7. ASSUME NEW t \in Tab, NEW n \in Workspace
      PROVE  \A l \in LoadsAfterVisit(t, n) : l.revs \in Old /\ l.res \in Old
  <2>1. \A l \in Load : /\ [l EXCEPT !.caller = "superseded"].revs = l.revs
                        /\ [l EXCEPT !.caller = "superseded"].res = l.res
    BY DEF Load
  <2> QED BY <1>2, <1>4, <2>1 DEF LoadsAfterVisit
<1>8. ASSUME NEW t \in Tab, UserStep(t)
      PROVE  /\ \A u \in Tab : page'[u].list \in Old
             /\ \A l \in loads' : l.revs \in Old /\ l.res \in Old
  <2> DEFINE Goal == /\ \A u \in Tab : page'[u].list \in Old
                     /\ \A l \in loads' : l.revs \in Old /\ l.res \in Old
  <2> USE <1>2
  <2>1. ASSUME NEW n \in Workspace, Open(t, n)
        PROVE  Goal
    <3>1. [Closed EXCEPT !.status = "loading", !.url = n].list \in Old
      BY <1>3, ClosedType DEF Page
    <3> QED BY <1>4, <1>5, <2>1, <3>1 DEF Open
  <2>2. ASSUME NEW n \in Workspace, NEW mode \in Mode, Browse(t, n, mode)
        PROVE  Goal
    BY <1>5, <1>6, <1>7, <2>2 DEF Browse
  <2>3. CASE Reload(t)
    <3>1. page[t].url \in Workspace
      BY ShownType
    <3>2. \A u \in Tab : page'[u].list \in Old
      BY <1>5, <1>6, <2>3 DEF Reload
    <3> QED BY <1>4, <2>3, <3>1, <3>2 DEF Reload
  <2>4. CASE CreateNewRevision(t)
    BY <1>5, <1>6, <2>4 DEF CreateNewRevision
  <2>5. CASE CreateRestoreRevision(t)
    BY <1>5, <1>6, <2>5 DEF CreateRestoreRevision
  <2>6. CASE SavePackageRevision(t)
    <3>1. \A u \in Tab : page'[u].list \in Old
      <4>1. CASE page' = page
        BY <4>1
      <4>2. CASE page' = [page EXCEPT ![t] = [page[t] EXCEPT !.op = "navigate",
                                                            !.target = page[t].url]]
        BY <1>5, <1>6, <4>2
      <4> QED BY <2>6, <4>1, <4>2 DEF SavePackageRevision
    <3> QED BY <2>6, <3>1 DEF SavePackageRevision
  <2>7. CASE DeletePackageRevision(t)
    BY <1>3, <1>5, <1>6, <2>7 DEF DeletePackageRevision
  <2>8. CASE EditResources(t)
    BY <1>5, <1>6, <2>8 DEF EditResources
  <2>9. CASE StartEdit(t)
    BY <1>5, <1>6, <2>9 DEF StartEdit
  <2>10. CASE OpenRestoreDialog(t) \/ CloseRestoreDialog(t)
    BY <1>5, <2>10, DialogStep
  <2> QED BY <1>8, <2>1, <2>2, <2>3, <2>4, <2>5, <2>6, <2>7, <2>8, <2>9, <2>10
          DEF UserStep, Propose, Reject, Approve
<1>9. ASSUME NEW t \in Tab,
             Navigate(t) \/ ReplaceRevisionsResources(t) \/ FinishEdit(t) \/ FailRequest(t)
      PROVE  /\ \A u \in Tab : page'[u].list \in Old
             /\ \A l \in loads' : l.revs \in Old /\ l.res \in Old
  <2> USE <1>2
  <2>1. CASE Navigate(t)
    BY <1>3, <1>5, <1>6, <1>7, <2>1, ShownType DEF Navigate
  <2>2. CASE ReplaceRevisionsResources(t)
    <3>1. \A u \in Tab : page'[u].list \in Old
      <4>1. CASE page' = [page EXCEPT ![t] = RequestOver(page[t])]
        BY <1>5, <1>6, <4>1
      <4>2. CASE page' = [page EXCEPT ![t] = [page[t] EXCEPT !.op = "navigate",
                                                            !.restoring = {}]]
        BY <1>5, <1>6, <4>2
      <4> QED BY <2>2, <4>1, <4>2 DEF ReplaceRevisionsResources
    <3> QED BY <2>2, <3>1 DEF ReplaceRevisionsResources
  <2>3. CASE FinishEdit(t)
    BY <1>5, <1>6, <2>3 DEF FinishEdit
  <2>4. CASE FailRequest(t)
    BY <1>5, <1>6, <2>4 DEF FailRequest
  <2> QED BY <1>9, <2>1, <2>2, <2>3, <2>4
<1>10. ASSUME NEW l \in loads, LoadStep(l) \/ FailVisit(l)
       PROVE  /\ \A u \in Tab : page'[u].list \in Old
              /\ \A k \in loads' : k.revs \in Old /\ k.res \in Old
  <2> USE <1>2
  <2>1. CASE AnswerRevisions(l)
    <3> DEFINE k == [l EXCEPT !.answered = @ \union {"revisions"}, !.revs = revision]
    <3>1. k.revs = revision /\ k.res = l.res
      BY DEF Load
    <3>2. revision' = revision /\ page' = page /\ loads' = (loads \ {l}) \union {k}
      BY <2>1 DEF AnswerRevisions
    <3> QED BY <1>3, <3>1, <3>2
  <2>2. CASE AnswerResources(l)
    <3> DEFINE k == [l EXCEPT !.answered = @ \union {"resources"}, !.res = revision]
    <3>1. k.revs = l.revs /\ k.res = revision
      BY DEF Load
    <3>2. revision' = revision /\ page' = page /\ loads' = (loads \ {l}) \union {k}
      BY <2>2 DEF AnswerResources
    <3> QED BY <1>3, <3>1, <3>2
  <2>3. CASE EndLoad(l)
    <3> DEFINE q == [page[l.tab] EXCEPT !.status = StatusAfter(l)]
               p == AwaitOver(l, q)
    <3>1. q \in Page /\ q.list = page[l.tab].list
      BY DEF StatusAfter, Page
    <3>2. p \in Page /\ p.list = page[l.tab].list
      BY <1>6, <3>1, PageHelpers DEF AwaitOver
    <3> HIDE DEF p
    <3>3. \A a, b, c, d, e : [p EXCEPT !.list = a, !.shown = b, !.edits = c,
                                      !.edited = d, !.editing = e].list = a
      BY <3>2 DEF Page
    <3>4. Loaded(l).list \in {l.revs, page[l.tab].list}
      BY <3>2, <3>3 DEF Loaded, p
    <3> QED BY <1>5, <2>3, <3>4 DEF EndLoad
  <2>4. CASE FailVisit(l)
    <3>1. /\ [l EXCEPT !.caller = "superseded"].revs = l.revs
          /\ [l EXCEPT !.caller = "superseded"].res = l.res
      BY DEF Load
    <3>2. \A u \in Tab : page'[u].list \in Old
      BY <1>5, <1>6, <2>4 DEF FailVisit
    <3>3. \A k \in loads' : k \in loads \/ k = [l EXCEPT !.caller = "superseded"]
      BY <2>4 DEF FailVisit
    <3> QED BY <3>1, <3>2, <3>3
  <2> QED BY <1>10, <2>1, <2>2, <2>3, <2>4 DEF LoadStep
<1>11. CASE UNCHANGED vars
  BY <1>2, <1>11 DEF vars
<1> QED BY <1>8, <1>9, <1>10, <1>11 DEF Next, RequestStep

(* Every step leaves the server alone, writes one revision or deletes one. *)
LEMMA ServerSteps ==
    ASSUME TypeOK, [Next]_vars
    PROVE  \/ UNCHANGED porchVars
           \/ \E n, r : Write(n, r)
           \/ \E n : DeleteRevision(n)
<1> DEFINE Goal == \/ UNCHANGED porchVars
                   \/ \E n, r : Write(n, r)
                   \/ \E n : DeleteRevision(n)
<1>1. ASSUME NEW t \in Tab, UserStep(t)
      PROVE  Goal
  <2>1. \A life \in {"Proposed", "Draft", "Published"} :
           Moved(Shown(t), life) \in Revision /\ Moved(Shown(t), life).lifecycle # "Absent"
    BY ShownType, MovedType DEF Lifecycle
  <2>2. CASE Propose(t) \/ Reject(t)
    BY <2>1, <2>2, PutRevisionWrites DEF Propose, Reject
  <2>3. CASE Approve(t)
    BY <2>1, <2>3, PutApprovalWrites DEF Approve
  <2>4. CASE CreateNewRevision(t)
    <3>1. Shown(t).edits \in SUBSET Edit
      BY ShownType DEF Revision
    <3> QED BY <2>4, <3>1, PostRevisionWrites DEF CreateNewRevision, PostNextRevision
  <2>5. CASE CreateRestoreRevision(t)
    <3>1. \A m \in Workspace : page[t].list[m].edits \in SUBSET Edit
      BY ShownType DEF Revision
    <3> QED BY <2>5, <3>1, PostRevisionWrites DEF CreateRestoreRevision, PostNextRevision
  <2>6. CASE SavePackageRevision(t)
    BY <2>6, ShownType, PutResourcesWrites DEF SavePackageRevision
  <2> QED BY <1>1, <2>2, <2>3, <2>4, <2>5, <2>6
          DEF UserStep, Open, Browse, OpenRestoreDialog, CloseRestoreDialog,
              DeletePackageRevision, EditResources, StartEdit, porchVars
<1>2. ASSUME NEW t \in Tab,
             Navigate(t) \/ ReplaceRevisionsResources(t) \/ FinishEdit(t) \/ FailRequest(t)
      PROVE  Goal
  BY <1>2, ShownType, PutResourcesWrites
     DEF Navigate, ReplaceRevisionsResources, FinishEdit, FailRequest, porchVars
<1>3. ASSUME NEW l \in loads, LoadStep(l) \/ FailVisit(l)
      PROVE  Goal
  BY <1>3 DEF LoadStep, FailVisit, AnswerRevisions, AnswerResources, EndLoad, porchVars
<1>4. CASE UNCHANGED vars
  BY <1>4 DEF vars, porchVars
<1> QED BY <1>1, <1>2, <1>3, <1>4 DEF Next, RequestStep

-----------------------------------------------------------------------------
(* Versions                                                                *)

LEMMA InitVersions == Init => VersionsInv
<1> SUFFICES ASSUME Init PROVE VersionsInv
  OBVIOUS
<1>1. Copies \subseteq {NoRevisions}
  BY DEF Init, Copies, Closed
<1>2. VersionsName(NoRevisions)
  BY DEF VersionsName, NoRevisions, NoRevision, Exists
<1>3. PICK k \in 0..(MaxRevision - 1) :
         /\ version = IF k = 0 THEN 1 ELSE k
         /\ revision = [n \in Workspace |->
               CASE n <= k -> [lifecycle |-> "Published", number |-> n,
                               version |-> n, edits |-> {}]
                 [] k = 0 /\ n = 1 -> [lifecycle |-> "Draft", number |-> 0,
                                       version |-> 1, edits |-> {}]
                 [] OTHER -> NoRevision]
  BY DEF Init, PorchInit
<1>4. \A n \in Workspace : n \in Nat /\ n >= 1
  BY MaxRevisionAssumption DEF Workspace
<1>5. ASSUME NEW n \in Workspace, Exists(revision, n)
      PROVE  revision[n].version = n /\ n \in 1..version
  <2>1. CASE n <= k
    BY <1>3, <1>4, <2>1
  <2>2. CASE k = 0 /\ n = 1
    BY <1>3, <1>4, <2>2
  <2>3. CASE ~(n <= k) /\ ~(k = 0 /\ n = 1)
    BY <1>3, <1>4, <1>5, <2>3 DEF NoRevision, Exists
  <2> QED BY <2>1, <2>2, <2>3
<1>6. VersionsName(revision)
  BY <1>5 DEF VersionsName
<1> QED BY <1>1, <1>2, <1>6 DEF VersionsInv

(* A write takes a version that no copy has. *)
LEMMA WriteVersions ==
    ASSUME TypeOK, NEW n, NEW r, Write(n, r), NEW revs, VersionsName(revs)
    PROVE  VersionsName(revs)'
BY DEF TypeOK, Write, VersionsName, Exists

LEMMA WriteOwnVersions ==
    ASSUME TypeOK, NEW n, NEW r, Write(n, r), VersionsName(revision)
    PROVE  VersionsName(revision)'
BY DEF TypeOK, Write, VersionsName, Exists

LEMMA DeleteVersions ==
    ASSUME TypeOK, NEW n, DeleteRevision(n), NEW revs, VersionsName(revs)
    PROVE  VersionsName(revs)'
BY DEF TypeOK, DeleteRevision, VersionsName, Exists, NoRevision

LEMMA DeleteOwnVersions ==
    ASSUME TypeOK, NEW n, DeleteRevision(n), VersionsName(revision)
    PROVE  VersionsName(revision)'
BY DEF TypeOK, DeleteRevision, VersionsName, Exists, NoRevision

LEMMA StepVersions == TypeOK /\ VersionsInv /\ [Next]_vars => VersionsInv'
<1> SUFFICES ASSUME TypeOK, VersionsInv, [Next]_vars PROVE VersionsInv'
  OBVIOUS
<1>1. VersionsName(revision)'
      /\ \A revs \in Copies : VersionsName(revs)'
  <2>1. VersionsName(revision) /\ \A revs \in Copies : VersionsName(revs)
    BY DEF VersionsInv
  <2>2. CASE UNCHANGED porchVars
    BY <2>1, <2>2 DEF VersionsName, Exists, porchVars
  <2>3. ASSUME NEW n, NEW r, Write(n, r)
        PROVE  VersionsName(revision)' /\ \A revs \in Copies : VersionsName(revs)'
    BY <2>1, <2>3, WriteVersions, WriteOwnVersions
  <2>4. ASSUME NEW n, DeleteRevision(n)
        PROVE  VersionsName(revision)' /\ \A revs \in Copies : VersionsName(revs)'
    BY <2>1, <2>4, DeleteVersions, DeleteOwnVersions
  <2> QED BY <2>2, <2>3, <2>4, ServerSteps
<1>2. VersionsName(NoRevisions)'
  BY DEF VersionsName, NoRevisions, NoRevision, Exists
<1>3. ASSUME NEW revs \in Copies'
      PROVE  VersionsName(revs)'
  BY <1>1, <1>2, CopiesMade
<1> QED BY <1>1, <1>3 DEF VersionsInv

-----------------------------------------------------------------------------
(* Updates                                                                 *)

(* The server never returns to a version that a page may hold. *)
LEMMA ServerKeeps ==
    ASSUME TypeOK, VersionsInv, [Next]_vars, NEW p \in Page, KeepsUpdates(p)
    PROVE  KeepsUpdates(p)'
<1>1. p.edited \in Nat
  BY DEF Page
<1>2. CASE UNCHANGED porchVars
  BY <1>2 DEF KeepsUpdates, Exists, porchVars
<1>3. ASSUME NEW n, NEW r, Write(n, r)
      PROVE  KeepsUpdates(p)'
  BY <1>1, <1>3 DEF TypeOK, KeepsUpdates, Write, Exists
<1>4. ASSUME NEW n, DeleteRevision(n)
      PROVE  KeepsUpdates(p)'
  BY <1>1, <1>4 DEF TypeOK, KeepsUpdates, DeleteRevision, Exists, NoRevision
<1> QED BY <1>2, <1>3, <1>4, ServerSteps

LEMMA OnePageChanges ==
    ASSUME TypeOK, VersionsInv, UpdatesInv, [Next]_vars, NEW t \in Tab,
           NEW p \in Page, KeepsUpdates(p), page' = [page EXCEPT ![t] = p],
           \A l \in loads' : l.tab = t \/ \E k \in loads : k.tab = l.tab,
           p.status # "closed" \/ \A l \in loads' : l.tab # t
    PROVE  UpdatesInv'
<1>1. \A u \in Tab : page'[u] \in Page /\ KeepsUpdates(page'[u])
  BY DEF TypeOK, UpdatesInv
<1>2. \A u \in Tab : KeepsUpdates(page[u])'
  <2>1. ASSUME NEW u \in Tab, NEW q \in Page, q = page'[u], KeepsUpdates(q)
        PROVE  KeepsUpdates(page[u])'
    BY <2>1, ServerKeeps DEF KeepsUpdates
  <2> QED BY <1>1, <2>1
<1>3. \A l \in loads' : l \in Load /\ l.tab \in Tab
  BY StepType DEF TypeOK, Load
<1>4. \A l \in loads' : page'[l.tab].status # "closed"
  BY <1>3 DEF TypeOK, UpdatesInv, Load
<1> QED BY <1>2, <1>4 DEF UpdatesInv

(* Steps that leave a page's resources alone. *)
LEMMA SameResources ==
    ASSUME NEW p \in Page, NEW q \in Page, KeepsUpdates(p), p.status # "closed",
           q.edits = p.edits, q.edited = p.edited, q.editing = p.editing,
           q.processed = p.processed, q.status \in {p.status, "loading", "error"}
    PROVE  KeepsUpdates(q)
BY DEF KeepsUpdates

LEMMA FreshKeeps ==
    ASSUME TypeOK, VersionsInv, NEW p \in Page, p.status # "ready", p.edited = 0
    PROVE  KeepsUpdates(p)
BY DEF KeepsUpdates, VersionsInv, VersionsName, TypeOK

(* They are kept by the updates of the steps.                              *)
LEMMA FieldsOfUpdates ==
    ASSUME NEW p \in Page
    PROVE  /\ SameFields(RequestOver(p), p)
           /\ \A x : SameFields([p EXCEPT !.op = x], p)
           /\ \A x, y : SameFields([p EXCEPT !.op = x, !.target = y], p)
           /\ \A x, y, z : SameFields([p EXCEPT !.op = x, !.target = y, !.restoring = z], p)
           /\ \A x, y : SameFields([p EXCEPT !.op = x, !.restoring = y], p)
<1>1. SameFields(RequestOver(p), p)
  BY DEF RequestOver, Page, SameFields
<1> QED BY <1>1 DEF Page, SameFields

LEMMA FieldsOfVisit ==
    ASSUME NEW p \in Page, NEW n, NEW mode
    PROVE  LET q == Visiting(p, n, mode)
           IN  /\ q.status = "loading" /\ q.edits = p.edits /\ q.edited = p.edited
               /\ q.editing = p.editing /\ q.processed = p.processed
BY DEF Visiting, Page

LEMMA LeftKeeps ==
    ASSUME TypeOK, NEW p \in Page, KeepsUpdates(p)
    PROVE  KeepsUpdates(Left(p)) /\ Left(p) \in Page /\ Left(p).status = "closed"
<1>1. Left(p) \in Page
  BY PageHelpers
<1>2. Left(p).status = "closed" /\ Left(p).edited \in {0, p.edited}
  BY ClosedType DEF Left, Closed, Page
<1>3. p.edited \in 0..version /\ 0 \in 0..version
  BY DEF KeepsUpdates, TypeOK
<1> QED BY <1>1, <1>2, <1>3 DEF KeepsUpdates

(* The end of a load: the page has what the server had under the version   *)
(* of the resources it read.                                               *)
LEMMA LoadedKeeps ==
    ASSUME TypeOK, VersionsInv, UpdatesInv, NEW l \in loads
    PROVE  KeepsUpdates(Loaded(l)) /\ Loaded(l).status # "closed"
<1>1. /\ l \in Load /\ l.tab \in Tab /\ page[l.tab] \in Page
      /\ KeepsUpdates(page[l.tab]) /\ page[l.tab].status # "closed"
  BY DEF TypeOK, Load, UpdatesInv
<1> DEFINE q == [page[l.tab] EXCEPT !.status = StatusAfter(l)]
           p == AwaitOver(l, q)
<1>2. q \in Page /\ q.status = StatusAfter(l)
      /\ q.edits = page[l.tab].edits /\ q.edited = page[l.tab].edited
      /\ q.editing = page[l.tab].editing /\ q.processed = page[l.tab].processed
  BY <1>1 DEF StatusAfter, Page
<1>3. p \in Page
  BY <1>2, PageHelpers DEF AwaitOver
<1>4. /\ p.status = StatusAfter(l)
      /\ p.edits = page[l.tab].edits /\ p.edited = page[l.tab].edited
      /\ p.editing = page[l.tab].editing /\ p.processed = page[l.tab].processed
  BY <1>2 DEF AwaitOver, RequestOver, Page
<1>5. StatusAfter(l) # "closed"
  BY <1>1 DEF StatusAfter
<1> HIDE DEF p
<1>6. CASE ~LoadSucceeds(l)
  <2>1. Loaded(l) = p
    BY <1>6 DEF Loaded, p
  <2>2. p.status \in {page[l.tab].status, "loading", "error"}
    BY <1>4, <1>6 DEF StatusAfter
  <2> QED BY <1>1, <1>3, <1>4, <1>5, <2>1, <2>2, SameResources
<1>7. CASE LoadSucceeds(l)
  <2> DEFINE b == IF Processing(p) THEN "overtaken" ELSE "no"
             r == l.res[l.url]
  <2>1. /\ l.url \in Workspace /\ l.revs \in [Workspace -> Revision] /\ r \in Revision
        /\ Exists(l.res, l.url) /\ VersionsName(l.res)
    BY <1>1, <1>7 DEF LoadSucceeds, Load, VersionsInv, Copies, Exists
  <2>2. /\ r.version \in 1..version
        /\ \A m \in Workspace : Exists(revision, m) /\ revision[m].version = r.version
              => r = revision[m]
    BY <2>1 DEF VersionsName
  <2>3. b \in {"no", "overtaken"}
    OBVIOUS
  <2>4. r.edits \in SUBSET Edit /\ r.version \in Nat
    BY <2>1 DEF Revision
  <2>5. Loaded(l) = [p EXCEPT !.list = l.revs, !.shown = l.url, !.edits = r.edits,
                              !.edited = r.version, !.editing = b]
    BY <1>7 DEF Loaded, LoadedVersion, p
  <2> HIDE DEF b, r
  <2>6. /\ Loaded(l).edits = r.edits /\ Loaded(l).edited = r.version
        /\ Loaded(l).editing = b /\ Loaded(l).status = p.status
    BY <1>3, <2>5 DEF Page
  <2>7. Loaded(l).edited \in 0..version /\ Loaded(l).edited # 0
    BY <2>2, <2>6
  <2> QED BY <1>4, <1>5, <2>2, <2>3, <2>6, <2>7 DEF KeepsUpdates
<1> QED BY <1>6, <1>7

LEMMA StepUpdates == TypeOK /\ VersionsInv /\ UpdatesInv /\ [Next]_vars => UpdatesInv'
<1> SUFFICES ASSUME TypeOK, VersionsInv, UpdatesInv, [Next]_vars PROVE UpdatesInv'
  OBVIOUS
<1>1. /\ \A t \in Tab : page[t] \in Page /\ KeepsUpdates(page[t])
      /\ \A l \in loads : l \in Load /\ l.tab \in Tab /\ page[l.tab].status # "closed"
  BY DEF TypeOK, UpdatesInv, Load
<1>2. \A t \in Tab, n \in Workspace, caller \in {"visit", "handler"} :
         NewLoad(t, n, caller).tab = t
  BY DEF NewLoad
<1>3. \A t \in Tab, n \in Workspace : \A l \in LoadsAfterVisit(t, n) :
         l.tab = t \/ \E k \in loads : k.tab = l.tab
  <2>1. \A l \in Load : [l EXCEPT !.caller = "superseded"].tab = l.tab
    BY DEF Load
  <2>2. ASSUME NEW t \in Tab, NEW n \in Workspace, NEW l \in LoadsAfterVisit(t, n)
        PROVE  l.tab = t \/ \E k \in loads : k.tab = l.tab
    <3>1. \/ l = NewLoad(t, n, "visit")
          \/ \E k \in loads : l = k \/ l = [k EXCEPT !.caller = "superseded"]
      BY <2>2 DEF LoadsAfterVisit
    <3>2. CASE l = NewLoad(t, n, "visit")
      BY <1>2, <3>2
    <3>3. ASSUME NEW k \in loads, l = k \/ l = [k EXCEPT !.caller = "superseded"]
          PROVE  l.tab = k.tab
      BY <1>1, <2>1, <3>3
    <3> QED BY <3>1, <3>2, <3>3
  <2> QED BY <2>2
<1>4. ASSUME NEW t \in Tab, NEW q \in Page, page' = [page EXCEPT ![t] = q],
             page[t].status # "closed", q.edits = page[t].edits,
             q.edited = page[t].edited, q.editing = page[t].editing,
             q.processed = page[t].processed,
             q.status \in {page[t].status, "loading", "error"},
             \A l \in loads' : l.tab = t \/ \E k \in loads : k.tab = l.tab
      PROVE  UpdatesInv'
  <2>1. q.status # "closed"
    BY <1>4
  <2>2. KeepsUpdates(q)
    BY <1>1, <1>4, SameResources
  <2> QED BY <1>4, <2>1, <2>2, OnePageChanges
<1>5. ASSUME NEW t \in Tab, UserStep(t)
      PROVE  UpdatesInv'
  <2>1. ASSUME NEW n \in Workspace, Open(t, n)
        PROVE  UpdatesInv'
    <3> DEFINE q == [Closed EXCEPT !.status = "loading", !.url = n]
    <3>1. q \in Page /\ q.status = "loading" /\ q.edited = 0
      BY ClosedType DEF Page, Closed
    <3>2. page' = [page EXCEPT ![t] = q]
      BY <2>1 DEF Open
    <3>3. \A l \in loads' : l.tab = t \/ \E k \in loads : k.tab = l.tab
      BY <1>2, <2>1 DEF Open
    <3> HIDE DEF q
    <3>4. KeepsUpdates(q)
      BY <3>1, FreshKeeps
    <3> QED BY <3>1, <3>2, <3>3, <3>4, OnePageChanges
  <2>2. ASSUME NEW n \in Workspace, NEW mode \in Mode, Browse(t, n, mode)
        PROVE  UpdatesInv'
    <3> DEFINE q == Visiting(page[t], n, mode)
    <3>1. /\ q \in Page /\ q.status = "loading" /\ q.edits = page[t].edits
          /\ q.edited = page[t].edited /\ q.editing = page[t].editing
          /\ q.processed = page[t].processed
      BY <1>1, PageHelpers, FieldsOfVisit
    <3>2. page' = [page EXCEPT ![t] = q] /\ page[t].status # "closed"
          /\ loads' = LoadsAfterVisit(t, n)
      BY <2>2 DEF Browse
    <3> HIDE DEF q
    <3> QED BY <1>3, <1>4, <3>1, <3>2
  <2>3. CASE Reload(t) /\ Ready(t)
    <3> DEFINE q == [page[t] EXCEPT !.op = "reload"]
    <3>1. q \in Page /\ SameFields(q, page[t])
      BY <1>1, PageFields, FieldsOfUpdates
    <3>2. page' = [page EXCEPT ![t] = q] /\ page[t].status # "closed"
      BY <2>3 DEF Reload, Ready
    <3>3. \A l \in loads' : l.tab = t \/ \E k \in loads : k.tab = l.tab
      BY <1>2, <2>3, ShownType DEF Reload
    <3> HIDE DEF q
    <3> QED BY <1>4, <3>1, <3>2, <3>3 DEF SameFields
  <2>4. CASE CreateNewRevision(t)
    <3> DEFINE n == NextWorkspace(Shown(t))
               q == [page[t] EXCEPT !.op = "navigate", !.target = n]
    <3>1. n \in Workspace
      BY <2>4 DEF CreateNewRevision, PostNextRevision, PostRevision
    <3>2. page' = [page EXCEPT ![t] = q] /\ page[t].status # "closed" /\ loads' = loads
      BY <2>4 DEF CreateNewRevision, CanCreateNew, ButtonsEnabled, Reachable, Ready
    <3> HIDE DEF n
    <3>3. q \in Page /\ SameFields(q, page[t])
      BY <1>1, <3>1, PageFields, FieldsOfUpdates
    <3> HIDE DEF q
    <3> QED BY <1>4, <3>2, <3>3 DEF SameFields
  <2>5. CASE CreateRestoreRevision(t)
    <3>1. PICK m \in Workspace :
             /\ PostNextRevision(page[t].list[m])
             /\ page' = [page EXCEPT ![t] =
                   [@ EXCEPT !.op = "restore",
                             !.target = NextWorkspace(page[t].list[m]),
                             !.restoring = page[t].edits]]
      BY <2>5 DEF CreateRestoreRevision
    <3> DEFINE n == NextWorkspace(page[t].list[m])
               e == page[t].edits
               q == [page[t] EXCEPT !.op = "restore", !.target = n, !.restoring = e]
    <3>2. n \in Workspace /\ e \in SUBSET Edit
      BY <3>1, ShownType DEF PostNextRevision, PostRevision
    <3>3. page' = [page EXCEPT ![t] = q] /\ page[t].status # "closed" /\ loads' = loads
      BY <2>5, <3>1 DEF CreateRestoreRevision, Ready
    <3> HIDE DEF n
    <3>4. q \in Page
      BY <3>2, PageFields
    <3> HIDE DEF e
    <3>5. SameFields(q, page[t])
      BY <1>1, FieldsOfUpdates
    <3> HIDE DEF q
    <3> QED BY <1>4, <3>3, <3>4, <3>5 DEF SameFields
  <2>6. CASE SavePackageRevision(t)
    <3> DEFINE n == page[t].url
               q == [page[t] EXCEPT !.op = "navigate", !.target = n]
    <3>1. n \in Workspace
      BY ShownType
    <3>2. page[t].status # "closed" /\ loads' = loads
          /\ (page' = [page EXCEPT ![t] = q] \/ page' = [page EXCEPT ![t] = page[t]])
      BY <2>6 DEF SavePackageRevision, CanSave, ButtonsEnabled, Reachable, Ready, TypeOK
    <3> HIDE DEF n
    <3>3. q \in Page /\ SameFields(q, page[t])
      BY <1>1, <3>1, PageFields, FieldsOfUpdates
    <3> HIDE DEF q
    <3> QED BY <1>1, <1>4, <3>2, <3>3 DEF SameFields
  <2>7. CASE DeletePackageRevision(t)
    <3>1. KeepsUpdates(Left(page[t])) /\ Left(page[t]) \in Page
      BY <1>1, LeftKeeps
    <3>2. page' = [page EXCEPT ![t] = Left(page[t])] /\ loads' = loads \ LoadsOf(t)
      BY <2>7 DEF DeletePackageRevision
    <3>3. \A l \in loads' : l.tab # t /\ \E k \in loads : k.tab = l.tab
      BY <3>2 DEF LoadsOf
    <3> QED BY <3>1, <3>2, <3>3, OnePageChanges
  <2>8. CASE EditResources(t)
    <3> DEFINE e == page[t].edits \union {t}
               q == [page[t] EXCEPT !.edits = e]
    <3>1. e \in SUBSET Edit /\ page[t].edits \subseteq e
      BY ShownType
    <3>2. page' = [page EXCEPT ![t] = q] /\ page[t].status # "closed" /\ loads' = loads
      BY <2>8 DEF EditResources, Reachable, Ready
    <3> HIDE DEF e
    <3>q. q \in Page
      BY <1>1, <3>1 DEF Page
    <3>3. /\ q.status = page[t].status /\ q.edits = e
          /\ q.edited = page[t].edited /\ q.editing = page[t].editing
          /\ q.processed = page[t].processed
      BY <1>1 DEF Page
    <3> HIDE DEF q
    <3>4. KeepsUpdates(q)
      BY <1>1, <3>1, <3>3 DEF KeepsUpdates
    <3> QED BY <3>2, <3>3, <3>q, <3>4, OnePageChanges
  <2>9. CASE StartEdit(t)
    <3> DEFINE b == IF page[t].editing = "no" THEN "yes" ELSE "overtaken"
               e == page[t].edits \union {t}
               q == [page[t] EXCEPT !.editing = b, !.processed = e]
    <3>1. e \in SUBSET Edit /\ page[t].edits \subseteq e
          /\ b \in {"no", "yes", "overtaken", "mixed"}
          /\ (b \in {"no", "yes"} => page[t].editing = "no")
      BY ShownType
    <3>2. page' = [page EXCEPT ![t] = q] /\ page[t].status # "closed" /\ loads' = loads
      BY <2>9 DEF StartEdit, Reachable, Ready
    <3> HIDE DEF b, e
    <3>q. q \in Page
      <4>1. /\ page[t] \in Page /\ e \in SUBSET Edit
            /\ b \in {"no", "yes", "overtaken", "mixed"}
        BY <1>1, <3>1
      <4> QED BY <4>1 DEF Page
    <3>3. /\ q.status = page[t].status /\ q.edits = page[t].edits
          /\ q.edited = page[t].edited /\ q.editing = b /\ q.processed = e
      BY <1>1 DEF Page
    <3> HIDE DEF q
    <3>4. KeepsUpdates(q)
      BY <1>1, <3>1, <3>3 DEF KeepsUpdates
    <3> QED BY <3>2, <3>3, <3>q, <3>4, OnePageChanges
  <2>10. Propose(t) \/ Reject(t) \/ Approve(t) => Reload(t) /\ Ready(t)
    BY DEF Propose, Reject, Approve, CanPropose, CanReview, ButtonsEnabled, Reachable
  <2>11. CASE OpenRestoreDialog(t) \/ CloseRestoreDialog(t)
    BY <1>4, <2>11, DialogStep DEF SameFields
  <2> QED BY <1>5, <2>1, <2>2, <2>3, <2>4, <2>5, <2>6, <2>7, <2>8, <2>9, <2>10, <2>11
          DEF UserStep
<1>6. ASSUME NEW t \in Tab, Navigate(t)
      PROVE  UpdatesInv'
  <2>1. page[t].target \in Workspace
    BY ShownType
  <2>2. CASE AtTarget(page[t]) /\ page' = [page EXCEPT ![t] = RequestOver(@)] /\ loads' = loads
    <3>1. RequestOver(page[t]) \in Page /\ SameFields(RequestOver(page[t]), page[t])
      BY <1>1, PageHelpers, FieldsOfUpdates
    <3> QED BY <1>4, <2>2, <3>1 DEF SameFields, AtTarget
  <2>3. CASE ~AtTarget(page[t]) /\ page' = [page EXCEPT ![t] = Navigated(@)]
             /\ loads' = LoadsAfterVisit(t, page[t].target)
    <3>1. \A l \in loads' : l.tab = t \/ \E k \in loads : k.tab = l.tab
      BY <1>3, <2>1, <2>3
    <3>2. CASE page[t].status = "closed"
      <4> DEFINE q == Visiting(Closed, page[t].target, "VIEW")
      <4>1. q \in Page
        BY <2>1, ClosedType, PageHelpers DEF Mode
      <4>2. q.status = "loading" /\ q.edited = 0
        BY ClosedType DEF Visiting, Closed, Page
      <4>3. page' = [page EXCEPT ![t] = q]
        BY <2>3, <3>2 DEF Navigated
      <4> HIDE DEF q
      <4> QED BY <3>1, <4>1, <4>2, <4>3, FreshKeeps, OnePageChanges
    <3>3. CASE page[t].status # "closed"
      <4> DEFINE p == RequestOver(page[t])
                 q == Visiting(p, page[t].target, "VIEW")
      <4>1. p \in Page /\ SameFields(p, page[t])
        BY <1>1, PageHelpers, FieldsOfUpdates
      <4>2. page' = [page EXCEPT ![t] = q]
        BY <2>3, <3>3 DEF Navigated
      <4> HIDE DEF p
      <4>3. q \in Page
        BY <2>1, <4>1, PageHelpers DEF Mode
      <4>4. /\ q.status = "loading" /\ q.edits = p.edits /\ q.edited = p.edited
            /\ q.editing = p.editing /\ q.processed = p.processed
        BY <4>1, FieldsOfVisit
      <4> HIDE DEF q
      <4> QED BY <1>4, <3>1, <3>3, <4>1, <4>2, <4>3, <4>4 DEF SameFields
    <3> QED BY <3>2, <3>3
  <2> QED BY <1>6, <2>2, <2>3 DEF Navigate
<1>7. ASSUME NEW t \in Tab, NEW q \in Page, SameFields(q, page[t]),
             page' = [page EXCEPT ![t] = q], loads' \subseteq loads
      PROVE  UpdatesInv'
  <2>1. KeepsUpdates(q)
    BY <1>1, <1>7 DEF KeepsUpdates, SameFields
  <2>2. q.status # "closed" \/ \A l \in loads' : l.tab # t
    BY <1>1, <1>7 DEF SameFields
  <2>3. \A l \in loads' : l.tab = t \/ \E k \in loads : k.tab = l.tab
    BY <1>7
  <2> QED BY <1>7, <2>1, <2>2, <2>3, OnePageChanges
<1>8. ASSUME NEW t \in Tab, ReplaceRevisionsResources(t) \/ FailRequest(t)
      PROVE  UpdatesInv'
  <2> DEFINE q == [page[t] EXCEPT !.op = "navigate", !.restoring = {}]
  <2>1. /\ RequestOver(page[t]) \in Page /\ SameFields(RequestOver(page[t]), page[t])
        /\ q \in Page /\ SameFields(q, page[t])
    BY <1>1, PageHelpers, PageFields, FieldsOfUpdates
  <2>2. /\ loads' \subseteq loads
        /\ page' = [page EXCEPT ![t] = q] \/ page' = [page EXCEPT ![t] = RequestOver(page[t])]
    BY <1>8 DEF ReplaceRevisionsResources, FailRequest
  <2> HIDE DEF q
  <2> QED BY <1>7, <2>1, <2>2
<1>9. ASSUME NEW t \in Tab, FinishEdit(t)
      PROVE  UpdatesInv'
  <2> DEFINE b == IF page[t].editing = "yes" THEN "no" ELSE "mixed"
             e == page[t].processed
             q == [page[t] EXCEPT !.editing = b, !.processed = {}, !.edits = e]
  <2>1. page[t] \in Page /\ e \in SUBSET Edit /\ b \in {"no", "yes", "overtaken", "mixed"}
    BY <1>1 DEF Page
  <2>2. b \in {"no", "yes"} => b = "no" /\ page[t].editing = "yes"
    OBVIOUS
  <2>3. page' = [page EXCEPT ![t] = q] /\ loads' = loads
    BY <1>9 DEF FinishEdit
  <2>4. e = page[t].processed
    OBVIOUS
  <2> HIDE DEF b, e
  <2>5. q \in Page
    BY <2>1 DEF Page
  <2>6. /\ q.status = page[t].status /\ q.edits = e /\ q.edited = page[t].edited
        /\ q.editing = b
    BY <2>1 DEF Page
  <2> HIDE DEF q
  <2>7. KeepsUpdates(q)
    BY <1>1, <2>2, <2>4, <2>6 DEF KeepsUpdates
  <2>8. q.status # "closed" \/ \A l \in loads' : l.tab # t
    BY <1>1, <2>3, <2>6
  <2> QED BY <2>3, <2>5, <2>7, <2>8, OnePageChanges
<1>10. ASSUME NEW l \in loads, AnswerRevisions(l) \/ AnswerResources(l)
       PROVE  UpdatesInv'
  <2>1. page' = page /\ UNCHANGED porchVars
    BY <1>10 DEF AnswerRevisions, AnswerResources, porchVars
  <2>2. \A k \in loads' : \E m \in loads : k.tab = m.tab
    <3>1. /\ [l EXCEPT !.answered = @ \union {"revisions"}, !.revs = revision].tab = l.tab
          /\ [l EXCEPT !.answered = @ \union {"resources"}, !.res = revision].tab = l.tab
      BY <1>1 DEF Load
    <3> QED BY <1>10, <3>1 DEF AnswerRevisions, AnswerResources
  <2>3. page' = [page EXCEPT ![l.tab] = page[l.tab]]
    BY <2>1 DEF TypeOK
  <2>4. l.tab \in Tab /\ page[l.tab] \in Page /\ KeepsUpdates(page[l.tab])
        /\ page[l.tab].status # "closed"
    BY <1>1
  <2>5. \A k \in loads' : k.tab = l.tab \/ \E m \in loads : m.tab = k.tab
    BY <2>2
  <2> QED BY <2>3, <2>4, <2>5, OnePageChanges
<1>11. ASSUME NEW l \in loads, EndLoad(l)
       PROVE  UpdatesInv'
  <2>1. KeepsUpdates(Loaded(l)) /\ Loaded(l).status # "closed" /\ Loaded(l) \in Page
    BY LoadedKeeps, LoadedType
  <2>2. page' = [page EXCEPT ![l.tab] = Loaded(l)] /\ loads' \subseteq loads
    BY <1>11 DEF EndLoad
  <2>3. \A k \in loads' : k.tab = l.tab \/ \E m \in loads : m.tab = k.tab
    BY <2>2
  <2> QED BY <1>1, <2>1, <2>2, <2>3, OnePageChanges
<1>12. ASSUME NEW l \in loads, FailVisit(l)
       PROVE  UpdatesInv'
  <2> DEFINE q == [page[l.tab] EXCEPT !.status = "error"]
  <2>1. /\ q \in Page /\ q.status = "error" /\ q.edits = page[l.tab].edits
        /\ q.edited = page[l.tab].edited /\ q.editing = page[l.tab].editing
        /\ q.processed = page[l.tab].processed
    BY <1>1 DEF Page
  <2>2. page' = [page EXCEPT ![l.tab] = q]
    BY <1>12 DEF FailVisit
  <2>3. \A k \in loads' : k.tab = l.tab \/ \E m \in loads : m.tab = k.tab
    <3>1. [l EXCEPT !.caller = "superseded"].tab = l.tab
      BY <1>1 DEF Load
    <3> QED BY <1>12, <3>1 DEF FailVisit
  <2> HIDE DEF q
  <2> QED BY <1>1, <1>4, <2>1, <2>2, <2>3
<1>13. CASE UNCHANGED vars
  BY <1>13 DEF vars, UpdatesInv, KeepsUpdates, Exists
<1> QED BY <1>5, <1>6, <1>8, <1>9, <1>10, <1>11, <1>12, <1>13
        DEF Next, RequestStep, LoadStep

LEMMA InitUpdates == Init => UpdatesInv
<1> SUFFICES ASSUME Init PROVE UpdatesInv
  OBVIOUS
<1>1. TypeOK /\ VersionsInv
  BY InitType, InitVersions
<1>2. Closed.status = "closed" /\ Closed.edited = 0
  BY DEF Closed
<1>3. KeepsUpdates(Closed)
  BY <1>1, <1>2, ClosedType, FreshKeeps
<1> QED BY <1>3 DEF Init, UpdatesInv

LEMMA VersionsHold == Spec => [](TypeOK /\ VersionsInv /\ UpdatesInv)
<1>1. Init => TypeOK /\ VersionsInv /\ UpdatesInv
  BY InitType, InitVersions, InitUpdates
<1>2. TypeOK /\ VersionsInv /\ UpdatesInv /\ [Next]_vars
      => (TypeOK /\ VersionsInv /\ UpdatesInv)'
  BY StepType, StepVersions, StepUpdates
<1> QED BY <1>1, <1>2, PTL DEF Spec

(* savePackageRevision never overwrites what another tab has saved since   *)
(* the page read the resources, however loads, visits and saves overlap.   *)
THEOREM NoLostUpdate == Spec => []SaveKeepsUpdates
<1>1. TypeOK /\ VersionsInv /\ UpdatesInv => SaveKeepsUpdates
  <2> SUFFICES ASSUME TypeOK, UpdatesInv, NEW t \in Tab,
                      AcceptsResources(page[t].url, SavedVersion(t)),
                      page[t].status = "ready", page[t].editing \in {"no", "yes"}
               PROVE  revision[page[t].url].edits \subseteq page[t].edits
    BY DEF SaveKeepsUpdates
  <2>1. KeepsUpdates(page[t])
    BY DEF UpdatesInv
  <2>2. /\ Exists(revision, page[t].url) /\ page[t].url \in Workspace
        /\ page[t].edited \in {0, revision[page[t].url].version}
    BY DEF AcceptsResources, UpToDate, SavedVersion, Exists
  <2> QED BY <2>1, <2>2 DEF KeepsUpdates
<1> QED BY <1>1, VersionsHold, PTL

-----------------------------------------------------------------------------
(* The line of history.  As long as published revisions are not deleted,   *)
(* the tabs implement PackageHistory, for any number of tabs, revisions    *)
(* and loads in flight.                                                    *)

-----------------------------------------------------------------------------
(* What the server accepts                                                 *)

(* A copy that the server takes for up to date is the server's revision.   *)
LEMMA UpToDateCopy ==
    ASSUME VersionsInv, NEW revs \in Copies, NEW n, Exists(revs, n),
           UpToDate(n, revs[n].version)
    PROVE  n \in Workspace /\ Exists(revision, n) /\ revs[n] = revision[n]
<1>1. VersionsName(revs) /\ n \in Workspace
  BY DEF VersionsInv, Exists
<1>2. revs[n].version \in 1..version
  BY <1>1 DEF VersionsName
<1>3. Exists(revision, n) /\ revs[n].version = revision[n].version
  BY <1>2 DEF UpToDate
<1> QED BY <1>1, <1>3 DEF VersionsName

(* The number that approval assigns to the open revision is its place.     *)
LEMMA NumberIsPlace ==
    ASSUME TypeOK, InLine, PublishedAsNamed, NEW n, Unpublished(revision, n),
           NEW k \in Nat, IsNextNumber(revision, k)
    PROVE  k = n
<1>1. n \in Workspace /\ n \in Nat /\ Exists(revision, n) /\ ~Published(revision, n)
  BY FirstWorkspace DEF Unpublished, Exists
<1>2. \A m \in Workspace : Published(revision, m) <=> m < n
  <2>1. ASSUME NEW m \in Workspace, Published(revision, m)
        PROVE  m < n
    <3>1. m \in Nat /\ Exists(revision, m)
      BY <2>1, FirstWorkspace DEF Exists, Published
    <3>2. m # n
      BY <1>1, <2>1
    <3>3. ~(n < m)
      BY <1>1, <3>1 DEF InLine
    <3> QED BY <1>1, <3>1, <3>2, <3>3
  <2>2. ASSUME NEW m \in Workspace, m < n
        PROVE  Published(revision, m)
    BY <1>1, <2>2 DEF InLine
  <2> QED BY <2>1, <2>2
<1>3. \A m \in Workspace : m < n => m < k
  BY <1>2 DEF IsNextNumber, PublishedAsNamed
<1>4. k = 1 \/ \E m \in Workspace : m < n /\ m = k - 1
  BY <1>2 DEF IsNextNumber, PublishedAsNamed
<1>5. k \leq n
  BY <1>1, <1>4, MaxRevisionAssumption DEF Workspace
<1>6. ~(k < n)
  <2> SUFFICES ASSUME k < n PROVE FALSE
    OBVIOUS
  <2>1. k \in Workspace
    BY <1>1, <1>4, MaxRevisionAssumption DEF Workspace
  <2> QED BY <1>3, <2>1
<1> QED BY <1>1, <1>5, <1>6

-----------------------------------------------------------------------------
(* The steps of a line of history                                          *)

Starts(n, r) ==
    /\ ~Exists(revision, n)
    /\ Published(revision, n - 1)
    /\ r.lifecycle = "Draft" /\ r.edits = revision[n - 1].edits

Edits(n, r) == revision[n].lifecycle = "Draft" /\ r.lifecycle = "Draft"

Moves(n, r) ==
    /\ r.edits = revision[n].edits
    /\ \/ revision[n].lifecycle = "Draft" /\ r.lifecycle = "Proposed"
       \/ revision[n].lifecycle = "Proposed" /\ r.lifecycle = "Draft"
       \/ revision[n].lifecycle = "Proposed" /\ r.lifecycle = "Published" /\ r.number = n

Continues(n, r) == Write(n, r) /\ (Starts(n, r) \/ Edits(n, r) \/ Moves(n, r))

GivenUp(n) == DeleteRevision(n) /\ ~Published(revision, n)

LEMMA ShownCopy ==
    ASSUME TypeOK, NEW t \in Tab
    PROVE  /\ page[t].list \in Copies /\ page[t].list \in [Workspace -> Revision]
           /\ page[t].shown \in Workspace /\ Shown(t) = page[t].list[page[t].shown]
BY DEF TypeOK, Page, Copies, Shown

LEMMA PutRevisionMoves ==
    ASSUME TypeOK, VersionsInv, NEW t \in Tab, NEW n, n = page[t].shown,
           NEW life \in {"Draft", "Proposed"},
           <<Shown(t).lifecycle, life>> \in {<<"Draft", "Proposed">>, <<"Proposed", "Draft">>},
           PutRevision(n, Moved(Shown(t), life))
    PROVE  \E r : Continues(n, r)
<1> DEFINE copy == Shown(t)
<1>1. /\ copy \in Revision /\ copy = page[t].list[n] /\ Exists(page[t].list, n)
      /\ page[t].list \in Copies
  BY ShownCopy DEF Exists
<1>2. /\ Moved(copy, life) \in Revision /\ Moved(copy, life).lifecycle = life
      /\ Moved(copy, life).version = copy.version
  BY <1>1 DEF Moved, Revision, Lifecycle
<1>3. UpToDate(n, page[t].list[n].version)
  BY <1>1, <1>2 DEF PutRevision
<1>4. n \in Workspace /\ revision[n] = copy
  BY <1>1, <1>3, UpToDateCopy
<1> DEFINE v == version + 1
           q == revision[n]
           r == [q EXCEPT !.lifecycle = life, !.version = v]
<1>5. Write(n, r)
  BY <1>2, PutRevisionWrites
<1>6. q \in Revision
  BY <1>4 DEF TypeOK
<1> HIDE DEF v, q
<1>7. r.edits = q.edits /\ r.lifecycle = life
  BY <1>6 DEF Revision
<1>8. Moves(n, r)
  BY <1>4, <1>7 DEF Moves, q
<1> QED BY <1>5, <1>8 DEF Continues

LEMMA ApproveMoves ==
    ASSUME TypeOK, VersionsInv, HistoryInv, NEW t \in Tab, Approve(t)
    PROVE  \E n, r : Continues(n, r)
<1> DEFINE copy == Shown(t)
           n == page[t].shown
<1>1. /\ copy \in Revision /\ copy = page[t].list[n] /\ Exists(page[t].list, n)
      /\ page[t].list \in Copies /\ copy.lifecycle = "Proposed"
  BY ShownCopy DEF Exists, Approve, CanReview
<1>2. /\ Moved(copy, "Published") \in Revision
      /\ Moved(copy, "Published").lifecycle = "Published"
      /\ Moved(copy, "Published").version = copy.version
  BY <1>1 DEF Moved, Revision, Lifecycle
<1>3. PutApproval(n, Moved(copy, "Published"))
  BY DEF Approve
<1>4. UpToDate(n, page[t].list[n].version)
  BY <1>1, <1>2, <1>3 DEF PutApproval
<1>5. n \in Workspace /\ Exists(revision, n) /\ revision[n] = copy
  BY <1>1, <1>4, UpToDateCopy
<1>6. Unpublished(revision, n)
  BY <1>1, <1>5 DEF Unpublished, Published
<1> DEFINE v == version + 1
           q == revision[n]
           r == [q EXCEPT !.lifecycle = "Published", !.number = n, !.version = v]
<1> HIDE DEF n, copy
<1>7. Write(n, r)
  <2>1. PICK k \in Nat :
           /\ IsNextNumber(revision, k)
           /\ Write(n, [q EXCEPT !.lifecycle = Moved(copy, "Published").lifecycle,
                                 !.number = k, !.version = v])
    BY <1>2, <1>3, PutApprovalWrites
  <2>2. k = n
    BY <1>6, <2>1, NumberIsPlace DEF HistoryInv
  <2> QED BY <1>2, <2>1, <2>2
<1>8. q \in Revision
  BY <1>5 DEF TypeOK
<1> HIDE DEF v, q
<1>9. r.edits = q.edits /\ r.lifecycle = "Published" /\ r.number = n
  BY <1>8 DEF Revision
<1>10. Moves(n, r)
  BY <1>1, <1>5, <1>9 DEF Moves, q
<1> QED BY <1>7, <1>10 DEF Continues

(* The workspace after a published revision, as a copy names it.           *)
LEMMA PostStarts ==
    ASSUME TypeOK, HistoryInv, NEW revs \in Copies, revs \in [Workspace -> Revision],
           NEW m, Published(revs, m), PostNextRevision(revs[m])
    PROVE  \E n, r : Continues(n, r)
<1> DEFINE n == NextWorkspace(revs[m])
<1>1. /\ m \in Workspace /\ m \in Nat /\ Published(revision, m)
      /\ revs[m].number = m /\ revs[m].edits = revision[m].edits
  BY FirstWorkspace DEF HistoryInv, Frozen, Published
<1>2. n = m + 1 /\ n - 1 = m
  BY <1>1 DEF NextWorkspace
<1>3. revs[m].edits \in SUBSET Edit
  BY <1>1 DEF Revision
<1> DEFINE v == version + 1
           e == revs[m].edits
           r == [lifecycle |-> "Draft", number |-> 0, version |-> v, edits |-> e]
<1>4. Write(n, r) /\ ~Exists(revision, n)
  BY <1>3, PostRevisionWrites DEF PostNextRevision, PostRevision
<1>5. Starts(n, r)
  BY <1>1, <1>2, <1>4 DEF Starts
<1> QED BY <1>4, <1>5 DEF Continues

LEMMA PutResourcesEdits ==
    ASSUME TypeOK, NEW n, NEW edits \in SUBSET Edit, NEW v, PutResources(n, edits, v)
    PROVE  \E r : Continues(n, r)
<1> DEFINE w == version + 1
           q == revision[n]
           r == [q EXCEPT !.edits = edits, !.version = w]
<1>1. q.lifecycle = "Draft" /\ Write(n, r)
  BY PutResourcesWrites
<1>2. q \in Revision
  BY <1>1 DEF Write, TypeOK
<1>3. q.lifecycle = "Draft"
  BY <1>1
<1>4. Write(n, r)
  BY <1>1
<1> HIDE DEF w, q
<1>5. r.lifecycle = "Draft"
  BY <1>2, <1>3 DEF Revision
<1> QED BY <1>3, <1>4, <1>5 DEF Continues, Edits, q

LEMMA HistorySteps ==
    ASSUME ~DeletePublished, TypeOK, VersionsInv, HistoryInv, [Next]_vars
    PROVE  \/ UNCHANGED porchVars
           \/ \E n, r : Continues(n, r)
           \/ \E n : GivenUp(n)
<1> DEFINE Goal == \/ UNCHANGED porchVars
                   \/ \E n, r : Continues(n, r)
                   \/ \E n : GivenUp(n)
<1>1. ASSUME NEW t \in Tab, UserStep(t)
      PROVE  Goal
  <2>1. CASE Propose(t)
    BY <2>1, PutRevisionMoves DEF Propose, CanPropose
  <2>2. CASE Reject(t)
    BY <2>2, PutRevisionMoves DEF Reject, CanReview
  <2>3. CASE Approve(t)
    BY <2>3, ApproveMoves
  <2>4. CASE CreateNewRevision(t)
    BY <2>4, ShownCopy, PostStarts DEF CreateNewRevision, CanCreateNew, IsLatest
  <2>5. CASE CreateRestoreRevision(t)
    BY <2>5, ShownCopy, PostStarts DEF CreateRestoreRevision, IsLatest
  <2>6. CASE SavePackageRevision(t)
    BY <2>6, ShownType, PutResourcesEdits DEF SavePackageRevision
  <2>7. CASE DeletePackageRevision(t)
    BY <2>7 DEF DeletePackageRevision, DeleteRevision, GivenUp
  <2> QED BY <1>1, <2>1, <2>2, <2>3, <2>4, <2>5, <2>6, <2>7
          DEF UserStep, Open, Browse, OpenRestoreDialog, CloseRestoreDialog,
              EditResources, StartEdit, porchVars
<1>2. ASSUME NEW t \in Tab,
             Navigate(t) \/ ReplaceRevisionsResources(t) \/ FinishEdit(t) \/ FailRequest(t)
      PROVE  Goal
  BY <1>2, ShownType, PutResourcesEdits
     DEF Navigate, ReplaceRevisionsResources, FinishEdit, FailRequest, porchVars
<1>3. ASSUME NEW l \in loads, LoadStep(l) \/ FailVisit(l)
      PROVE  Goal
  BY <1>3 DEF LoadStep, FailVisit, AnswerRevisions, AnswerResources, EndLoad, porchVars
<1>4. CASE UNCHANGED vars
  BY <1>4 DEF vars, porchVars
<1> QED BY <1>1, <1>2, <1>3, <1>4 DEF Next, RequestStep

-----------------------------------------------------------------------------
(* The invariant                                                           *)

LEMMA InitHistory == Init => HistoryInv /\ History!Init
<1> SUFFICES ASSUME Init PROVE HistoryInv /\ History!Init
  OBVIOUS
<1>1. PICK k \in 0..(MaxRevision - 1) :
         /\ version = IF k = 0 THEN 1 ELSE k
         /\ revision = [n \in Workspace |->
               CASE n <= k -> [lifecycle |-> "Published", number |-> n,
                               version |-> n, edits |-> {}]
                 [] k = 0 /\ n = 1 -> [lifecycle |-> "Draft", number |-> 0,
                                       version |-> 1, edits |-> {}]
                 [] OTHER -> NoRevision]
  BY DEF Init, PorchInit
<1>2. k \in Nat /\ \A n \in Workspace : n \in Nat /\ n >= 1
  BY MaxRevisionAssumption DEF Workspace
<1>3. ASSUME NEW n \in Workspace
      PROVE  /\ revision[n].edits = {}
             /\ revision[n].lifecycle = CASE n <= k -> "Published"
                                          [] k = 0 /\ n = 1 -> "Draft"
                                          [] OTHER -> "Absent"
             /\ n <= k => revision[n].number = n
  <2>1. CASE n <= k
    BY <1>1, <1>2, <2>1
  <2>2. CASE k = 0 /\ n = 1
    BY <1>1, <1>2, <2>2
  <2>3. CASE ~(n <= k) /\ ~(k = 0 /\ n = 1)
    BY <1>1, <1>2, <2>3 DEF NoRevision
  <2> QED BY <2>1, <2>2, <2>3
<1>4. \A n \in Workspace : (Published(revision, n) <=> n <= k)
                           /\ (Exists(revision, n) <=> n <= k \/ (k = 0 /\ n = 1))
  BY <1>2, <1>3 DEF Published, Exists
<1>5. InLine
  BY <1>2, <1>4 DEF InLine
<1>6. PublishedAsNamed
  BY <1>3, <1>4 DEF PublishedAsNamed
<1>7. \A revs \in Copies : Frozen(revs)
  <2>1. Copies \subseteq {NoRevisions}
    BY DEF Init, Copies, Closed
  <2> QED BY <2>1 DEF Frozen, NoRevisions, NoRevision, Published
<1>8. History!Init
  BY <1>3 DEF History!Init, History!Place, Workspace
<1> QED BY <1>5, <1>6, <1>7, <1>8 DEF HistoryInv

(* What is published stays as it is, and the others stay a line. *)
LEMMA ContinuesHistory ==
    ASSUME TypeOK, HistoryInv, NEW n, NEW r, Continues(n, r)
    PROVE  /\ InLine' /\ PublishedAsNamed'
           /\ \A m \in Workspace : Published(revision, m) => revision'[m] = revision[m]
<1>1. /\ n \in Workspace /\ n \in Nat /\ r.lifecycle # "Absent"
      /\ revision' = [revision EXCEPT ![n] = r]
      /\ revision' \in [Workspace -> Revision]
  BY FirstWorkspace, WriteType DEF Continues, Write
<1>2. InLine /\ PublishedAsNamed
  BY DEF HistoryInv
<1>3. ~Published(revision, n)
  BY DEF Continues, Starts, Edits, Moves, Published, Exists
<1>4. \A m \in Workspace : m < n => Published(revision, m)
  <2>1. CASE Exists(revision, n)
    BY <1>1, <1>2, <2>1 DEF InLine
  <2>2. CASE ~Exists(revision, n)
    <3>1. Published(revision, n - 1) /\ n - 1 \in Workspace
      BY <1>1, <2>2 DEF Continues, Starts, Edits, Moves, Exists, Published
    <3>2. \A m \in Workspace : m \in Nat /\ (m < n => m < n - 1 \/ m = n - 1)
      BY <1>1, FirstWorkspace
    <3>3. Exists(revision, n - 1)
      BY <3>1 DEF Published, Exists
    <3> QED BY <1>2, <3>1, <3>2, <3>3 DEF InLine
  <2> QED BY <2>1, <2>2
<1>5. \A m \in Workspace : m # n => revision'[m] = revision[m]
  BY <1>1 DEF TypeOK
<1>6. revision'[n] = r
  BY <1>1 DEF TypeOK
<1>7. \A m \in Workspace : Published(revision, m) => revision'[m] = revision[m]
  BY <1>3, <1>5
<1>8. \A m \in Workspace : Published(revision, m) => Published(revision', m)
  BY <1>7 DEF Published
<1>9. InLine'
  BY <1>2, <1>4, <1>5, <1>8 DEF InLine, Exists
<1>10. PublishedAsNamed'
  <2>1. r.lifecycle = "Published" => r.number = n
    BY DEF Continues, Starts, Edits, Moves
  <2> QED BY <1>2, <1>5, <1>6, <2>1 DEF PublishedAsNamed, Published
<1> QED BY <1>7, <1>9, <1>10

LEMMA GivenUpHistory ==
    ASSUME TypeOK, HistoryInv, NEW n, GivenUp(n)
    PROVE  /\ InLine' /\ PublishedAsNamed'
           /\ \A m \in Workspace : Published(revision, m) => revision'[m] = revision[m]
<1>1. /\ n \in Workspace /\ ~Published(revision, n)
      /\ revision' = [revision EXCEPT ![n] = NoRevision]
  BY DEF GivenUp, DeleteRevision, Exists
<1>2. revision'[n] = NoRevision /\ \A m \in Workspace : m # n => revision'[m] = revision[m]
  BY <1>1 DEF TypeOK
<1>3. InLine'
  BY <1>1, <1>2 DEF HistoryInv, InLine, Exists, Published, NoRevision
<1>4. PublishedAsNamed'
  BY <1>2 DEF HistoryInv, PublishedAsNamed, Published, NoRevision
<1> QED BY <1>1, <1>2, <1>3, <1>4

LEMMA StepHistory ==
    ASSUME ~DeletePublished, TypeOK, VersionsInv, HistoryInv, [Next]_vars
    PROVE  HistoryInv'
<1>1. /\ InLine' /\ PublishedAsNamed'
      /\ \A m \in Workspace : Published(revision, m) => revision'[m] = revision[m]
  <2>1. CASE UNCHANGED porchVars
    BY <2>1 DEF porchVars, HistoryInv, InLine, PublishedAsNamed, Exists, Published
  <2>2. ASSUME NEW n, NEW r, Continues(n, r)
        PROVE  /\ InLine' /\ PublishedAsNamed'
               /\ \A m \in Workspace : Published(revision, m) => revision'[m] = revision[m]
    BY <2>2, ContinuesHistory
  <2>3. ASSUME NEW n, GivenUp(n)
        PROVE  /\ InLine' /\ PublishedAsNamed'
               /\ \A m \in Workspace : Published(revision, m) => revision'[m] = revision[m]
    BY <2>3, GivenUpHistory
  <2> QED BY <2>1, <2>2, <2>3, HistorySteps
<1>2. ASSUME NEW revs \in Copies
      PROVE  Frozen(revs)'
  <2>1. Frozen(revs)
    BY DEF HistoryInv
  <2> QED BY <1>1, <2>1 DEF Frozen, Published
<1>3. Frozen(NoRevisions)'
  BY DEF Frozen, NoRevisions, NoRevision, Published
<1>4. ASSUME NEW revs \in Copies'
      PROVE  Frozen(revs)'
  <2>1. CASE revs = revision'
    BY <1>1, <2>1 DEF Frozen, PublishedAsNamed, Published
  <2>2. CASE revs \in Copies \union {NoRevisions}
    BY <1>2, <1>3, <2>2
  <2> QED BY <2>1, <2>2, CopiesMade
<1> QED BY <1>1, <1>4 DEF HistoryInv

-----------------------------------------------------------------------------
(* The refinement                                                          *)

LEMMA HeadIsOpen ==
    ASSUME InLine, NEW n \in Workspace, ~Published(revision, n),
           \A m \in Workspace : m < n => Published(revision, m)
    PROVE  History!IsHead(n)
<1>1. \A m \in Workspace : m > n => ~Exists(revision, m)
  BY FirstWorkspace DEF InLine
<1> QED BY <1>1 DEF History!IsHead, History!Place, Workspace, Published, Exists

LEMMA ContinuesIsStep ==
    ASSUME TypeOK, HistoryInv, NEW n, NEW r, Continues(n, r)
    PROVE  History!Next
<1>1. /\ n \in Workspace /\ n \in History!Place /\ n \in Nat
      /\ r \in Revision /\ revision \in [Workspace -> Revision]
      /\ revision' = [revision EXCEPT ![n] = r]
  BY FirstWorkspace DEF TypeOK, Continues, Write, History!Place, Workspace
<1>2. /\ r.edits \in SUBSET Edit /\ InLine /\ r.lifecycle \in Lifecycle
  BY <1>1 DEF HistoryInv, Revision
<1> DEFINE lifecycle == [m \in Workspace |-> revision[m].lifecycle]
           content == [m \in Workspace |-> revision[m].edits]
<1>3. /\ [m \in Workspace |-> revision'[m].lifecycle] = [lifecycle EXCEPT ![n] = r.lifecycle]
      /\ [m \in Workspace |-> revision'[m].edits] = [content EXCEPT ![n] = r.edits]
  BY <1>1
<1>4. CASE Starts(n, r)
  <2>1. /\ n - 1 \in Workspace /\ lifecycle[n] = "Absent" /\ r.edits = content[n - 1]
        /\ n > 1
    BY <1>1, <1>4, MaxRevisionAssumption DEF Starts, Published, Exists, Workspace
  <2>2. \A m \in Workspace : m < n => Published(revision, m)
    <3>1. \A m \in Workspace : m \in Nat /\ (m < n => m < n - 1 \/ m = n - 1)
      BY <1>1, FirstWorkspace
    <3>2. Published(revision, n - 1) /\ Exists(revision, n - 1)
      BY <1>4 DEF Starts, Published, Exists
    <3> QED BY <1>2, <2>1, <3>1, <3>2 DEF InLine
  <2>3. History!IsHead(n)
    BY <1>1, <1>2, <1>4, <2>2, HeadIsOpen DEF Starts, Published, Exists
  <2>4. History!Start(n)
    BY <1>1, <1>3, <1>4, <2>1, <2>3 DEF History!Start, Starts
  <2> QED BY <1>1, <2>4 DEF History!Next
<1>5. CASE Edits(n, r)
  <2>1. r.lifecycle = lifecycle[n] /\ lifecycle[n] = "Draft"
    BY <1>1, <1>5 DEF Edits
  <2>2. [lifecycle EXCEPT ![n] = r.lifecycle] = lifecycle
    BY <1>1, <2>1
  <2>3. History!Write(n, r.edits)
    BY <1>1, <1>3, <2>1, <2>2 DEF History!Write
  <2> QED BY <1>1, <1>2, <2>3 DEF History!Next
<1>6. CASE Moves(n, r)
  <2>1. Exists(revision, n) /\ ~Published(revision, n)
    BY <1>1, <1>6 DEF Moves, Exists, Published
  <2>2. History!IsHead(n)
    BY <1>1, <1>2, <2>1, HeadIsOpen DEF InLine
  <2>3. r.edits = content[n]
    BY <1>1, <1>6 DEF Moves
  <2>4. [content EXCEPT ![n] = r.edits] = content
    BY <1>1, <2>3
  <2>5. History!Move(n, lifecycle[n], r.lifecycle)
    BY <1>1, <1>3, <2>2, <2>4 DEF History!Move
  <2>6. \/ lifecycle[n] = "Draft" /\ r.lifecycle = "Proposed"
        \/ lifecycle[n] = "Proposed" /\ r.lifecycle = "Draft"
        \/ lifecycle[n] = "Proposed" /\ r.lifecycle = "Published"
    BY <1>1, <1>6 DEF Moves
  <2> HIDE DEF lifecycle
  <2> QED BY <1>1, <2>5, <2>6 DEF History!Next
<1> QED BY <1>4, <1>5, <1>6 DEF Continues

LEMMA GivenUpIsStep ==
    ASSUME TypeOK, HistoryInv, NEW n, GivenUp(n)
    PROVE  History!Next
<1>1. /\ n \in Workspace /\ n \in History!Place
      /\ Exists(revision, n) /\ ~Published(revision, n)
      /\ revision \in [Workspace -> Revision]
      /\ revision' = [revision EXCEPT ![n] = NoRevision]
  BY DEF GivenUp, DeleteRevision, Exists, TypeOK, History!Place, Workspace
<1>2. revision[n].lifecycle \in {"Draft", "Proposed"}
  BY <1>1 DEF Exists, Published, Revision, Lifecycle
<1>3. History!IsHead(n)
  BY <1>1, HeadIsOpen DEF HistoryInv, InLine
<1>4. History!Discard(n)
  BY <1>1, <1>2, <1>3 DEF History!Discard, NoRevision
<1> QED BY <1>1, <1>4 DEF History!Next

LEMMA HistoryHolds ==
    ASSUME ~DeletePublished
    PROVE  Spec => [](TypeOK /\ VersionsInv /\ HistoryInv)
<1>1. Init => TypeOK /\ VersionsInv /\ HistoryInv
  BY InitType, InitVersions, InitHistory
<1>2. TypeOK /\ VersionsInv /\ HistoryInv /\ [Next]_vars
      => (TypeOK /\ VersionsInv /\ HistoryInv)'
  BY StepType, StepVersions, StepHistory
<1> QED BY <1>1, <1>2, PTL DEF Spec

(* Approving, creating and restoring from stale lists keep the names of    *)
(* the workspaces in step with the revision numbers that approval assigns. *)
THEOREM RevisionsAreNumbered ==
    ASSUME ~DeletePublished
    PROVE  Spec => []PublishedAsNamed
<1>1. HistoryInv => PublishedAsNamed
  BY DEF HistoryInv
<1> QED BY <1>1, HistoryHolds, PTL

(* No two tabs ever open a second unpublished revision of the package.     *)
THEOREM OneRevisionOpen ==
    ASSUME ~DeletePublished
    PROVE  Spec => []AtMostOneUnpublished
<1>1. HistoryInv => AtMostOneUnpublished
  <2>1. ASSUME InLine, NEW m \in Workspace, NEW n \in Workspace,
               Unpublished(revision, m), Unpublished(revision, n)
        PROVE  m = n
    BY <2>1, FirstWorkspace DEF InLine, Unpublished
  <2> QED BY <2>1 DEF HistoryInv, AtMostOneUnpublished
<1> QED BY <1>1, HistoryHolds, PTL

(* Tabs that race over stale copies still produce one line of history:     *)
(* every behaviour of the pages is one of PackageHistory.                  *)
THEOREM PagesKeepHistory ==
    ASSUME ~DeletePublished
    PROVE  Spec => OneLineOfHistory
<1>1. Init => History!Init
  BY InitHistory
<1>2. TypeOK /\ VersionsInv /\ HistoryInv /\ [Next]_vars => [History!Next]_(History!historyVars)
  <2> SUFFICES ASSUME TypeOK, VersionsInv, HistoryInv, [Next]_vars
               PROVE  History!Next \/ UNCHANGED History!historyVars
    OBVIOUS
  <2>1. CASE UNCHANGED porchVars
    BY <2>1 DEF porchVars, History!historyVars
  <2> QED BY <2>1, HistorySteps, ContinuesIsStep, GivenUpIsStep
<1> QED BY <1>1, <1>2, HistoryHolds, PTL DEF Spec, OneLineOfHistory, History!Spec
=============================================================================
