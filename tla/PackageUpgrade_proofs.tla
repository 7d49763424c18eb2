------------------------- MODULE PackageUpgrade_proofs -------------------------
(* Proofs about PackageUpgrade, for any packages, blueprints and bounds. *)
EXTENDS PackageUpgrade, WellFoundedInduction, TLAPS

-----------------------------------------------------------------------------
(* The latest revision of a blueprint *)

(* A set of revision numbers has a greatest one. *)
LEMMA GreatestExists ==
    ASSUME NEW N \in Nat, NEW S \in SUBSET (1..N), S # {}
    PROVE  \E n \in S : \A m \in S : m <= n
<1> DEFINE R == OpToRel(<, Nat)
           T == {N - n : n \in S}
<1>1. IsWellFoundedOn(R, Nat)
    BY NatLessThanWellFounded
<1>2. \A n \in S : n \in Nat /\ N - n \in Nat
    OBVIOUS
<1>3. T \subseteq Nat
    BY <1>2
<1>4. T # {}
    OBVIOUS
<1>5. PICK x \in T : \A y \in T : ~(<<y, x>> \in R)
    <2> HIDE DEF R, T
    <2>1. QED BY <1>1, <1>3, <1>4, WFMin
<1>6. \A y \in T : ~(y < x)
    BY <1>3, <1>5 DEF OpToRel
<1>7. PICK n \in S : x = N - n
    OBVIOUS
<1>8. ASSUME NEW m \in S PROVE m <= n
    <2>1. ~(N - m < N - n)
        BY <1>6, <1>7
    <2>2. m \in Int /\ n \in Int /\ N \in Int
        BY <1>2
    <2> HIDE DEF R, T
    <2>3. QED BY <2>1, <2>2
<1>9. QED BY <1>8

LEMMA LatestTagIsGreatest ==
    ASSUME TypeOK, NEW b \in Blueprint, tags[b] # {}
    PROVE  LatestTag(b) \in tags[b] /\ \A m \in tags[b] : m <= LatestTag(b)
<1>1. \E n \in tags[b] : \A m \in tags[b] : m <= n
    BY GreatestExists, UpgradeBoundsAssumption DEF TypeOK, Tag
<1>2. QED BY <1>1 DEF LatestTag

-----------------------------------------------------------------------------
(* What a page may hold, and what it offers *)

RevisionOK(r) == r \in Name /\ r.number <= Len(locks[r.package])

PageOK(p) ==
    /\ p \in Page
    /\ \A r \in p.loads \union {p.at, p.shown} : r.number <= Len(locks[r.package])

Newer(l, m) == l.blueprint = m.blueprint /\ m.tag < l.tag

(* The upgrade offered is to a newer revision of the blueprint of the      *)
(* package shown.                                                          *)
Offer(p) == ~p.crashed /\ p.upgrade => Newer(p.ref, LockOf(p.shown))

IInv == TypeOK /\ HistoryAscends /\ Offer(page)

LEMMA TypePageOK == TypeOK => PageOK(page)
BY DEF TypeOK, PageOK

LEMMA PageRevisions ==
    ASSUME NEW p, PageOK(p)
    PROVE  /\ RevisionOK(p.at) /\ RevisionOK(p.shown)
           /\ \A r \in p.loads : RevisionOK(r)
BY DEF PageOK, RevisionOK, Page

LEMMA LockOfType ==
    ASSUME TypeOK, NEW r, RevisionOK(r)
    PROVE  LockOf(r) \in Lock
<1>1. r.package \in Package /\ r.number \in 1..Len(locks[r.package])
    BY DEF TypeOK, RevisionOK, Name
<1>2. locks[r.package] \in Seq(Lock)
    BY <1>1 DEF TypeOK
<1>3. QED BY <1>1, <1>2 DEF LockOf

LEMMA RenderedOK ==
    ASSUME NEW p, PageOK(p)
    PROVE  /\ PageOK(Rendered(p))
           /\ Offer(p) => Offer(Rendered(p))
           /\ Rendered(p).upgrade = p.upgrade /\ Rendered(p).ref = p.ref
           /\ Rendered(p).shown = p.shown
<1>1. (p.crashed \/ (~Loading(p) /\ p.upgrade /\ ~p.summary)) \in BOOLEAN
    OBVIOUS
<1> DEFINE c == p.crashed \/ (~Loading(p) /\ p.upgrade /\ ~p.summary)
<1>2. Rendered(p) = [p EXCEPT !.crashed = c]
    BY DEF Rendered
<1>3. ~c => ~p.crashed
    OBVIOUS
<1>4. c \in BOOLEAN
    BY <1>1
<1> HIDE DEF c
<1>5. QED BY <1>2, <1>3, <1>4 DEF PageOK, Page, Offer

(* A load offers an upgrade only to the latest revision that it has put    *)
(* into the ref, for the revision that it shows.                           *)
LEMMA LoadedOK ==
    ASSUME TypeOK, NEW p, PageOK(p), NEW r, RevisionOK(r)
    PROVE  PageOK(Loaded(p, r)) /\ Offer(Loaded(p, r))
<1>1. LockOf(r) \in Lock
    BY LockOfType
<1>2. ASSUME UpstreamFound(p, r)
      PROVE  /\ LatestUpstream(r) \in Lock
             /\ LatestUpstream(r).blueprint = LockOf(r).blueprint
             /\ LatestUpstream(r).tag >= LockOf(r).tag
    <2> DEFINE b == LockOf(r).blueprint
    <2>1. b \in Blueprint /\ LockOf(r).tag \in tags[b]
        BY <1>1, <1>2 DEF UpstreamFound, Lock
    <2>2. LatestTag(b) \in tags[b] /\ LockOf(r).tag <= LatestTag(b)
        BY <2>1, LatestTagIsGreatest
    <2>3. LatestTag(b) \in 0..MaxTag /\ LockOf(r).tag \in 0..MaxTag
        BY <1>1, <2>1, <2>2, UpgradeBoundsAssumption DEF TypeOK, Tag, Lock
    <2>4. LatestUpstream(r) = [blueprint |-> b, tag |-> LatestTag(b)]
        BY DEF LatestUpstream
    <2> HIDE DEF b
    <2>5. LatestUpstream(r) \in Lock /\ LatestUpstream(r).tag >= LockOf(r).tag
        BY <2>1, <2>2, <2>3, <2>4 DEF Lock
    <2>6. LatestUpstream(r).blueprint = b
        BY <2>4
    <2>7. QED BY <2>5, <2>6 DEF b
<1> DEFINE q == UpstreamLoaded(p, r)
           l == r = Newest(r.package) /\ ~draft[r.package]
<1>3. UpstreamRef(p, r) \in Lock
    BY <1>2 DEF UpstreamRef, PageOK, Page
<1>4. UpstreamFound(p, r) \in BOOLEAN
    BY DEF UpstreamFound, PageOK, Page
<1>5. l \in BOOLEAN
    BY DEF RevisionOK, Name, TypeOK
<1>6. q = [p EXCEPT !.shown = r, !.latest = l, !.ref = UpstreamRef(p, r),
                    !.summary = UpstreamFound(p, r)]
    BY DEF UpstreamLoaded
<1>7. PageOK(q) /\ q.ref = UpstreamRef(p, r) /\ q.shown = r
    <2> HIDE DEF q, l
    <2>1. QED BY <1>3, <1>4, <1>5, <1>6 DEF PageOK, Page, RevisionOK
<1> DEFINE c == Rendered(q)
           u == UpgradeAvailable(p, r)
<1>8. PageOK(c) /\ c.ref = UpstreamRef(p, r) /\ c.shown = r
    <2> HIDE DEF q
    <2>1. QED BY <1>7, RenderedOK
<1>9. Loaded(p, r) = IF c.crashed THEN c ELSE [c EXCEPT !.upgrade = u]
    BY DEF Loaded
<1>10. u \in BOOLEAN
    BY DEF UpgradeAvailable
<1>11. u => Newer(UpstreamRef(p, r), LockOf(r))
    <2>1. ASSUME u PROVE Newer(UpstreamRef(p, r), LockOf(r))
        <3>1. UpstreamFound(p, r) /\ LockOf(r) # LatestUpstream(r)
            BY <2>1 DEF UpgradeAvailable
        <3>2. UpstreamRef(p, r) = LatestUpstream(r)
            BY <2>1 DEF UpgradeAvailable, UpstreamRef
        <3>3. LatestUpstream(r).tag # LockOf(r).tag
            BY <1>1, <1>2, <3>1 DEF Lock
        <3>4. QED BY <1>1, <1>2, <3>1, <3>2, <3>3, UpgradeBoundsAssumption DEF Newer, Lock
    <2>2. QED BY <2>1
<1> HIDE DEF c, u
<1>12. CASE c.crashed
    BY <1>8, <1>9, <1>12 DEF Offer
<1>13. CASE ~c.crashed
    <2>1. Loaded(p, r) = [c EXCEPT !.upgrade = u]
        BY <1>9, <1>13
    <2>2. PageOK([c EXCEPT !.upgrade = u])
        BY <1>8, <1>10 DEF PageOK, Page
    <2>3. Offer([c EXCEPT !.upgrade = u])
        BY <1>8, <1>11 DEF Offer, PageOK, Page
    <2>4. QED BY <2>1, <2>2, <2>3
<1>14. QED BY <1>12, <1>13

LEMMA VisitedOK ==
    ASSUME NEW p, PageOK(p), NEW r, RevisionOK(r)
    PROVE  PageOK(Visited(p, r)) /\ (Offer(p) => Offer(Visited(p, r)))
<1> DEFINE L == IF "revisions" \in p.waits THEN p.loads \union {p.at} ELSE p.loads
<1>1. Visited(p, r) = [p EXCEPT !.at = r, !.waits = {"repositories", "revisions"},
                                !.loads = L]
    BY DEF Visited
<1>2. L \in SUBSET Name /\ \A s \in L : s.number <= Len(locks[s.package])
    BY DEF PageOK, Page
<1> HIDE DEF L
<1>3. QED BY <1>1, <1>2 DEF PageOK, Page, Offer, RevisionOK

LEMMA OpenedOK ==
    ASSUME TypeOK, NEW r, RevisionOK(r)
    PROVE  PageOK(Opened(r)) /\ Offer(Opened(r))
<1>1. LockOf(r).blueprint \in Blueprint
    BY LockOfType DEF Lock
<1>2. QED
    BY <1>1, UpgradeBoundsAssumption DEF Opened, PageOK, Page, Lock, Offer, RevisionOK

-----------------------------------------------------------------------------
(* Steps *)

(* A step that creates no revision has to keep the page in order. *)
LEMMA SameHistories ==
    ASSUME IInv, UNCHANGED locks,
           tags' \in [Blueprint -> SUBSET Tag], draft' \in [Package -> BOOLEAN],
           PageOK(page'), Offer(page')
    PROVE  IInv'
<1>1. TypeOK'
    BY DEF IInv, TypeOK, PageOK
<1>2. HistoryAscends'
    BY DEF IInv, HistoryAscends
<1>3. Offer(page)'
    BY DEF Offer, LockOf, Newer
<1>4. QED BY <1>1, <1>2, <1>3 DEF IInv

(* A revision with a lock that is not older than the last one's prolongs   *)
(* the history of its package, and no revision that was there changes.     *)
LEMMA Prolonged ==
    ASSUME IInv, NEW p \in Package, NEW l \in Lock, Len(locks[p]) < MaxRevision,
           l.blueprint = LockOf(Newest(p)).blueprint,
           l.tag >= LockOf(Newest(p)).tag,
           locks' = [locks EXCEPT ![p] = Append(@, l)]
    PROVE  /\ locks' \in [Package -> Seq(Lock)]
           /\ \A q \in Package : Len(locks'[q]) \in 1..MaxRevision
           /\ HistoryAscends'
           /\ \A r : RevisionOK(r) => RevisionOK(r)' /\ LockOf(r)' = LockOf(r)
           /\ Len(locks'[p]) = Len(locks[p]) + 1
<1> DEFINE s == locks[p]
<1>1. s \in Seq(Lock) /\ Len(s) \in 1..MaxRevision /\ Len(s) \in Nat
    BY UpgradeBoundsAssumption DEF IInv, TypeOK
<1>2. locks \in [Package -> Seq(Lock)]
    BY DEF IInv, TypeOK
<1>3. /\ locks'[p] = Append(s, l) /\ \A q \in Package \ {p} : locks'[q] = locks[q]
      /\ locks' \in [Package -> Seq(Lock)]
    BY <1>1, <1>2
<1>4. /\ Len(Append(s, l)) = Len(s) + 1
      /\ \A i \in 1..Len(s) : Append(s, l)[i] = s[i]
      /\ Append(s, l)[Len(s) + 1] = l
    BY <1>1
<1>5. \A q \in Package : Len(locks'[q]) \in 1..MaxRevision
    BY <1>1, <1>3, <1>4, UpgradeBoundsAssumption DEF IInv, TypeOK
<1>6. ASSUME NEW r, RevisionOK(r) PROVE RevisionOK(r)' /\ LockOf(r)' = LockOf(r)
    <2>1. r.package \in Package /\ r.number \in 1..Len(locks[r.package])
        BY <1>6 DEF RevisionOK, Name, IInv, TypeOK
    <2>2. CASE r.package = p
        <3>1. r.number <= Len(s) + 1
            BY <1>1, <2>1, <2>2
        <3>2. QED BY <1>3, <1>4, <1>6, <2>1, <2>2, <3>1 DEF RevisionOK, LockOf
    <2>3. CASE r.package # p
        BY <1>3, <1>6, <2>1, <2>3 DEF RevisionOK, LockOf
    <2>4. QED BY <2>2, <2>3
<1>7. HistoryAscends'
    <2>1. SUFFICES ASSUME NEW q \in Package, NEW i \in 1..Len(locks'[q]),
                          NEW j \in 1..Len(locks'[q]), i < j
                   PROVE  /\ locks'[q][i].blueprint = locks'[q][j].blueprint
                          /\ locks'[q][i].tag <= locks'[q][j].tag
        BY DEF HistoryAscends
    <2>2. CASE q # p
        BY <1>3, <2>1, <2>2 DEF IInv, HistoryAscends
    <2>3. CASE q = p /\ j <= Len(s)
        <3>1. i \in 1..Len(s) /\ j \in 1..Len(s)
            BY <1>1, <1>3, <1>4, <2>1, <2>3
        <3>2. QED BY <1>3, <1>4, <2>1, <2>3, <3>1 DEF IInv, HistoryAscends
    <2>4. CASE q = p /\ j = Len(s) + 1
        <3>1. i \in 1..Len(s) /\ Len(s) \in 1..Len(s)
            BY <1>1, <1>3, <1>4, <2>1, <2>4
        <3>2. s[i] \in Lock /\ s[Len(s)] \in Lock
            BY <1>1, <3>1
        <3>3. /\ s[i].blueprint = s[Len(s)].blueprint
              /\ s[i].tag <= s[Len(s)].tag
            <4>1. CASE i = Len(s)
                BY <3>2, <4>1, UpgradeBoundsAssumption DEF Lock
            <4>2. CASE i < Len(s)
                BY <3>1, <4>2 DEF IInv, HistoryAscends
            <4>3. QED BY <1>1, <3>1, <4>1, <4>2
        <3>4. LockOf(Newest(p)) = s[Len(s)]
            BY DEF LockOf, Newest
        <3>5. s[i].tag \in Int /\ s[Len(s)].tag \in Int /\ l.tag \in Int
            BY <3>2, UpgradeBoundsAssumption DEF Lock
        <3>6. s[i].blueprint = l.blueprint /\ s[i].tag <= l.tag
            <4> HIDE DEF s
            <4>1. QED BY <3>3, <3>4, <3>5
        <3>7. QED BY <1>3, <1>4, <2>4, <3>1, <3>6
    <2>5. QED BY <1>1, <1>3, <1>4, <2>1, <2>2, <2>3, <2>4
<1>8. QED BY <1>3, <1>4, <1>5, <1>6, <1>7

LEMMA CreateRevisionStep ==
    ASSUME IInv, NEW l \in Lock, CreateRevision(l),
           l.blueprint = LockOf(page.shown).blueprint,
           l.tag >= LockOf(page.shown).tag
    PROVE  IInv'
<1>0. PICK r : r = page.shown
    OBVIOUS
<1> DEFINE p == r.package
           s == [r EXCEPT !.number = NextNumber(r)]
<1>1. PageOK(page) /\ RevisionOK(r)
    BY <1>0, TypePageOK, PageRevisions DEF IInv
<1>2. r \in Name /\ p \in Package /\ r.number \in Nat
    BY <1>1, UpgradeBoundsAssumption DEF RevisionOK, Name
<1>3. /\ NextNumber(r) = Len(locks[p]) + 1 /\ NextNumber(r) <= MaxRevision
      /\ locks' = [locks EXCEPT ![p] = Append(@, l)]
      /\ draft' = [draft EXCEPT ![p] = TRUE]
      /\ page' = Visited(page, s)
      /\ UNCHANGED tags
    BY <1>0 DEF CreateRevision
<1>4. Len(locks[p]) \in Nat
    BY <1>2 DEF IInv, TypeOK
<1>5. r.number = Len(locks[p]) /\ Len(locks[p]) < MaxRevision
    BY <1>2, <1>3, <1>4, UpgradeBoundsAssumption DEF NextNumber
<1>6. Newest(p) = r
    BY <1>2, <1>5 DEF Newest, Name
<1> HIDE DEF p
<1>7. /\ locks' \in [Package -> Seq(Lock)]
      /\ \A q \in Package : Len(locks'[q]) \in 1..MaxRevision
      /\ HistoryAscends'
      /\ \A t : RevisionOK(t) => RevisionOK(t)' /\ LockOf(t)' = LockOf(t)
      /\ Len(locks'[p]) = Len(locks[p]) + 1
    <2>1. l.blueprint = LockOf(Newest(p)).blueprint /\ l.tag >= LockOf(Newest(p)).tag
        BY <1>0, <1>6
    <2>2. QED BY <1>2, <1>3, <1>5, <2>1, Prolonged
<1>8. s \in Name /\ s.number = Len(locks[p]) + 1 /\ s.package = p
    <2> DEFINE n == NextNumber(r)
    <2>1. n \in 1..MaxRevision /\ n = Len(locks[p]) + 1
        BY <1>2, <1>3, <1>4, UpgradeBoundsAssumption DEF NextNumber
    <2>2. s = [r EXCEPT !.number = n] /\ r.package = p
        BY DEF p
    <2> HIDE DEF n, s
    <2>3. QED BY <1>2, <2>1, <2>2 DEF Name
<1>9. RevisionOK(s)'
    BY <1>4, <1>7, <1>8 DEF RevisionOK
<1> DEFINE L == IF "revisions" \in page.waits THEN page.loads \union {page.at} ELSE page.loads
<1>10. page' = [page EXCEPT !.at = s, !.waits = {"repositories", "revisions"},
                           !.loads = L]
    BY <1>3 DEF Visited
<1>11. L \in SUBSET Name /\ \A t \in L : RevisionOK(t)
    BY <1>1, PageRevisions DEF PageOK, Page
<1> HIDE DEF L, s
<1>12. page' \in Page
    BY <1>1, <1>8, <1>10, <1>11 DEF PageOK, Page
<1>13. /\ page'.at = s /\ page'.loads = L /\ page'.shown = r
       /\ page'.crashed = page.crashed /\ page'.upgrade = page.upgrade
       /\ page'.ref = page.ref
    BY <1>0, <1>1, <1>10 DEF PageOK, Page
<1>14. \A t \in page'.loads \union {page'.at, page'.shown} :
          t.number <= Len(locks'[t.package])
    <2>1. RevisionOK(r)' /\ \A t \in L : RevisionOK(t)'
        BY <1>1, <1>7, <1>11
    <2>2. QED BY <1>9, <1>13, <2>1 DEF RevisionOK
<1>15. draft' \in [Package -> BOOLEAN]
    BY <1>3 DEF IInv, TypeOK
<1>16. TypeOK'
    BY <1>3, <1>7, <1>12, <1>14, <1>15 DEF IInv, TypeOK
<1>17. Offer(page)'
    <2>1. LockOf(r)' = LockOf(page.shown)
        BY <1>0, <1>1, <1>7
    <2>2. LockOf(page.shown)' = LockOf(page.shown)
        BY <1>13, <2>1 DEF LockOf
    <2>3. QED BY <1>13, <2>2 DEF IInv, Offer, Newer
<1>18. QED BY <1>7, <1>16, <1>17 DEF IInv

LEMMA CreateElsewhereStep ==
    ASSUME IInv, NEW p \in Package, CreateElsewhere(p)
    PROVE  IInv'
<1> DEFINE m == LockOf(Newest(p))
<1>1. PICK n \in {m.tag} \union tags[m.blueprint] :
         /\ n >= m.tag
         /\ locks' = [locks EXCEPT ![p] = Append(@, [m EXCEPT !.tag = n])]
    BY DEF CreateElsewhere
<1>2. RevisionOK(Newest(p))
    BY DEF IInv, TypeOK, Newest, RevisionOK, Name
<1>3. m \in Lock
    BY <1>2, LockOfType DEF IInv
<1>4. [m EXCEPT !.tag = n] \in Lock /\ [m EXCEPT !.tag = n].tag >= m.tag
      /\ [m EXCEPT !.tag = n].blueprint = m.blueprint
    <2>1. n \in 0..MaxTag
        BY <1>1, <1>3, UpgradeBoundsAssumption DEF IInv, TypeOK, Lock, Tag
    <2> HIDE DEF m
    <2>2. QED BY <1>1, <1>3, <2>1 DEF Lock
<1>5. Len(locks[p]) < MaxRevision /\ UNCHANGED <<tags, page>>
      /\ draft' = [draft EXCEPT ![p] = TRUE]
    BY DEF CreateElsewhere
<1> DEFINE l == [m EXCEPT !.tag = n]
<1> HIDE DEF l
<1>6. /\ locks' \in [Package -> Seq(Lock)]
      /\ \A q \in Package : Len(locks'[q]) \in 1..MaxRevision
      /\ HistoryAscends'
      /\ \A t : RevisionOK(t) => RevisionOK(t)' /\ LockOf(t)' = LockOf(t)
    BY <1>1, <1>4, <1>5, Prolonged DEF l
<1>7. \A t \in page.loads \union {page.at, page.shown} : RevisionOK(t)
    BY TypePageOK, PageRevisions DEF IInv
<1>8. TypeOK'
    BY <1>5, <1>6, <1>7 DEF IInv, TypeOK, RevisionOK
<1>9. Offer(page)'
    BY <1>5, <1>6, <1>7 DEF IInv, Offer, Newer
<1>10. QED BY <1>6, <1>8, <1>9 DEF IInv

LEMMA NextIInv == IInv /\ [Next]_vars => IInv'
<1> SUFFICES ASSUME IInv, [Next]_vars PROVE IInv'
    OBVIOUS
<1>1. PageOK(page) /\ Offer(page) /\ TypeOK
    BY TypePageOK DEF IInv
<1>2. ASSUME UNCHANGED <<tags, locks, draft>>, PageOK(page'), Offer(page') PROVE IInv'
    BY <1>1, <1>2, SameHistories DEF TypeOK
<1>3. ASSUME UNCHANGED <<locks, page>>,
             tags' \in [Blueprint -> SUBSET Tag], draft' \in [Package -> BOOLEAN]
      PROVE  IInv'
    BY <1>1, <1>3, SameHistories
<1>4. ASSUME NEW b \in Blueprint, PublishBlueprint(b) \/ DeleteBlueprint(b) PROVE IInv'
    <2>1. UNCHANGED <<locks, draft, page>>
        BY <1>4 DEF PublishBlueprint, DeleteBlueprint
    <2>2. tags' \in [Blueprint -> SUBSET Tag]
        BY <1>1, <1>4 DEF PublishBlueprint, DeleteBlueprint, TypeOK
    <2>3. QED BY <1>1, <1>3, <2>1, <2>2 DEF TypeOK
<1>5. ASSUME NEW p \in Package, ApproveElsewhere(p) PROVE IInv'
    BY <1>1, <1>3, <1>5 DEF ApproveElsewhere, TypeOK
<1>6. ASSUME NEW r \in Name, Visit(r) PROVE IInv'
    <2>1. RevisionOK(r)
        BY <1>6 DEF Visit, Exists, RevisionOK
    <2>2. /\ PageOK(Opened(r)) /\ Offer(Opened(r))
          /\ PageOK(Visited(page, r)) /\ Offer(Visited(page, r))
        BY <1>1, <2>1, OpenedOK, VisitedOK
    <2>3. QED BY <1>2, <1>6, <2>2 DEF Visit
<1>7. ASSUME NEW r \in Name, EndOtherLoad(r) PROVE IInv'
    <2> DEFINE p == [page EXCEPT !.loads = @ \ {r}]
    <2>1. PageOK(p) /\ RevisionOK(r)
        BY <1>1, <1>7, PageRevisions DEF EndOtherLoad, PageOK, Page
    <2>2. page' = Rendered(Loaded(p, r)) /\ UNCHANGED <<tags, locks, draft>>
        BY <1>7 DEF EndOtherLoad
    <2> HIDE DEF p
    <2>3. QED BY <1>1, <1>2, <2>1, <2>2, LoadedOK, RenderedOK
<1>8. CASE AnswerRepositories
    <2> DEFINE p == [page EXCEPT !.waits = @ \ {"repositories"}, !.repositories = TRUE]
    <2>1. PageOK(p) /\ Offer(p)
        BY <1>1 DEF PageOK, Page, Offer
    <2>2. page' = Rendered(p) /\ UNCHANGED <<tags, locks, draft>>
        BY <1>8 DEF AnswerRepositories
    <2> HIDE DEF p
    <2>3. QED BY <1>2, <2>1, <2>2, RenderedOK
<1>9. CASE EndLoad
    <2> DEFINE q == Loaded(page, page.at)
               p == [q EXCEPT !.waits = @ \ {"revisions"}]
    <2>1. PageOK(q) /\ Offer(q)
        BY <1>1, LoadedOK, PageRevisions
    <2>2. page' = Rendered(p) /\ UNCHANGED <<tags, locks, draft>>
        BY <1>9 DEF EndLoad
    <2> HIDE DEF q
    <2>3. PageOK(p) /\ Offer(p)
        BY <2>1 DEF PageOK, Page, Offer
    <2> HIDE DEF p
    <2>4. QED BY <1>2, <2>2, <2>3, RenderedOK
<1>10. CASE CreateUpgradeRevision
    <2>1. Newer(page.ref, LockOf(page.shown)) /\ CreateRevision(page.ref)
        BY <1>1, <1>10 DEF CreateUpgradeRevision, Ready, Offer
    <2>2. page.ref \in Lock /\ LockOf(page.shown) \in Lock
        BY <1>1, LockOfType, PageRevisions DEF PageOK, Page
    <2>3. page.ref.tag >= LockOf(page.shown).tag
        BY <2>1, <2>2, UpgradeBoundsAssumption DEF Newer, Lock
    <2>4. QED BY <2>1, <2>2, <2>3, CreateRevisionStep DEF Newer
<1>11. CASE CreateNewRevision
    <2>1. LockOf(page.shown) \in Lock
        BY <1>1, LockOfType, PageRevisions
    <2>2. LockOf(page.shown).tag >= LockOf(page.shown).tag
        BY <2>1, UpgradeBoundsAssumption DEF Lock
    <2>3. QED BY <1>11, <2>1, <2>2, CreateRevisionStep DEF CreateNewRevision
<1>12. CASE Approve
    <2> DEFINE p == [page EXCEPT !.loads = @ \union {page.shown}]
    <2>1. page' = p /\ UNCHANGED <<tags, locks>>
          /\ draft' \in [Package -> BOOLEAN]
        BY <1>1, <1>12 DEF Approve, TypeOK
    <2>2. PageOK(p) /\ Offer(p)
        BY <1>1 DEF PageOK, Page, Offer
    <2> HIDE DEF p
    <2>3. QED BY <1>1, <2>1, <2>2, SameHistories DEF TypeOK
<1>13. CASE UNCHANGED vars
    BY <1>1, <1>3, <1>13 DEF vars, TypeOK
<1>14. QED
    BY <1>4, <1>5, <1>6, <1>7, <1>8, <1>9, <1>10, <1>11, <1>12, <1>13,
       CreateElsewhereStep DEF Next

LEMMA InitIInv == Init => IInv
<1> SUFFICES ASSUME Init PROVE IInv
    OBVIOUS
<1>1. tags \in [Blueprint -> SUBSET Tag]
    BY UpgradeBoundsAssumption DEF Init, Tag
<1>2. \A p \in Package : \E l \in Lock : locks[p] = <<l>>
    BY UpgradeBoundsAssumption DEF Init, Lock
<1>3. /\ locks \in [Package -> Seq(Lock)]
      /\ \A p \in Package : Len(locks[p]) = 1
    <2>1. ASSUME NEW p \in Package
          PROVE  locks[p] \in Seq(Lock) /\ Len(locks[p]) = 1
        <3>1. PICK l \in Lock : locks[p] = <<l>>
            BY <1>2
        <3>2. QED BY <3>1
    <2>2. PICK S : locks \in [Package -> S]
        BY DEF Init
    <2>3. QED BY <2>1, <2>2
<1>4. draft \in [Package -> BOOLEAN]
    BY DEF Init
<1>5. \A p \in Package : Len(locks[p]) \in 1..MaxRevision
    <2>1. 1 \in 1..MaxRevision
        BY UpgradeBoundsAssumption
    <2>2. QED BY <1>3, <2>1
<1>6. PICK p \in Package : page = Opened([package |-> p, number |-> 1])
    BY DEF Init
<1> DEFINE r == [package |-> p, number |-> 1]
<1>7. RevisionOK(r)
    BY <1>3, UpgradeBoundsAssumption DEF RevisionOK, Name
<1>8. LockOf(r).blueprint \in Blueprint
    BY <1>2 DEF LockOf, Lock
<1>9. PageOK(page) /\ Offer(page)
    <2> HIDE DEF r
    <2>1. PageOK(Opened(r)) /\ Offer(Opened(r))
        BY <1>7, <1>8, UpgradeBoundsAssumption
           DEF Opened, PageOK, Page, Lock, Offer, RevisionOK
    <2>2. QED BY <1>6, <2>1 DEF r
<1>10. HistoryAscends
    BY <1>3 DEF HistoryAscends
<1>11. QED BY <1>1, <1>3, <1>4, <1>5, <1>9, <1>10 DEF IInv, TypeOK, PageOK

(***************************************************************************)
(* Over its revisions a package never changes its blueprint, nor goes back *)
(* to an older revision of it, whatever loads are overtaken.               *)
(***************************************************************************)
THEOREM HistoriesAscend == Spec => []HistoryAscends
<1>1. IInv => HistoryAscends
    BY DEF IInv
<1>2. QED BY InitIInv, NextIInv, <1>1, PTL DEF Spec

(***************************************************************************)
(* Type correctness; the revisions that a page is about exist.             *)
(***************************************************************************)
THEOREM UpgradeTypeCorrect == Spec => []TypeOK
<1>1. IInv => TypeOK
    BY DEF IInv
<1>2. QED BY InitIInv, NextIInv, <1>1, PTL DEF Spec

=============================================================================
