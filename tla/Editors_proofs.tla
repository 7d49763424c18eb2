----------------------------- MODULE Editors_proofs -----------------------------
(***************************************************************************)
(* Proofs about the editors that EditorForms leaves to modules of their    *)
(* own, for any catalog of functions and any texts that are typed.         *)
(***************************************************************************)
EXTENDS KptFunctionEditor, EditorList, WorkloadEditor, ParametricEditor,
        FiniteSetTheorems, WellFoundedInduction, TLAPS

-----------------------------------------------------------------------------
(* Numbers                                                                  *)

(* A nonempty set of natural numbers has a least one.                       *)
LEMMA LeastExists ==
    ASSUME NEW S \in SUBSET Nat, S # {}
    PROVE  \E n \in S : \A m \in S : n <= m
<1> DEFINE R == OpToRel(<, Nat)
<1>1. IsWellFoundedOn(R, Nat)
    BY NatLessThanWellFounded
<1>2. PICK n \in S : \A m \in S : ~ (<<m, n>> \in R)
    <2> HIDE DEF R
    <2>1. QED BY <1>1, WFMin
<1>3. ASSUME NEW m \in S PROVE n <= m
    <2>1. ~ (m < n)
        BY <1>2 DEF OpToRel
    <2>2. m \in Nat /\ n \in Nat
        OBVIOUS
    <2> HIDE DEF R
    <2>3. QED BY <2>1, <2>2
<1>4. QED BY <1>3

(* Numbers in a set that has zero, and with a number the next.              *)
CountsUp(G, k) == 0 \in G /\ \A n \in 1 .. k : (n - 1) \in G => n \in G

LEMMA CountingUp ==
    ASSUME NEW k \in Nat, NEW G, CountsUp(G, k)
    PROVE  k \in G
<1> DEFINE B == {n \in 0 .. k : n \notin G}
<1>1. CASE B = {}
    BY <1>1
<1>2. CASE B # {}
    <2>1. PICK n \in B : \A m \in B : n <= m
        <3>1. B \in SUBSET Nat
            OBVIOUS
        <3> HIDE DEF B
        <3>2. QED BY <1>2, <3>1, LeastExists
    <2>2. n \in 1 .. k /\ n - 1 \in 0 .. k
        BY DEF CountsUp
    <2>3. n - 1 \notin B
        BY <2>1, <2>2
    <2>4. QED BY <2>2, <2>3 DEF CountsUp
<1>3. QED BY <1>1, <1>2

-----------------------------------------------------------------------------
(* Lists with deleted elements                                              *)

\* f has the elements that are in S, of the first n elements of the list
FirstChosen(f, list, S, k) ==
  /\ f[0] = <<>>
  /\ \A n \in 1 .. k : f[n] = IF list[n] \in S THEN Append(f[n - 1], list[n]) ELSE f[n - 1]

RecursionOf(f, list, S, k) ==
  f = [n \in 0 .. k |-> IF n = 0 THEN <<>>
                        ELSE IF list[n] \in S THEN Append(f[n - 1], list[n]) ELSE f[n - 1]]

(* What Among defines by recursion exists.                                  *)
LEMMA PrefixesExist ==
    ASSUME NEW list, NEW S, NEW k \in Nat
    PROVE  \E f : RecursionOf(f, list, S, k)
<1> USE DEF RecursionOf
<1> DEFINE Is(f, m) == RecursionOf(f, list, S, m)
           G == {m \in Nat : \E f : Is(f, m)}
<1>1. 0 \in G
    <2>1. Is([n \in 0 .. 0 |-> <<>>], 0)
        OBVIOUS
    <2>2. QED BY <2>1
<1>2. ASSUME NEW m \in 1 .. k, (m - 1) \in G PROVE m \in G
    <2>1. PICK g : Is(g, m - 1)
        BY <1>2
    <2> DEFINE h == [n \in 0 .. m |-> IF n < m THEN g[n]
                                      ELSE IF list[m] \in S THEN Append(g[m - 1], list[m])
                                      ELSE g[m - 1]]
    <2>2. Is(h, m)
        <3> SUFFICES ASSUME NEW n \in 0 .. m
                     PROVE  h[n] = IF n = 0 THEN <<>>
                                   ELSE IF list[n] \in S THEN Append(h[n - 1], list[n])
                                   ELSE h[n - 1]
            OBVIOUS
        <3>1. n > 0 => h[n - 1] = g[n - 1]
            OBVIOUS
        <3>2. h[n] = IF n < m THEN g[n]
                     ELSE IF list[m] \in S THEN Append(g[m - 1], list[m]) ELSE g[m - 1]
            OBVIOUS
        <3>3. n < m => n \in 0 .. (m - 1)
            OBVIOUS
        <3>4. \A i \in 0 .. (m - 1) : g[i] = IF i = 0 THEN <<>>
                                             ELSE IF list[i] \in S THEN Append(g[i - 1], list[i])
                                             ELSE g[i - 1]
            BY <2>1
        <3> HIDE DEF h
        <3>5. CASE n < m
            BY <3>1, <3>2, <3>3, <3>4, <3>5
        <3>6. CASE n = m
            <4>1. n # 0 /\ n > 0 /\ ~ (n < m)
                BY <3>6
            <4>2. QED BY <3>1, <3>2, <3>6, <4>1
        <3>7. QED BY <3>5, <3>6
    <2> HIDE DEF Is, h
    <2>3. QED BY <1>2, <2>2
<1>3. k \in G
    <2>1. CountsUp(G, k)
        BY <1>1, <1>2 DEF CountsUp
    <2> HIDE DEF G
    <2>2. QED BY <2>1, CountingUp
<1>4. QED BY <1>3

LEMMA AmongIs ==
    ASSUME NEW list, NEW S, Len(list) \in Nat
    PROVE  \E f : FirstChosen(f, list, S, Len(list)) /\ Among(list, S) = f[Len(list)]
<1> DEFINE first == CHOOSE f : RecursionOf(f, list, S, Len(list))
<1>1. RecursionOf(first, list, S, Len(list))
    BY PrefixesExist
<1>2. Among(list, S) = first[Len(list)]
    BY DEF Among, RecursionOf
<1>3. FirstChosen(first, list, S, Len(list))
    <2> HIDE DEF first
    <2>1. \A n \in 0 .. Len(list) :
            first[n] = IF n = 0 THEN <<>>
                       ELSE IF list[n] \in S THEN Append(first[n - 1], list[n]) ELSE first[n - 1]
        BY <1>1 DEF RecursionOf
    <2>2. 0 \in 0 .. Len(list) /\ \A n \in 1 .. Len(list) : n \in 0 .. Len(list) /\ n # 0
        OBVIOUS
    <2>3. QED BY <2>1, <2>2 DEF FirstChosen
<1>4. QED BY <1>2, <1>3

(* The elements chosen depend on what is in the list and on nothing else.   *)
LEMMA PrefixesAgree ==
    ASSUME NEW list, NEW other, NEW S, NEW U, NEW k \in Nat, NEW f, NEW g,
           FirstChosen(f, list, S, k), FirstChosen(g, other, U, k),
           \A n \in 1 .. k : list[n] = other[n] /\ (list[n] \in S <=> other[n] \in U)
    PROVE  f[k] = g[k]
<1> DEFINE G == {n \in Nat : f[n] = g[n]}
<1>1. 0 \in G
    BY DEF FirstChosen
<1>2. ASSUME NEW n \in 1 .. k, (n - 1) \in G PROVE n \in G
    BY <1>2 DEF FirstChosen
<1>3. k \in G
    <2>1. CountsUp(G, k)
        BY <1>1, <1>2 DEF CountsUp
    <2> HIDE DEF G
    <2>2. QED BY <2>1, CountingUp
<1>4. QED BY <1>3

LEMMA AmongEmpty == \A S : Among(<<>>, S) = <<>>
<1> SUFFICES ASSUME NEW S PROVE Among(<<>>, S) = <<>>
    OBVIOUS
<1>1. QED BY AmongIs DEF FirstChosen

LEMMA AmongSame ==
    ASSUME NEW T, NEW list \in Seq(T), NEW S, NEW U, \A x \in T : x \in S <=> x \in U
    PROVE  Among(list, S) = Among(list, U)
<1>1. Len(list) \in Nat /\ \A n \in 1 .. Len(list) : list[n] \in T
    OBVIOUS
<1>2. PICK f : FirstChosen(f, list, S, Len(list)) /\ Among(list, S) = f[Len(list)]
    BY <1>1, AmongIs
<1>3. PICK g : FirstChosen(g, list, U, Len(list)) /\ Among(list, U) = g[Len(list)]
    BY <1>1, AmongIs
<1>4. \A n \in 1 .. Len(list) : list[n] = list[n] /\ (list[n] \in S <=> list[n] \in U)
    BY <1>1
<1>5. QED BY <1>1, <1>2, <1>3, <1>4, PrefixesAgree

LEMMA AmongAppend ==
    ASSUME NEW T, NEW list \in Seq(T), NEW x \in T, NEW S
    PROVE  Among(Append(list, x), S) = IF x \in S THEN Append(Among(list, S), x) ELSE Among(list, S)
<1> DEFINE longer == Append(list, x)
           k == Len(list)
<1>1. /\ k \in Nat /\ Len(longer) = k + 1 /\ longer[k + 1] = x
      /\ \A n \in 1 .. k : longer[n] = list[n]
    OBVIOUS
<1> HIDE DEF longer, k
<1>2. PICK f : FirstChosen(f, list, S, k) /\ Among(list, S) = f[k]
    BY <1>1, AmongIs DEF k
<1>3. PICK g : FirstChosen(g, longer, S, k + 1) /\ Among(longer, S) = g[k + 1]
    BY <1>1, AmongIs
<1>4. FirstChosen(g, longer, S, k)
    BY <1>1, <1>3 DEF FirstChosen
<1>5. f[k] = g[k]
    BY <1>1, <1>2, <1>4, PrefixesAgree
<1>6. k + 1 \in 1 .. (k + 1) /\ (k + 1) - 1 = k
    BY <1>1
<1>7. g[k + 1] = IF longer[k + 1] \in S THEN Append(g[(k + 1) - 1], longer[k + 1]) ELSE g[(k + 1) - 1]
    BY <1>3, <1>6 DEF FirstChosen
<1>8. QED BY <1>1, <1>2, <1>3, <1>5, <1>6, <1>7 DEF longer

(* What is chosen is a list of elements of the set.                         *)
LEMMA PrefixesType ==
    ASSUME NEW T, NEW list \in Seq(T), NEW S, NEW k \in Nat, k <= Len(list),
           NEW f, FirstChosen(f, list, S, k)
    PROVE  f[k] \in Seq(T \cap S)
<1> DEFINE R == T \cap S
           G == {n \in Nat : f[n] \in Seq(R)}
<1>1. \A n \in 1 .. k : list[n] \in S => list[n] \in R
    OBVIOUS
<1> HIDE DEF R
<1>2. 0 \in G
    <2>1. <<>> \in Seq(R)
        OBVIOUS
    <2>2. QED BY <2>1 DEF FirstChosen
<1>3. ASSUME NEW n \in 1 .. k, (n - 1) \in G PROVE n \in G
    <2>1. f[n - 1] \in Seq(R) /\ n \in Nat
        BY <1>3
    <2>2. f[n] = IF list[n] \in S THEN Append(f[n - 1], list[n]) ELSE f[n - 1]
        BY DEF FirstChosen
    <2>3. \A s \in Seq(R), x \in R : Append(s, x) \in Seq(R)
        OBVIOUS
    <2>4. f[n] \in Seq(R)
        BY <1>1, <2>1, <2>2, <2>3
    <2>5. QED BY <2>1, <2>4
<1>4. k \in G
    <2>1. CountsUp(G, k)
        BY <1>2, <1>3 DEF CountsUp
    <2> HIDE DEF G
    <2>2. QED BY <2>1, CountingUp
<1>5. QED BY <1>4 DEF R

LEMMA AmongType ==
    ASSUME NEW T, NEW list \in Seq(T), NEW S
    PROVE  Among(list, S) \in Seq(T \cap S)
<1>1. Len(list) \in Nat /\ Len(list) <= Len(list)
    OBVIOUS
<1>2. PICK f : FirstChosen(f, list, S, Len(list)) /\ Among(list, S) = f[Len(list)]
    BY <1>1, AmongIs
<1>3. QED BY <1>1, <1>2, PrefixesType

(* Choosing all of a list gives the list.                                   *)
LEMMA PrefixesAll ==
    ASSUME NEW T, NEW list \in Seq(T), NEW k \in Nat, k <= Len(list),
           NEW f, FirstChosen(f, list, T, k)
    PROVE  f[k] \in Seq(T) /\ Len(f[k]) = k /\ \A i \in 1 .. k : f[k][i] = list[i]
<1> DEFINE Is(n) == f[n] \in Seq(T) /\ Len(f[n]) = n /\ \A i \in 1 .. n : f[n][i] = list[i]
           G == {n \in Nat : Is(n)}
<1>1. \A n \in 1 .. k : list[n] \in T
    OBVIOUS
<1>2. 0 \in G
    <2>1. <<>> \in Seq(T) /\ Len(<<>>) = 0
        OBVIOUS
    <2>2. f[0] = <<>>
        BY DEF FirstChosen
    <2>3. Is(0)
        BY <2>1, <2>2
    <2> HIDE DEF Is
    <2>4. QED BY <2>3
<1>3. ASSUME NEW n \in 1 .. k, (n - 1) \in G PROVE n \in G
    <2>1. f[n - 1] \in Seq(T) /\ Len(f[n - 1]) = n - 1 /\ \A i \in 1 .. (n - 1) : f[n - 1][i] = list[i]
        BY <1>3
    <2>2. f[n] = IF list[n] \in T THEN Append(f[n - 1], list[n]) ELSE f[n - 1]
        BY DEF FirstChosen
    <2>3. f[n] = Append(f[n - 1], list[n]) /\ list[n] \in T
        BY <1>1, <2>2
    <2> HIDE DEF G
    <2>4. /\ f[n] \in Seq(T) /\ Len(f[n]) = n
          /\ \A i \in 1 .. n : f[n][i] = IF i = n THEN list[n] ELSE f[n - 1][i]
        BY <2>1, <2>3
    <2>5. \A i \in 1 .. n : f[n][i] = list[i]
        BY <2>1, <2>4
    <2>6. n \in Nat /\ Is(n)
        BY <2>4, <2>5
    <2> HIDE DEF Is
    <2>7. QED BY <2>6 DEF G
<1>4. k \in G
    <2>1. CountsUp(G, k)
        BY <1>2, <1>3 DEF CountsUp
    <2> HIDE DEF G
    <2>2. QED BY <2>1, CountingUp
<1>5. QED BY <1>4

LEMMA AmongAll ==
    ASSUME NEW T, NEW list \in Seq(T)
    PROVE  Among(list, T) = list
<1>1. Len(list) \in Nat /\ Len(list) <= Len(list)
    OBVIOUS
<1>2. PICK f : FirstChosen(f, list, T, Len(list)) /\ Among(list, T) = f[Len(list)]
    BY <1>1, AmongIs
<1>3. /\ f[Len(list)] \in Seq(T) /\ Len(f[Len(list)]) = Len(list)
      /\ \A i \in 1 .. Len(list) : f[Len(list)][i] = list[i]
    BY <1>1, <1>2, PrefixesAll
<1>4. QED BY <1>2, <1>3

(* Choosing twice is choosing once.                                         *)
LEMMA AmongTwice ==
    ASSUME NEW T, NEW list \in Seq(T), NEW S
    PROVE  Among(Among(list, S), S) = Among(list, S)
<1>1. Among(list, S) \in Seq(T \cap S)
    BY AmongType
<1>2. Among(list, S) \in Seq(S)
    <2> DEFINE chosen == Among(list, S)
    <2>1. chosen \in Seq(T \cap S)
        BY <1>1
    <2> HIDE DEF chosen
    <2>2. chosen \in Seq(S)
        BY <2>1
    <2>3. QED BY <2>2 DEF chosen
<1>3. QED BY <1>2, AmongAll

(* Where nothing is chosen, nothing of the list is in the set.              *)
LEMMA PrefixesNone ==
    ASSUME NEW T, NEW list \in Seq(T), NEW S, NEW k \in Nat, k <= Len(list),
           NEW f, FirstChosen(f, list, S, k), f[k] = <<>>
    PROVE  \A i \in 1 .. k : list[i] \notin S
<1> DEFINE NoneOf(n) == f[n] \in Seq(T) /\ (f[n] = <<>> => \A i \in 1 .. n : list[i] \notin S)
           G == {n \in Nat : NoneOf(n)}
<1>1. \A n \in 1 .. k : list[n] \in T
    OBVIOUS
<1>2. 0 \in G
    <2>1. f[0] = <<>>
        BY DEF FirstChosen
    <2>2. <<>> \in Seq(T)
        OBVIOUS
    <2>3. NoneOf(0)
        BY <2>1, <2>2
    <2> HIDE DEF NoneOf
    <2>4. QED BY <2>3
<1>3. ASSUME NEW n \in 1 .. k, (n - 1) \in G PROVE n \in G
    <2>1. /\ f[n - 1] \in Seq(T)
          /\ f[n - 1] = <<>> => \A i \in 1 .. (n - 1) : list[i] \notin S
        BY <1>3
    <2>2. f[n] = IF list[n] \in S THEN Append(f[n - 1], list[n]) ELSE f[n - 1]
        BY DEF FirstChosen
    <2> HIDE DEF G
    <2>3. Append(f[n - 1], list[n]) \in Seq(T) /\ Append(f[n - 1], list[n]) # <<>>
        BY <1>1, <2>1
    <2>4. n \in Nat /\ NoneOf(n)
        BY <2>1, <2>2, <2>3
    <2> HIDE DEF NoneOf
    <2>5. QED BY <2>4 DEF G
<1>4. k \in G
    <2>1. CountsUp(G, k)
        BY <1>2, <1>3 DEF CountsUp
    <2> HIDE DEF G
    <2>2. QED BY <2>1, CountingUp
<1>5. QED BY <1>4

LEMMA AmongNone ==
    ASSUME NEW T, NEW list \in Seq(T), NEW S, Among(list, S) = <<>>
    PROVE  \A i \in 1 .. Len(list) : list[i] \notin S
<1>1. Len(list) \in Nat /\ Len(list) <= Len(list)
    OBVIOUS
<1>2. PICK f : FirstChosen(f, list, S, Len(list)) /\ Among(list, S) = f[Len(list)]
    BY <1>1, AmongIs
<1>3. QED BY <1>1, <1>2, PrefixesNone

(* The elements of a list that are not deleted are chosen by what they are. *)
Values == STRING \cup {NewRow, "read1", "read2", Was}
Rows == [value : Values, isDeleted : BOOLEAN]
ActiveOnes == {r \in Rows : isActiveElement(r)}
TypedOnes == {r \in Rows : r.value # NewRow}

LEMMA ChosenFromRows ==
    ASSUME NEW list \in Seq(Rows)
    PROVE  /\ getActiveElements(list) = Among(list, ActiveOnes)
           /\ Typed(list) = Among(list, TypedOnes)
<1> DEFINE T == {list[i] : i \in DOMAIN list}
           active == {list[i] : i \in {k \in DOMAIN list : isActiveElement(list[k])}}
           typed == {list[i] : i \in {k \in DOMAIN list : list[k].value # NewRow}}
<1>1. /\ \A x \in T : x \in active <=> x \in ActiveOnes
      /\ \A x \in T : x \in typed <=> x \in TypedOnes
    <2>1. \A i \in DOMAIN list : list[i] \in Rows
        OBVIOUS
    <2>2. T \subseteq Rows
        BY <2>1
    <2>3. QED BY <2>2 DEF ActiveOnes, TypedOnes
<1>2. list \in Seq(T)
    OBVIOUS
<1>3. getActiveElements(list) = Among(list, active) /\ Typed(list) = Among(list, typed)
    BY DEF getActiveElements, Typed
<1> HIDE DEF T, active, typed
<1>4. QED BY <1>1, <1>2, <1>3, AmongSame

(* What is sent of a list: its elements that are not deleted.               *)
LEMMA ActiveFacts ==
    ASSUME NEW list \in Seq(Rows)
    PROVE  /\ getActiveElements(list) \in Seq(Rows)
           /\ getActiveElements(getActiveElements(list)) = getActiveElements(list)
           /\ getActiveElements(list) = <<>> => \A i \in 1 .. Len(list) : list[i].isDeleted
           /\ \A r \in Rows :
                getActiveElements(Append(list, r)) =
                  IF isActiveElement(r) THEN Append(getActiveElements(list), r)
                  ELSE getActiveElements(list)
<1> DEFINE active == getActiveElements(list)
<1>1. active = Among(list, ActiveOnes)
    BY ChosenFromRows
<1>2. active \in Seq(Rows)
    <2>1. active \in Seq(Rows \cap ActiveOnes)
        BY <1>1, AmongType
    <2> HIDE DEF active
    <2>2. QED BY <2>1
<1>3. getActiveElements(active) = Among(active, ActiveOnes)
    BY <1>2, ChosenFromRows
<1>4. Among(active, ActiveOnes) = active
    BY <1>1, AmongTwice
<1>5. ASSUME active = <<>> PROVE \A i \in 1 .. Len(list) : list[i].isDeleted
    <2>1. \A i \in 1 .. Len(list) : list[i] \notin ActiveOnes
        BY <1>1, <1>5, AmongNone
    <2>2. \A i \in 1 .. Len(list) : list[i] \in Rows
        OBVIOUS
    <2>3. QED BY <2>1, <2>2 DEF ActiveOnes, isActiveElement
<1>6. ASSUME NEW r \in Rows
      PROVE  getActiveElements(Append(list, r)) = IF isActiveElement(r) THEN Append(active, r) ELSE active
    <2>1. Append(list, r) \in Seq(Rows)
        OBVIOUS
    <2>2. getActiveElements(Append(list, r)) = Among(Append(list, r), ActiveOnes)
        BY <2>1, ChosenFromRows
    <2>3. r \in ActiveOnes <=> isActiveElement(r)
        BY DEF ActiveOnes
    <2>4. QED BY <1>1, <2>2, <2>3, AmongAppend
<1>7. QED BY <1>2, <1>3, <1>4, <1>5, <1>6

LEMMA TypedFacts ==
    ASSUME NEW list \in Seq(Rows), NEW r \in Rows
    PROVE  Typed(Append(list, r)) =
             IF r.value # NewRow THEN Append(Typed(list), r) ELSE Typed(list)
<1>1. Append(list, r) \in Seq(Rows)
    OBVIOUS
<1>2. Typed(Append(list, r)) = Among(Append(list, r), TypedOnes) /\ Typed(list) = Among(list, TypedOnes)
    BY <1>1, ChosenFromRows
<1>3. r \in TypedOnes <=> r.value # NewRow
    BY DEF TypedOnes
<1>4. QED BY <1>2, <1>3, AmongAppend

-----------------------------------------------------------------------------
(* The rows of a list                                                       *)

\* the list that is written, as far as it must be the one that is shown
Tells(written) ==
  /\ Typed(getActiveElements(written)) = Typed(getActiveElements(rows))
  /\ listKind # "silent" => getActiveElements(written) = getActiveElements(rows)

\* What the accordion around holds may differ from what is written: both tell
\* what was typed.
ListInv ==
  /\ rows \in Seq(Rows) /\ listYaml \in Seq(Rows) /\ rowChanges \in Nat
  /\ DOMAIN around = {"same", "list"} /\ around.list \in Seq(Rows)
  /\ listKind = "targets" => around.same = TRUE
  /\ shown \in Seq(Values) /\ Len(shown) = Len(rows)
  /\ \A i \in 1 .. Len(rows) : shown[i] = rows[i].value
  /\ Tells(listYaml) /\ Tells(WrittenList(around, rows))

LEMMA RowType == \A v \in Values : Row(v) \in Rows /\ isActiveElement(Row(v)) /\ Row(v).value = v
BY DEF Row, Rows, isActiveElement

\* what SendList makes of a list
LEMMA SendListStep ==
    ASSUME ListInv, NEW r \in Seq(Rows), SendList(r), listKind' = listKind, rowChanges' \in Nat,
           shown' \in Seq(Values), Len(shown') = Len(r),
           \A i \in 1 .. Len(r) : shown'[i] = r[i].value
    PROVE  ListInv'
<1>1. rows' = r /\ listYaml' = WrittenList(around', r)
    BY DEF SendList
<1>2. getActiveElements(r) \in Seq(Rows) /\ getActiveElements(getActiveElements(r)) = getActiveElements(r)
    BY ActiveFacts
<1>3. /\ DOMAIN around' = {"same", "list"} /\ around'.list \in Seq(Rows)
      /\ listKind' = "targets" => around'.same = TRUE
      /\ WrittenList(around', r) \in {r, getActiveElements(r)}
    <2>1. CASE listKind = "targets"
        BY <2>1 DEF ListInv, SendList, WrittenList
    <2>2. CASE listKind # "targets"
        <3>1. around' = [same |-> FALSE, list |-> getActiveElements(r)]
            BY <2>2 DEF SendList
        <3>2. QED BY <1>2, <2>2, <3>1 DEF WrittenList
    <2>3. QED BY <2>1, <2>2
<1>4. WrittenList(around', r) \in Seq(Rows)
    BY <1>2, <1>3
<1>5. Tells(listYaml)' /\ Tells(WrittenList(around, rows))'
    BY <1>1, <1>2, <1>3 DEF Tells, WrittenList
<1>6. QED BY <1>1, <1>3, <1>4, <1>5 DEF ListInv

LEMMA ListStep == ListInv /\ [ListNext]_listVars => ListInv'
<1> SUFFICES ASSUME ListInv, [ListNext]_listVars
             PROVE  ListInv'
    OBVIOUS
<1>1. CASE UNCHANGED listVars
    BY <1>1 DEF listVars, ListInv, Tells, WrittenList
<1>2. /\ rows \in Seq(Rows) /\ shown \in Seq(Values) /\ Len(shown) = Len(rows)
      /\ \A i \in 1 .. Len(rows) : shown[i] = rows[i].value
    BY DEF ListInv
<1>3. CASE AddRow
    <2> DEFINE longer == Append(rows, Row(NewRow))
    <2>1. Row(NewRow) \in Rows /\ NewRow \in Values /\ Row(NewRow).value = NewRow
          /\ isActiveElement(Row(NewRow))
        <3>1. NewRow \in Values
            BY DEF Values
        <3>2. QED BY <3>1, RowType
    <2>2. /\ longer \in Seq(Rows) /\ shown' \in Seq(Values) /\ Len(shown') = Len(longer)
          /\ \A i \in 1 .. Len(longer) : shown'[i] = longer[i].value
        <3>1. shown' = Append(shown, NewRow)
            BY <1>3 DEF AddRow
        <3> HIDE DEF NewRow
        <3>2. QED BY <1>2, <2>1, <3>1
    <2>3. listKind' = listKind /\ rowChanges' \in Nat
        BY <1>3 DEF AddRow, ListInv
    <2>4. CASE listKind # "silent"
        <3>1. SendList(longer)
            BY <1>3, <2>4 DEF AddRow
        <3> HIDE DEF longer
        <3>2. QED BY <2>2, <2>3, <3>1, SendListStep
    <2>5. CASE listKind = "silent"
        <3>1. rows' = longer /\ UNCHANGED <<around, listYaml>>
            BY <1>3, <2>5 DEF AddRow
        <3>2. getActiveElements(longer) = Append(getActiveElements(rows), Row(NewRow))
            BY <1>2, <2>1, ActiveFacts
        <3>3. Typed(getActiveElements(longer)) = Typed(getActiveElements(rows))
            <4>1. getActiveElements(rows) \in Seq(Rows)
                BY <1>2, ActiveFacts
            <4>2. QED BY <2>1, <3>2, <4>1, TypedFacts
        <3> HIDE DEF longer
        <3>4. Tells(listYaml)'
            BY <2>3, <2>5, <3>1, <3>3 DEF ListInv, Tells
        <3>5. Tells(WrittenList(around, rows))'
            BY <2>3, <2>5, <3>1, <3>3 DEF ListInv, Tells, WrittenList
        <3>6. QED BY <2>2, <2>3, <3>1, <3>4, <3>5 DEF ListInv
    <2>6. QED BY <2>4, <2>5
<1>4. ASSUME NEW i \in ActiveRows, TypeRow(i) PROVE ListInv'
    <2>1. i \in 1 .. Len(rows)
        BY <1>2 DEF ActiveRows
    <2>2. RowText \in Values
        <3>1. rowChanges + 1 \in 1 .. Len(RowTexts)
            BY <1>4 DEF TypeRow, MayChangeRows, MaxRowChanges, ListInv
        <3>2. QED BY <3>1, RowTextsAssumption DEF RowText, Values
    <2>3. /\ shown' = [shown EXCEPT ![i] = RowText]
          /\ SendList([rows EXCEPT ![i] = Row(shown'[i])])
          /\ rowChanges' \in Nat /\ listKind' = listKind
        BY <1>4 DEF TypeRow, ListInv
    <2>4. shown' \in Seq(Values) /\ Len(shown') = Len(rows) /\ shown'[i] = RowText
          /\ \A k \in 1 .. Len(rows) : k # i => shown'[k] = shown[k]
        <3> HIDE DEF RowText
        <3>1. QED BY <1>2, <2>1, <2>2, <2>3
    <2>5. Row(RowText) \in Rows /\ Row(RowText).value = RowText
        BY <2>2, RowType
    <2> DEFINE typed == [rows EXCEPT ![i] = Row(RowText)]
    <2>6. /\ typed \in Seq(Rows) /\ Len(typed) = Len(rows)
          /\ typed[i] = Row(RowText) /\ \A k \in 1 .. Len(rows) : k # i => typed[k] = rows[k]
        BY <1>2, <2>1, <2>5
    <2>7. SendList(typed)
        BY <2>3, <2>4
    <2> HIDE DEF typed, RowText
    <2>8. \A k \in 1 .. Len(typed) : shown'[k] = typed[k].value
        BY <1>2, <2>4, <2>5, <2>6
    <2>9. QED BY <2>3, <2>4, <2>6, <2>7, <2>8, SendListStep
<1>5. ASSUME NEW i \in ActiveRows, DeleteRow(i) PROVE ListInv'
    <2>1. i \in 1 .. Len(rows)
        BY <1>2 DEF ActiveRows
    <2>2. SendList([rows EXCEPT ![i].isDeleted = TRUE])
          /\ rowChanges' \in Nat /\ listKind' = listKind /\ shown' = shown
        BY <1>5 DEF DeleteRow, ListInv
    <2> DEFINE marked == [rows EXCEPT ![i].isDeleted = TRUE]
               row == [rows[i] EXCEPT !.isDeleted = TRUE]
    <2>3. rows[i] \in Rows
        BY <1>2, <2>1
    <2>4. row \in Rows /\ row.value = rows[i].value
        BY <2>3 DEF Rows
    <2>5. marked = [rows EXCEPT ![i] = row]
        BY <1>2, <2>1
    <2> HIDE DEF row, marked
    <2>6. /\ marked \in Seq(Rows) /\ Len(marked) = Len(rows)
          /\ marked[i] = row /\ \A k \in 1 .. Len(rows) : k # i => marked[k] = rows[k]
        BY <1>2, <2>1, <2>4, <2>5
    <2>7. \A k \in 1 .. Len(marked) : shown'[k] = marked[k].value
        BY <1>2, <2>2, <2>4, <2>6
    <2>8. SendList(marked) /\ shown' \in Seq(Values) /\ Len(shown') = Len(marked)
        BY <1>2, <2>2, <2>6 DEF marked
    <2>9. QED BY <2>2, <2>6, <2>7, <2>8, SendListStep
<1>6. CASE EditElsewhere
    <2>1. WrittenList(around, rows) \in Seq(Rows)
        BY DEF ListInv, WrittenList
    <2>2. listYaml' = WrittenList(around, rows) /\ UNCHANGED <<listKind, rows, shown, around, rowChanges>>
        BY <1>6 DEF EditElsewhere
    <2>3. Tells(listYaml)' /\ Tells(WrittenList(around, rows))'
        BY <2>2 DEF ListInv, Tells, WrittenList
    <2>4. QED BY <2>1, <2>2, <2>3 DEF ListInv
<1>7. CASE ShowAgain
    <2>1. /\ rows' = listYaml /\ UNCHANGED <<listKind, listYaml, rowChanges>>
          /\ shown' = [i \in DOMAIN listYaml |-> listYaml[i].value]
          /\ around' = [same |-> listYaml # <<>> \/ listKind = "targets", list |-> <<>>]
        BY <1>7 DEF ShowAgain
    <2>2. /\ listYaml \in Seq(Rows) /\ Len(listYaml) \in Nat /\ DOMAIN listYaml = 1 .. Len(listYaml)
        BY DEF ListInv
    <2>3. \A i \in 1 .. Len(listYaml) : listYaml[i].value \in Values
        <3>1. \A i \in 1 .. Len(listYaml) : listYaml[i] \in Rows
            BY <2>2
        <3>2. QED BY <3>1 DEF Rows
    <2>4. shown' \in Seq(Values) /\ Len(shown') = Len(listYaml)
          /\ \A i \in 1 .. Len(listYaml) : shown'[i] = listYaml[i].value
        BY <2>1, <2>2, <2>3
    <2>5. WrittenList(around', listYaml) = listYaml
        BY <2>1 DEF WrittenList
    <2>6. Tells(listYaml)' /\ Tells(WrittenList(around, rows))'
        BY <2>1, <2>5 DEF Tells, WrittenList
    <2>7. DOMAIN around' = {"same", "list"} /\ around'.list \in Seq(Rows)
          /\ (listKind' = "targets" => around'.same = TRUE)
        <3>1. <<>> \in Seq(Rows)
            OBVIOUS
        <3>2. QED BY <2>1, <3>1
    <2>8. QED BY <2>1, <2>2, <2>4, <2>6, <2>7 DEF ListInv
<1>8. QED BY <1>1, <1>3, <1>4, <1>5, <1>6, <1>7 DEF ListNext

LEMMA ListStart == ListInit => ListInv
<1> SUFFICES ASSUME ListInit PROVE ListInv
    OBVIOUS
<1>1. PICK list \in {<<>>, <<Row("read1"), Row("read2")>>} : Reads(list)
    BY DEF ListInit
<1>2. list \in Seq(Rows)
    <2>1. Row("read1") \in Rows /\ Row("read2") \in Rows
        BY DEF Row, Rows, Values
    <2>2. <<>> \in Seq(Rows) /\ \A x, y \in Rows : <<x, y>> \in Seq(Rows)
        OBVIOUS
    <2>3. QED BY <2>1, <2>2
<1>3. /\ rows = list /\ listYaml = list /\ rowChanges = 0
      /\ shown = [i \in DOMAIN list |-> list[i].value]
      /\ around = [same |-> list # <<>> \/ listKind = "targets", list |-> <<>>]
    BY <1>1 DEF Reads, ListInit
<1>4. Len(list) \in Nat /\ DOMAIN list = 1 .. Len(list)
    BY <1>2
<1>5. \A i \in 1 .. Len(list) : list[i].value \in Values
    <2>1. \A i \in 1 .. Len(list) : list[i] \in Rows
        BY <1>2, <1>4
    <2>2. QED BY <2>1 DEF Rows
<1>6. shown \in Seq(Values) /\ Len(shown) = Len(rows)
      /\ \A i \in 1 .. Len(rows) : shown[i] = rows[i].value
    BY <1>3, <1>4, <1>5
<1>7. WrittenList(around, rows) = rows
    BY <1>3 DEF WrittenList
<1>8. Tells(listYaml) /\ Tells(WrittenList(around, rows))
    BY <1>3, <1>7 DEF Tells
<1>9. DOMAIN around = {"same", "list"} /\ around.list \in Seq(Rows)
      /\ (listKind = "targets" => around.same = TRUE)
    <2>1. <<>> \in Seq(Rows)
        OBVIOUS
    <2>2. QED BY <1>3, <2>1
<1>10. rowChanges \in Nat
    BY <1>3
<1>11. QED BY <1>2, <1>3, <1>6, <1>8, <1>9, <1>10 DEF ListInv

LEMMA ListInvHolds == ListSpec => []ListInv
BY ListStart, ListStep, PTL DEF ListSpec

(* An accordion shows the element at its index, for any list and whatever   *)
(* was added to it and deleted from it.                                     *)
THEOREM RowsStayTheirs == ListSpec => []RowsShowTheirElement
<1>1. ListInv => RowsShowTheirElement
    <2> SUFFICES ASSUME ListInv PROVE RowsShowTheirElement
        OBVIOUS
    <2>1. rows \in Seq(Rows) /\ shown \in Seq(Values) /\ Len(shown) = Len(rows)
        BY DEF ListInv
    <2>2. DOMAIN rows = 1 .. Len(rows) /\ DOMAIN shown = 1 .. Len(rows)
        BY <2>1
    <2>3. QED BY <2>2 DEF ListInv, RowsShowTheirElement, ActiveRows
<1>2. QED BY <1>1, ListInvHolds, PTL

(* What was typed is in the YAML however the list tells of its changes: the *)
(* accordion around may hold another list than the one that is edited.      *)
THEOREM TypedRowsStay == ListSpec => []TypedRowsInYaml
<1>1. ListInv => TypedRowsInYaml
    BY DEF ListInv, Tells, TypedRowsInYaml
<1>2. QED BY <1>1, ListInvHolds, PTL

-----------------------------------------------------------------------------
(* The form of a workload                                                   *)

Details == {"first", "later"}

(* Every part of the YAML is one of what is sent, or of the shared objects. *)
LEMMA YamlFacts ==
    ASSUME NEW s, NEW objs
    PROVE  /\ \A p \in OwnParts : YamlOf(s, objs)[p] = s[p]
           /\ YamlOf(s, objs)["volumes"] = IF s.volumes = ListRead THEN objs.volumes ELSE s.volumes.list
           /\ \A p \in Shared : s[p] = Ref => YamlOf(s, objs)[p] = objs[p]
BY DEF YamlOf, Parts, OwnParts, Shared

\* What was sent last is what the pod holds, or the details hold or (those of a
\* StatefulSet) held: of the numbers and texts it has those of one of them, and
\* of the shared parts whatever both have.
SentLast(s) ==
  /\ s.volumes = ListRead \/ s.volumes = copies["pod"].volumes
  /\ copies["pod"].strategy = Ref => s.strategy = Ref
  /\ copies["first"].securityContext = Ref => s.securityContext = Ref
  /\ \/ /\ s.restartPolicy = copies["pod"].restartPolicy
        /\ \A p \in DetailsOwn : s[p] = Was
     \/ /\ s.restartPolicy = Was
        /\ \/ \A p \in DetailsOwn : s[p] = copies[current][p]
           \/ workload.kind = "StatefulSet" /\ \A p \in DetailsOwn : s[p] = held[p]

CopiesInv ==
  /\ DOMAIN copies = {"first", "later", "pod"}
  /\ \A c \in {"first", "later", "pod"} : DOMAIN copies[c] = Parts
  /\ \A c \in Details : copies[c].restartPolicy = Was /\ copies[c].volumes = ListRead
  /\ \A p \in DetailsOwn : copies["pod"][p] = Was
  /\ \/ copies["pod"].volumes = ListRead
     \/ copies["pod"].volumes = ListSent(getActiveElements(objects.volumes))
  /\ copies["pod"].strategy = Ref => \A c \in Details : copies[c].strategy = Ref
  /\ copies["first"].securityContext = Ref =>
       copies["later"].securityContext = Ref /\ copies["pod"].securityContext = Ref

WorkloadInv ==
  /\ DOMAIN workload = {"kind", "strategyType"} /\ workload.kind \in Kinds
  /\ DOMAIN objects = {"strategy", "securityContext", "volumes"}
  /\ objects.volumes \in Seq(Rows) /\ workloadEdits \in Nat
  /\ current \in Details
  /\ workload.kind = "Deployment" => current = "first"
  /\ CopiesInv
  /\ SentLast(state)
  /\ ~ Crashed => workloadYaml = YamlOf(state, objects)

(* Sending a copy that has what SentLast asks for keeps the rest.           *)
LEMMA SendKeeps ==
    ASSUME NEW copy, NEW objs, Send(copy, objs), workloadEdits \in Nat,
           DOMAIN workload' = {"kind", "strategyType"}, workload'.kind \in Kinds,
           DOMAIN objs = {"strategy", "securityContext", "volumes"}, objs.volumes \in Seq(Rows),
           current' \in Details, workload'.kind = "Deployment" => current' = "first",
           CopiesInv', SentLast(copy)'
    PROVE  WorkloadInv'
<1>1. /\ state' = copy /\ objects' = objs /\ workloadEdits' = workloadEdits + 1
      /\ copy.volumes.is # None => workloadYaml' = YamlOf(copy, objs)
    BY DEF Send
<1>2. SentLast(state)'
    BY <1>1 DEF SentLast
<1>3. ~ Crashed' => workloadYaml' = YamlOf(state', objects')
    BY <1>1 DEF Crashed
<1>4. YamlOf(state, objects)' = YamlOf(state', objects')
    BY DEF YamlOf
<1>5. QED BY <1>1, <1>2, <1>3, <1>4 DEF WorkloadInv

(* An edit of the strategy accordion: the details of a StatefulSet may send *)
(* what they had before.                                                    *)
LEMMA UpdateStrategyStep ==
    ASSUME WorkloadInv, NEW first, NEW strategy, UpdateStrategy(first, strategy),
           DOMAIN workload' = {"kind", "strategyType"}, workload'.kind = workload.kind,
           DOMAIN first = Parts, first.restartPolicy = Was, first.volumes = ListRead,
           first.securityContext = copies.first.securityContext,
           copies.first.strategy = Ref => first.strategy = Ref
    PROVE  WorkloadInv'
<1> DEFINE normalized == IF first.strategy = Ref
                         THEN Normalized(workload.kind, workload.strategyType, strategy) ELSE strategy
           objs == [objects EXCEPT !.strategy = normalized]
<1>1. DOMAIN objs = DOMAIN objects /\ objs.volumes = objects.volumes
    BY DEF WorkloadInv
<1>2. IF workload.kind = "Deployment"
      THEN copies' = [copies EXCEPT !.first = first] /\ Send(first, objs) /\ current' = current
      ELSE /\ copies' = [copies EXCEPT !.first = first, !.later = first]
           /\ Send(IF current = "first" THEN first ELSE copies.later, objs)
           /\ current' = "later"
    BY DEF UpdateStrategy
<1> HIDE DEF objs
<1>3. PICK fields : /\ Send(fields, objs)
                    /\ fields = first \/ (workload.kind # "Deployment" /\ fields = copies["later"])
                    /\ \/ fields = first
                       \/ workload.kind # "Deployment" /\ fields = copies[current]
    BY <1>2 DEF WorkloadInv, Details
<1>4. DOMAIN copies = {"first", "later", "pod"}
    BY DEF WorkloadInv, CopiesInv
<1>5. /\ copies'["first"] = first /\ copies'["pod"] = copies["pod"]
      /\ copies'["later"] = copies["later"] \/ copies'["later"] = first
      /\ DOMAIN copies' = {"first", "later", "pod"}
    BY <1>2, <1>4
<1>6. objects' = objs
    BY <1>3 DEF Send
<1>7. CopiesInv'
    <2>1. CopiesInv
        BY DEF WorkloadInv
    <2>2. \A c \in Details : c = "first" \/ c = "later"
        BY DEF Details
    <2>3. copies'["pod"].volumes = ListRead
            \/ copies'["pod"].volumes = ListSent(getActiveElements(objects'.volumes))
        BY <1>1, <1>5, <1>6, <2>1 DEF CopiesInv
    <2>4. /\ first.restartPolicy = Was /\ first.volumes = ListRead
          /\ copies["later"].restartPolicy = Was /\ copies["later"].volumes = ListRead
          /\ copies["pod"].strategy = Ref =>
               first.strategy = Ref /\ copies["later"].strategy = Ref
          /\ first.securityContext = Ref =>
               copies["later"].securityContext = Ref /\ copies["pod"].securityContext = Ref
          /\ DOMAIN first = Parts /\ DOMAIN copies["later"] = Parts /\ DOMAIN copies["pod"] = Parts
          /\ \A p \in DetailsOwn : copies["pod"][p] = Was
        BY <2>1 DEF CopiesInv, Details
    <2>5. \A c \in {"first", "later", "pod"} : DOMAIN copies'[c] = Parts
        BY <1>5, <2>4
    <2>6. \A c \in Details : copies'[c].restartPolicy = Was /\ copies'[c].volumes = ListRead
        BY <1>5, <2>2, <2>4
    <2>7. copies'["pod"].strategy = Ref => \A c \in Details : copies'[c].strategy = Ref
        BY <1>5, <2>2, <2>4
    <2>8. copies'["first"].securityContext = Ref =>
            copies'["later"].securityContext = Ref /\ copies'["pod"].securityContext = Ref
        BY <1>5, <2>4
    <2>9. \A p \in DetailsOwn : copies'["pod"][p] = Was
        BY <1>5, <2>4
    <2>10. QED BY <1>5, <2>3, <2>5, <2>6, <2>7, <2>8, <2>9 DEF CopiesInv
<1>8. current' \in Details /\ (workload'.kind = "Deployment" => current' = "first")
    BY <1>2 DEF WorkloadInv, Details
<1>9. SentLast(fields)'
    <2>1. /\ fields.restartPolicy = Was /\ fields.volumes = ListRead
          /\ copies'["pod"].strategy = Ref => fields.strategy = Ref
          /\ copies'["first"].securityContext = Ref => fields.securityContext = Ref
        BY <1>3, <1>5 DEF WorkloadInv, CopiesInv, Details
    <2>2. copies'[current'] = first
        BY <1>2, <1>4, <1>5 DEF WorkloadInv
    <2>3. held' = copies[current]
        BY <1>3 DEF Send
    <2>4. workload.kind # "Deployment" => workload'.kind = "StatefulSet"
        BY DEF WorkloadInv, Kinds
    <2>5. \/ \A p \in DetailsOwn : fields[p] = copies'[current'][p]
          \/ workload'.kind = "StatefulSet" /\ \A p \in DetailsOwn : fields[p] = held'[p]
        BY <1>3, <2>2, <2>3, <2>4
    <2>6. QED BY <2>1, <2>5 DEF SentLast
<1>10. DOMAIN objs = {"strategy", "securityContext", "volumes"} /\ objs.volumes \in Seq(Rows)
       /\ workloadEdits \in Nat /\ workload'.kind \in Kinds
    BY <1>1 DEF WorkloadInv
<1>11. QED BY <1>3, <1>7, <1>8, <1>9, <1>10, SendKeeps

LEMMA SendPodStep ==
    ASSUME WorkloadInv, NEW pod, NEW objs, SendPod(pod, objs),
           DOMAIN objs = {"strategy", "securityContext", "volumes"}, objs.volumes \in Seq(Rows),
           DOMAIN pod = Parts, \A p \in DetailsOwn : pod[p] = Was,
           pod.strategy = copies.pod.strategy,
           copies.pod.securityContext = Ref => pod.securityContext = Ref,
           pod.volumes = ListRead \/ pod.volumes = ListSent(getActiveElements(objs.volumes))
    PROVE  WorkloadInv'
<1>1. /\ copies' = [copies EXCEPT !["pod"] = pod] /\ Send(pod, objs)
      /\ workload' = workload /\ current' = current
    BY DEF SendPod
<1>2. /\ copies'["pod"] = pod /\ \A c \in Details : copies'[c] = copies[c]
      /\ DOMAIN copies' = DOMAIN copies
    BY <1>1 DEF WorkloadInv, CopiesInv, Details
<1>3. objects' = objs
    BY <1>1 DEF Send
<1>4. CopiesInv'
    BY <1>2, <1>3 DEF WorkloadInv, CopiesInv, Details
<1>5. SentLast(pod)'
    <2>1. copies'["first"].securityContext = Ref => pod.securityContext = Ref
        BY <1>2, <1>4 DEF CopiesInv
    <2>2. QED BY <1>2, <2>1 DEF SentLast
<1>6. QED BY <1>1, <1>3, <1>4, <1>5, SendKeeps DEF WorkloadInv

LEMMA NextValueType == WorkloadInv /\ MayEdit => NextValue \in STRING
<1> SUFFICES ASSUME WorkloadInv, MayEdit PROVE NextValue \in STRING
    OBVIOUS
<1>1. workloadEdits + 1 \in 1 .. Len(EditValues)
    BY EditValuesAssumption DEF WorkloadInv, MayEdit, MaxWorkloadEdits
<1>2. QED BY <1>1, EditValuesAssumption DEF NextValue

LEMMA WorkloadStep == WorkloadInv /\ [WorkloadNext]_workloadVars => WorkloadInv'
<1> SUFFICES ASSUME WorkloadInv, [WorkloadNext]_workloadVars
             PROVE  WorkloadInv'
    OBVIOUS
<1>1. CASE UNCHANGED workloadVars
    <2>1. UNCHANGED <<workload, state, copies, current, held, objects, workloadYaml, workloadEdits>>
        BY <1>1 DEF workloadVars
    <2>2. CopiesInv' /\ SentLast(state)'
        BY <2>1 DEF WorkloadInv, CopiesInv, SentLast
    <2>3. Crashed' = Crashed /\ YamlOf(state, objects)' = YamlOf(state, objects)
        BY <2>1 DEF Crashed, YamlOf
    <2>4. QED BY <2>1, <2>2, <2>3 DEF WorkloadInv
<1>2. /\ CopiesInv /\ DOMAIN copies = {"first", "later", "pod"}
      /\ DOMAIN objects = {"strategy", "securityContext", "volumes"}
      /\ objects.volumes \in Seq(Rows) /\ current \in Details /\ workloadEdits \in Nat
      /\ DOMAIN workload = {"kind", "strategyType"} /\ workload.kind \in Kinds
    BY DEF WorkloadInv, CopiesInv
<1>3. CASE TypeReplicas
    <2> PICK typed : typed = [copies[current] EXCEPT !.replicas = NextValue]
        OBVIOUS
    <2>1. copies' = [copies EXCEPT ![current] = typed] /\ workload' = workload /\ current' = current
        BY <1>3 DEF TypeReplicas
    <2>2. current \in {"first", "later", "pod"} /\ current # "pod"
        BY <1>2 DEF Details
    <2>3. /\ DOMAIN typed = Parts /\ typed.restartPolicy = Was /\ typed.volumes = ListRead
          /\ typed.strategy = copies[current].strategy
          /\ typed.securityContext = copies[current].securityContext
        BY <1>2, <2>2 DEF CopiesInv, Parts, OwnParts, Shared
    <2>4. /\ copies'[current] = typed /\ DOMAIN copies' = DOMAIN copies
          /\ \A c \in {"first", "later", "pod"} : c # current => copies'[c] = copies[c]
        BY <1>2, <2>1, <2>2
    <2>5. Send(typed, objects)
        BY <1>3, <2>4 DEF TypeReplicas
    <2>6. objects' = objects
        BY <2>5 DEF Send
    <2>7. CopiesInv'
        <3>1. CASE current = "first"
            BY <1>2, <2>3, <2>4, <2>6, <3>1 DEF CopiesInv, Details
        <3>2. CASE current = "later"
            BY <1>2, <2>3, <2>4, <2>6, <3>2 DEF CopiesInv, Details
        <3>3. QED BY <1>2, <3>1, <3>2 DEF Details
    <2>8. SentLast(typed)'
        <3>1. copies'["pod"].strategy = Ref => typed.strategy = Ref
            BY <2>4, <2>7, <1>2 DEF CopiesInv
        <3>2. copies'["first"].securityContext = Ref => typed.securityContext = Ref
            <4>1. CASE current = "first"
                BY <2>4, <4>1
            <4>2. CASE current = "later"
                BY <2>4, <2>7, <4>2 DEF CopiesInv
            <4>3. current = "first" \/ current = "later"
                BY <1>2 DEF Details
            <4>4. QED BY <4>1, <4>2, <4>3
        <3>3. copies'[current'] = typed
            BY <2>1, <2>4
        <3>4. QED BY <2>3, <3>1, <3>2, <3>3 DEF SentLast
    <2>9. current' \in Details /\ (workload'.kind = "Deployment" => current' = "first")
        BY <2>1 DEF WorkloadInv
    <2>10. QED BY <1>2, <2>1, <2>5, <2>7, <2>8, <2>9, SendKeeps
<1>4. /\ DOMAIN copies["first"] = Parts /\ copies["first"].restartPolicy = Was
      /\ copies["first"].volumes = ListRead
    BY <1>2 DEF CopiesInv, Details
<1>5. CASE TypeMinReady
    <2> DEFINE first == [copies.first EXCEPT !.minReady = NextValue]
    <2>1. UpdateStrategy(first, objects.strategy) /\ workload' = workload
        BY <1>5 DEF TypeMinReady
    <2>2. /\ DOMAIN first = Parts /\ first.restartPolicy = Was /\ first.volumes = ListRead
          /\ first.securityContext = copies.first.securityContext
          /\ first.strategy = copies.first.strategy
        BY <1>4 DEF Parts, OwnParts, Shared
    <2> HIDE DEF first
    <2>3. QED BY <1>2, <2>1, <2>2, UpdateStrategyStep
<1>6. ASSUME NEW strategy, UpdateStrategy([copies.first EXCEPT !.strategy = Ref], strategy),
             workload' = workload
      PROVE  WorkloadInv'
    <2> DEFINE first == [copies.first EXCEPT !.strategy = Ref]
    <2>1. /\ DOMAIN first = Parts /\ first.restartPolicy = Was /\ first.volumes = ListRead
          /\ first.securityContext = copies.first.securityContext
          /\ first.strategy = Ref
        BY <1>4 DEF Parts, OwnParts, Shared
    <2>2. UpdateStrategy(first, strategy)
        BY <1>6
    <2> HIDE DEF first
    <2>3. QED BY <1>2, <1>6, <2>1, <2>2, UpdateStrategyStep
<1>7. ASSUME NEW type, ChooseType(type) PROVE WorkloadInv'
    <2>1. CASE workload.kind = "Deployment"
        <3>1. /\ UpdateStrategy(copies.first, objects.strategy)
              /\ workload' = [workload EXCEPT !.strategyType = type]
            BY <1>7, <2>1 DEF ChooseType
        <3>2. DOMAIN workload' = {"kind", "strategyType"} /\ workload'.kind = workload.kind
            BY <1>2, <3>1
        <3>3. QED BY <1>4, <3>1, <3>2, UpdateStrategyStep
    <2>2. CASE workload.kind # "Deployment"
        BY <1>6, <1>7, <2>2 DEF ChooseType
    <2>3. QED BY <2>1, <2>2
<1>8. CASE TypeMaxUnavailable
    BY <1>6, <1>8 DEF TypeMaxUnavailable
<1>9. /\ DOMAIN copies["pod"] = Parts /\ \A p \in DetailsOwn : copies["pod"][p] = Was
      /\ \/ copies["pod"].volumes = ListRead
         \/ copies["pod"].volumes = ListSent(getActiveElements(objects.volumes))
    BY <1>2 DEF CopiesInv
<1>10. CASE TypeRestartPolicy
    <2> DEFINE pod == [copies.pod EXCEPT !.restartPolicy = NextValue]
    <2>1. SendPod(pod, objects)
        BY <1>10 DEF TypeRestartPolicy
    <2>2. /\ DOMAIN pod = Parts /\ \A p \in DetailsOwn : pod[p] = Was
          /\ pod.strategy = copies.pod.strategy /\ pod.volumes = copies.pod.volumes
          /\ pod.securityContext = copies.pod.securityContext
        BY <1>9 DEF Parts, OwnParts, Shared, DetailsOwn
    <2> HIDE DEF pod
    <2>3. QED BY <1>2, <1>9, <2>1, <2>2, SendPodStep
<1>11. CASE TypeRunAsUser
    <2> DEFINE pod == [copies.pod EXCEPT !.securityContext = Ref]
               objs == [objects EXCEPT !.securityContext = NextValue]
    <2>1. SendPod(pod, objs)
        BY <1>11 DEF TypeRunAsUser
    <2>2. /\ DOMAIN pod = Parts /\ \A p \in DetailsOwn : pod[p] = Was
          /\ pod.strategy = copies.pod.strategy /\ pod.volumes = copies.pod.volumes
          /\ pod.securityContext = Ref
        BY <1>9 DEF Parts, OwnParts, Shared, DetailsOwn
    <2>3. DOMAIN objs = {"strategy", "securityContext", "volumes"} /\ objs.volumes = objects.volumes
        BY <1>2
    <2> HIDE DEF pod, objs
    <2>4. QED BY <1>2, <1>9, <2>1, <2>2, <2>3, SendPodStep
<1>12. ASSUME NEW list \in Seq(Rows), UpdateVolumes(list) PROVE WorkloadInv'
    <2> DEFINE pod == [copies.pod EXCEPT !.volumes = ListSent(getActiveElements(list))]
               objs == [objects EXCEPT !.volumes = list]
    <2>1. SendPod(pod, objs)
        BY <1>12 DEF UpdateVolumes
    <2>2. /\ DOMAIN pod = Parts /\ \A p \in DetailsOwn : pod[p] = Was
          /\ pod.strategy = copies.pod.strategy
          /\ pod.volumes = ListSent(getActiveElements(list))
          /\ pod.securityContext = copies.pod.securityContext
        BY <1>9 DEF Parts, OwnParts, Shared, DetailsOwn
    <2>3. DOMAIN objs = {"strategy", "securityContext", "volumes"} /\ objs.volumes = list
        BY <1>2
    <2> HIDE DEF pod, objs
    <2>4. QED BY <2>1, <2>2, <2>3, SendPodStep
<1>13. CASE AddVolume
    <2>1. [value |-> NextValue, isDeleted |-> FALSE] \in Rows
        BY <1>13, NextValueType DEF AddVolume, Rows, Values
    <2>2. Append(objects.volumes, [value |-> NextValue, isDeleted |-> FALSE]) \in Seq(Rows)
        BY <1>2, <2>1
    <2>3. QED BY <1>12, <1>13, <2>2 DEF AddVolume
<1>14. ASSUME NEW i \in ShownVolumes, TypeVolume(i) \/ DeleteVolume(i) PROVE WorkloadInv'
    <2>1. i \in DOMAIN objects.volumes /\ objects.volumes[i] \in Rows
        BY <1>2 DEF ShownVolumes
    <2> DEFINE typed == [objects.volumes[i] EXCEPT !.value = NextValue]
               marked == [objects.volumes[i] EXCEPT !.isDeleted = TRUE]
    <2>2. (MayEdit => typed \in Rows) /\ marked \in Rows
        BY <2>1, NextValueType DEF Rows, Values
    <2>3. /\ [objects.volumes EXCEPT ![i].value = NextValue] = [objects.volumes EXCEPT ![i] = typed]
          /\ [objects.volumes EXCEPT ![i].isDeleted = TRUE] = [objects.volumes EXCEPT ![i] = marked]
        BY <2>1
    <2> HIDE DEF typed, marked
    <2>4. \A row \in Rows : [objects.volumes EXCEPT ![i] = row] \in Seq(Rows)
        BY <1>2, <2>1
    <2>5. QED BY <1>12, <1>14, <2>2, <2>3, <2>4 DEF TypeVolume, DeleteVolume
<1>15. QED BY <1>1, <1>3, <1>5, <1>7, <1>8, <1>10, <1>11, <1>13, <1>14
           DEF WorkloadNext, DetailsEdit, PodEdit

LEMMA WorkloadStart == WorkloadInit => WorkloadInv
<1> SUFFICES ASSUME WorkloadInit PROVE WorkloadInv
    OBVIOUS
<1>1. PICK strategy, context :
        state = [p \in Parts |-> CASE p \in OwnParts -> Was
                                   [] p = "strategy" -> strategy
                                   [] p = "securityContext" -> context
                                   [] p = "volumes" -> ListRead]
    BY DEF WorkloadInit
<1>2. /\ copies = [c \in {"first", "later", "pod"} |-> state] /\ current = "first"
      /\ workloadYaml = YamlOf(state, objects) /\ workloadEdits = 0
    BY DEF WorkloadInit
<1>3. /\ DOMAIN workload = {"kind", "strategyType"} /\ workload.kind \in Kinds
      /\ DOMAIN objects = {"strategy", "securityContext", "volumes"}
    BY DEF WorkloadInit
<1>4. objects.volumes \in Seq(Rows)
    <2>1. [value |-> Was, isDeleted |-> FALSE] \in Rows
        BY DEF Rows, Values
    <2>2. objects.volumes = <<[value |-> Was, isDeleted |-> FALSE]>>
        <3>1. PICK s, c : objects = [strategy |-> s, securityContext |-> c,
                                     volumes |-> <<[value |-> Was, isDeleted |-> FALSE]>>]
            BY Zenon DEF WorkloadInit
        <3>2. QED BY <3>1
    <2>3. \A row \in Rows : <<row>> \in Seq(Rows)
        OBVIOUS
    <2>4. QED BY <2>1, <2>2, <2>3
<1>5. /\ DOMAIN state = Parts /\ \A p \in OwnParts : state[p] = Was
      /\ state.volumes = ListRead
    BY <1>1 DEF Parts, OwnParts, Shared
<1>6. \A c \in {"first", "later", "pod"} : copies[c] = state
    BY <1>2
<1>7. CopiesInv
    BY <1>2, <1>5, <1>6 DEF CopiesInv, Details, DetailsOwn, OwnParts
<1>8. SentLast(state)
    BY <1>2, <1>5, <1>6 DEF SentLast, DetailsOwn, OwnParts
<1>9. QED BY <1>2, <1>3, <1>4, <1>7, <1>8 DEF WorkloadInv, Details

LEMMA WorkloadInvHolds == WorkloadSpec => []WorkloadInv
BY WorkloadStart, WorkloadStep, PTL DEF WorkloadSpec

(* Of the two accordions that edit a workload, the numbers and texts of one *)
(* are in the YAML and those of the other are as they were read: an edit    *)
(* takes the other accordion's back, all of them, and never a part, and     *)
(* sends its own as typed, a StatefulSet's at most one edit behind.         *)
THEOREM EditsTakenBackAsAWhole == WorkloadSpec => []TakenBackAsAWhole
<1>1. WorkloadInv => TakenBackAsAWhole
    <2> SUFFICES ASSUME WorkloadInv, ~ Crashed PROVE TakenBackAsAWhole
        BY DEF TakenBackAsAWhole
    <2>1. \A p \in OwnParts : workloadYaml[p] = state[p]
        BY YamlFacts DEF WorkloadInv
    <2>2. "restartPolicy" \in OwnParts /\ DetailsOwn \subseteq OwnParts
        BY DEF OwnParts, DetailsOwn
    <2>3. QED BY <2>1, <2>2 DEF WorkloadInv, SentLast, TakenBackAsAWhole, InYaml, AsRead
<1>2. QED BY <1>1, WorkloadInvHolds, PTL

(* What is an object of the resource from the start is shared by all copies: *)
(* whichever of them is sent, the YAML has what its accordion holds.        *)
THEOREM SharedPartsStay == WorkloadSpec => []SharedPartsNeverTakenBack
<1>1. WorkloadInv => SharedPartsNeverTakenBack
    <2> SUFFICES ASSUME WorkloadInv, ~ Crashed, NEW p \in Shared,
                        copies.pod[p] = Ref, copies.first[p] = Ref
                 PROVE  workloadYaml[p] = objects[p]
        BY DEF SharedPartsNeverTakenBack
    <2>1. state[p] = Ref
        BY DEF WorkloadInv, SentLast, Shared
    <2>2. QED BY <2>1, YamlFacts DEF WorkloadInv
<1>2. QED BY <1>1, WorkloadInvHolds, PTL

(* The volumes of the YAML are those shown, whichever accordion sent it.    *)
THEOREM VolumesStay == WorkloadSpec => []VolumesAreThoseShown
<1>1. WorkloadInv => VolumesAreThoseShown
    <2> SUFFICES ASSUME WorkloadInv, ~ Crashed
                 PROVE  getActiveElements(workloadYaml.volumes) = getActiveElements(objects.volumes)
        BY DEF VolumesAreThoseShown
    <2>1. workloadYaml.volumes = IF state.volumes = ListRead THEN objects.volumes ELSE state.volumes.list
        BY YamlFacts DEF WorkloadInv
    <2>2. state.volumes # ListRead => state.volumes = ListSent(getActiveElements(objects.volumes))
        BY DEF WorkloadInv, SentLast, CopiesInv
    <2>3. \A list : ListSent(list).list = list
        BY DEF ListSent
    <2>4. getActiveElements(getActiveElements(objects.volumes)) = getActiveElements(objects.volumes)
        BY ActiveFacts DEF WorkloadInv
    <2>5. QED BY <2>1, <2>2, <2>3, <2>4
<1>2. QED BY <1>1, WorkloadInvHolds, PTL

(* The editor fails only once no volume is shown.                           *)
THEOREM FailsWithoutVolumes == WorkloadSpec => []FailsOnLastVolumeOnly
<1>1. WorkloadInv => FailsOnLastVolumeOnly
    <2> SUFFICES ASSUME WorkloadInv, Crashed PROVE ShownVolumes = {}
        BY DEF FailsOnLastVolumeOnly
    <2>1. state.volumes = ListSent(getActiveElements(objects.volumes))
        BY DEF WorkloadInv, SentLast, CopiesInv, Crashed, ListRead, Ref, None
    <2>2. getActiveElements(objects.volumes) = <<>>
        BY <2>1 DEF Crashed, ListSent, None
    <2>3. objects.volumes \in Seq(Rows)
        BY DEF WorkloadInv
    <2>4. \A i \in 1 .. Len(objects.volumes) : objects.volumes[i].isDeleted
        BY <2>2, <2>3, ActiveFacts
    <2>5. DOMAIN objects.volumes = 1 .. Len(objects.volumes)
        BY <2>3
    <2>6. QED BY <2>4, <2>5 DEF ShownVolumes
<1>2. QED BY <1>1, WorkloadInvHolds, PTL

-----------------------------------------------------------------------------
(* The function of a Kptfile: the images of the catalog                     *)

(* The first image of a set is one of it.                                   *)
LEMMA FirstIsOne ==
    ASSUME NEW images \in SUBSET CatalogImages, images # {}
    PROVE  First(images) \in images
<1> DEFINE At == {i \in DOMAIN FunctionCatalog : FunctionCatalog[i] \in images}
<1>1. Len(FunctionCatalog) \in Nat /\ DOMAIN FunctionCatalog = 1 .. Len(FunctionCatalog)
    <2>1. FunctionCatalog \in Seq(CatalogImages)
        BY FunctionCatalogAssumption
    <2> HIDE DEF At
    <2>2. QED BY <2>1
<1>2. At # {} /\ At \subseteq Nat
    BY <1>1 DEF CatalogImages
<1>3. PICK n \in At : \A m \in At : n <= m
    <2> HIDE DEF At
    <2>1. QED BY <1>2, LeastExists
<1>4. ASSUME NEW k \in 1 .. (n - 1) PROVE FunctionCatalog[k] \notin images
    <2>1. n \in 1 .. Len(FunctionCatalog)
        BY <1>1
    <2>2. k \in 1 .. Len(FunctionCatalog) /\ ~ (n <= k)
        <3> HIDE DEF At
        <3>1. QED BY <1>1, <2>1
    <2>3. QED BY <1>1, <1>3, <2>2
<1>5. QED BY <1>3, <1>4 DEF First

(* What no function is called has no versions.                              *)
LEMMA NoVersions ==
    /\ VersionsOf("") = {} /\ VersionsOf(CUSTOM_IMAGE) = {}
    /\ catalog = "awaited" => \A n : VersionsOf(n) = {}
BY FunctionCatalogAssumption DEF VersionsOf, Known

(* The image of a name and a version of the catalog has both.               *)
LEMMA ImageFacts ==
    ASSUME NEW n, NEW v, NEW custom, v \in VersionsOf(n)
    PROVE  LET i == ImageOf(n, v, custom)
           IN  i \in CatalogImages /\ FunctionName[i] = n /\ FunctionVersion[i] = v
<1> DEFINE S == {i \in ImagesOf(n) : FunctionVersion[i] = v}
<1>1. S # {} /\ S \subseteq CatalogImages
    BY DEF VersionsOf, Known, ImagesOf
<1>2. First(S) \in S
    <2> HIDE DEF S
    <2>1. QED BY <1>1, FirstIsOne
<1>3. ImageOf(n, v, custom) = First(S)
    BY NoVersions DEF ImageOf
<1>4. QED BY <1>2, <1>3 DEF ImagesOf

(* What is taken for the latest version of a function is one of it.         *)
LEMMA LatestFacts ==
    ASSUME NEW n
    PROVE  /\ LatestVersion(n) \in VersionsOf(n) \cup {""}
           /\ VersionsOf(n) = {} => LatestVersion(n) = ""
<1>1. CASE VersionsOf(n) # {}
    <2>1. Known = CatalogImages /\ ImagesOf(n) # {} /\ ImagesOf(n) \subseteq CatalogImages
        BY <1>1 DEF VersionsOf, Known, ImagesOf
    <2>2. First(ImagesOf(n)) \in ImagesOf(n)
        BY <2>1, FirstIsOne
    <2>3. QED BY <1>1, <2>1, <2>2 DEF LatestVersion, VersionsOf, ImagesOf
<1>2. CASE VersionsOf(n) = {}
    BY <1>2 DEF LatestVersion
<1>3. QED BY <1>1, <1>2

-----------------------------------------------------------------------------
(* The version shown                                                        *)

(* The version is one of the function, or is about to be chosen anew, as it *)
(* is with every name that follows another name than that of a custom image. *)
VersionFits ==
  \/ version \in VersionsOf(name) \cup {"", Partial}
  \/ name # previousName /\ previousName # CUSTOM_IMAGE

VersionInv ==
  /\ catalog \in {"awaited", "arrived", "grouped"}
  /\ catalog = "arrived" => name = previousName
  /\ VersionFits

LEMMA VersionStep == VersionInv /\ [FunctionNext]_functionVars => VersionInv'
<1> SUFFICES ASSUME VersionInv, [FunctionNext]_functionVars
             PROVE  VersionInv'
    OBVIOUS
<1>1. CASE UNCHANGED functionVars
    BY <1>1 DEF functionVars, VersionInv, VersionFits, VersionsOf, Known
<1>2. CASE Pass
    <2> DEFINE known == catalog = "arrived" /\ readImage \in Known
    <2>1. /\ name' = IF known THEN FunctionName[readImage] ELSE name
          /\ version' = IF name # previousName /\ previousName # CUSTOM_IMAGE
                        THEN LatestVersion(name)
                        ELSE IF known THEN FunctionVersion[readImage] ELSE version
          /\ previousName' = name
          /\ catalog' = IF catalog = "arrived" THEN "grouped" ELSE catalog
        BY <1>2 DEF Pass
    <2>2. \A n : VersionsOf(n)' = VersionsOf(n)
        BY <2>1 DEF VersionsOf, Known
    <2>3. CASE name # previousName /\ previousName # CUSTOM_IMAGE
        <3>1. name' = name /\ version' \in VersionsOf(name) \cup {""}
            BY <2>1, <2>3, LatestFacts DEF VersionInv
        <3>2. QED BY <2>1, <2>2, <3>1 DEF VersionInv, VersionFits
    <2>4. CASE ~ (name # previousName /\ previousName # CUSTOM_IMAGE) /\ known
        <3>1. version' \in VersionsOf(name')
            BY <2>1, <2>4 DEF VersionsOf
        <3>2. QED BY <2>1, <2>2, <3>1 DEF VersionInv, VersionFits
    <2>5. CASE ~ (name # previousName /\ previousName # CUSTOM_IMAGE) /\ ~ known
        BY <2>1, <2>2, <2>5 DEF VersionInv, VersionFits
    <2>6. QED BY <2>3, <2>4, <2>5
<1>3. CASE CatalogArrives
    <2>1. /\ name' = name /\ version' = version /\ previousName' = previousName
          /\ catalog' = "arrived" /\ name = previousName
          /\ VersionsOf(name) = {}
        BY <1>3, NoVersions DEF CatalogArrives, Settled
    <2>2. QED BY <2>1 DEF VersionInv, VersionFits
<1>4. ASSUME NEW n \in Names, ChooseName(n) PROVE VersionInv'
    <2>1. /\ name' = n /\ version' = version /\ previousName' = previousName
          /\ catalog' = catalog /\ name = previousName /\ n # name /\ catalog # "arrived"
        BY <1>4 DEF ChooseName, Chooses, Settled
    <2>2. previousName = CUSTOM_IMAGE => version \in {"", Partial}
        BY <2>1, NoVersions DEF VersionInv, VersionFits
    <2>3. QED BY <2>1, <2>2 DEF VersionInv, VersionFits
<1>5. ASSUME NEW v \in VersionsOf(name) \cup {Partial}, ChooseVersion(v) PROVE VersionInv'
    BY <1>5 DEF ChooseVersion, VersionInv, VersionFits, VersionsOf, Known
<1>6. ASSUME NEW i \in {OtherImage, "typed image"}, TypeImage(i) PROVE VersionInv'
    BY <1>6 DEF TypeImage, VersionInv, VersionFits, VersionsOf, Known
<1>7. QED BY <1>1, <1>2, <1>3, <1>4, <1>5, <1>6 DEF FunctionNext

(* Whenever the effects are done the version shown is one of the function   *)
(* chosen, whatever was chosen and whenever the catalog came: an effect of  *)
(* an earlier choice never brings its version back.                         *)
THEOREM VersionOfTheFunction == FunctionSpec => []NoForeignVersion
<1>1. FunctionInit => VersionInv
    BY DEF FunctionInit, VersionInv, VersionFits
<1>2. VersionInv => NoForeignVersion
    BY DEF VersionInv, VersionFits, NoForeignVersion, Settled
<1>3. QED BY <1>1, <1>2, VersionStep, PTL DEF FunctionSpec

-----------------------------------------------------------------------------
(* The effects end                                                          *)

NamesDone == previousName = name /\ catalog # "arrived"
ImageDone == NamesDone /\ image = ImageOf(name, version, customImage)

(* What is done after so many passes.                                       *)
PassesInv ==
  /\ passes \in {0, 1, 2, 3, 4}
  /\ passes >= 1 => catalog # "arrived"
  /\ passes >= 2 => NamesDone
  /\ passes >= 3 => ImageDone
  /\ passes >= 4 => Settled

LEMMA PassesStep == PassesInv /\ [FunctionNext]_functionVars => PassesInv'
<1> SUFFICES ASSUME PassesInv, [FunctionNext]_functionVars
             PROVE  PassesInv'
    OBVIOUS
<1>1. CASE UNCHANGED functionVars
    BY <1>1 DEF functionVars, PassesInv, NamesDone, ImageDone, Settled, ImageOf, VersionsOf, Known
<1>2. CASE Pass
    <2>1. /\ ~ Settled /\ passes' = passes + 1 /\ catalog' # "arrived"
          /\ previousName' = name /\ customImage' = customImage
          /\ image' = ImageOf(name, version, customImage) /\ sent' = image
          /\ catalog # "arrived" => name' = name /\ catalog' = catalog
          /\ NamesDone => version' = version
        BY <1>2 DEF Pass, NamesDone
    <2>2. passes \in {0, 1, 2, 3}
        BY <2>1 DEF PassesInv
    <2>3. NamesDone => ImageOf(name, version, customImage)' = ImageOf(name, version, customImage)
        BY <2>1 DEF NamesDone, ImageOf, VersionsOf, Known
    <2>4. passes = 0 => PassesInv'
        BY <2>1 DEF PassesInv
    <2>5. catalog # "arrived" => NamesDone'
        BY <2>1 DEF NamesDone
    <2>6. passes = 1 => PassesInv'
        BY <2>1, <2>5 DEF PassesInv
    <2>7. NamesDone => ImageDone'
        BY <2>1, <2>3, <2>5 DEF ImageDone, NamesDone
    <2>8. passes = 2 => PassesInv'
        BY <2>1, <2>5, <2>7 DEF PassesInv, NamesDone
    <2>9. ImageDone => Settled'
        BY <2>1, <2>3, <2>5 DEF ImageDone, NamesDone, Settled
    <2>10. passes = 3 => PassesInv'
        BY <2>1, <2>5, <2>7, <2>9 DEF PassesInv, ImageDone, NamesDone
    <2>11. QED BY <2>2, <2>4, <2>6, <2>8, <2>10
<1>3. CASE passes' = 0
    BY <1>3 DEF PassesInv
<1>4. QED BY <1>1, <1>2, <1>3 DEF FunctionNext, CatalogArrives, ChooseName, ChooseVersion,
                                 TypeImage, Chooses

(* The effects that set the state of the accordion come to an end after     *)
(* four passes at most, with the image of the function and version shown.   *)
THEOREM EffectsEnd == FunctionSpec => []EffectsSettle
<1>1. FunctionInit => PassesInv
    <2>1. ASSUME passes = 0 PROVE PassesInv
        BY <2>1 DEF PassesInv
    <2>2. QED BY <2>1 DEF FunctionInit
<1>2. PassesInv => EffectsSettle
    <2> SUFFICES ASSUME PassesInv PROVE EffectsSettle
        OBVIOUS
    <2>2. passes <= 4
        BY DEF PassesInv
    <2>3. ASSUME Settled, version \in VersionsOf(name)
          PROVE  FunctionName[sent] = name /\ FunctionVersion[sent] = version
        <3>1. sent = ImageOf(name, version, customImage)
            BY <2>3 DEF Settled
        <3>2. QED BY <2>3, <3>1, ImageFacts
    <2>4. QED BY <2>2, <2>3 DEF EffectsSettle
<1>3. QED BY <1>1, <1>2, PassesStep, PTL DEF FunctionSpec

-----------------------------------------------------------------------------
(* Opening the form                                                         *)

\* the function as it was read; the name tells no function
AsOpened ==
  /\ name = IF readImage = NoImage THEN "" ELSE CUSTOM_IMAGE
  /\ version = "" /\ image = readImage /\ sent = readImage
  /\ catalog = "grouped" => readImage \notin CatalogImages
  /\ previousName = name \/ (previousName = "not rendered" /\ catalog = "awaited")

\* the function found in the catalog
Recognised ==
  /\ readImage \in CatalogImages /\ catalog = "grouped"
  /\ name = FunctionName[readImage] /\ version = FunctionVersion[readImage]
  /\ image = readImage \/ image = ImageOf(name, version, customImage)
  /\ sent = readImage \/ sent = ImageOf(name, version, customImage)
  /\ previousName = CUSTOM_IMAGE \/ previousName = name

OpeningInv ==
  /\ choices \in Nat
  /\ Untouched => /\ customImage = readImage /\ catalog \in {"awaited", "arrived", "grouped"}
                  /\ AsOpened \/ Recognised

LEMMA OpeningStep == OpeningInv /\ [FunctionNext]_functionVars => OpeningInv'
<1> SUFFICES ASSUME OpeningInv, [FunctionNext]_functionVars
             PROVE  OpeningInv'
    OBVIOUS
<1>1. CASE UNCHANGED functionVars
    BY <1>1 DEF functionVars, OpeningInv, Untouched, AsOpened, Recognised, ImageOf, VersionsOf, Known
<1>2. CASE Pass
    <2> SUFFICES ASSUME Untouched PROVE OpeningInv'
        BY <1>2 DEF OpeningInv, Pass, Untouched
    <2> DEFINE known == catalog = "arrived" /\ readImage \in Known
    <2>1. /\ name' = IF known THEN FunctionName[readImage] ELSE name
          /\ version' = IF name # previousName /\ previousName # CUSTOM_IMAGE
                        THEN LatestVersion(name)
                        ELSE IF known THEN FunctionVersion[readImage] ELSE version
          /\ image' = ImageOf(name, version, customImage) /\ sent' = image
          /\ previousName' = name
          /\ catalog' = IF catalog = "arrived" THEN "grouped" ELSE catalog
          /\ UNCHANGED <<readImage, customImage, choices>>
        BY <1>2 DEF Pass
    <2>2. choices' \in Nat /\ customImage' = readImage' /\ customImage = readImage
          /\ catalog' \in {"awaited", "arrived", "grouped"}
        BY <2>1 DEF OpeningInv, Untouched
    <2>3. CASE AsOpened
        <3>1. VersionsOf(name) = {} /\ (name = "" \/ name = CUSTOM_IMAGE)
            BY <2>3, NoVersions DEF AsOpened
        <3>2. LatestVersion(name) = "" /\ ImageOf(name, version, customImage) = readImage
            BY <2>2, <3>1 DEF LatestVersion, ImageOf
        <3>3. image' = readImage' /\ sent' = readImage'
            BY <2>1, <2>3, <3>2 DEF AsOpened
        <3>4. ASSUME ~ known PROVE AsOpened'
            <4>1. version' = "" /\ name' = name
                BY <2>1, <2>3, <3>2, <3>4 DEF AsOpened
            <4>2. catalog' = "grouped" => readImage' \notin CatalogImages
                BY <2>1, <2>3, <3>4 DEF AsOpened, Known
            <4>3. QED BY <2>1, <2>3, <3>3, <4>1, <4>2 DEF AsOpened
        <3>5. ASSUME known PROVE Recognised'
            <4>1. readImage \in CatalogImages /\ readImage # NoImage /\ name = CUSTOM_IMAGE
                BY <2>3, <3>5, FunctionCatalogAssumption DEF AsOpened, Known
            <4>2. previousName = name
                BY <2>3, <3>5 DEF AsOpened
            <4>3. QED BY <2>1, <3>3, <3>5, <4>1, <4>2 DEF Recognised
        <3>6. QED BY <2>2, <3>4, <3>5 DEF OpeningInv
    <2>4. CASE Recognised
        <3>1. name' = name /\ version' = version /\ catalog' = catalog
            BY <2>1, <2>4 DEF Recognised
        <3>2. ImageOf(name, version, customImage)' = ImageOf(name, version, customImage)
            BY <2>1, <3>1 DEF ImageOf, VersionsOf, Known
        <3>3. Recognised'
            BY <2>1, <2>4, <3>1, <3>2 DEF Recognised
        <3>4. QED BY <2>2, <3>3 DEF OpeningInv
    <2>5. QED BY <2>3, <2>4 DEF OpeningInv
<1>3. CASE CatalogArrives
    <2>1. ASSUME Untouched PROVE AsOpened /\ AsOpened'
        BY <1>3, <2>1 DEF OpeningInv, CatalogArrives, Settled, AsOpened, Recognised
    <2>2. QED BY <1>3, <2>1 DEF OpeningInv, CatalogArrives, Untouched
<1>4. ASSUME choices' = choices + 1 PROVE OpeningInv'
    BY <1>4 DEF OpeningInv, Untouched
<1>5. QED BY <1>1, <1>2, <1>3, <1>4 DEF FunctionNext, ChooseName, ChooseVersion, TypeImage, Chooses

(* Opening a form, with a catalog that comes at any time, leaves the         *)
(* function its image, or one of the same name and version.                  *)
THEOREM OpeningChangesNoVersion == FunctionSpec => []OpeningKeepsTheImage
<1>1. FunctionInit => OpeningInv
    <2> SUFFICES ASSUME FunctionInit PROVE OpeningInv
        OBVIOUS
    <2>1. choices \in Nat
        BY DEF FunctionInit
    <2>2. AsOpened /\ customImage = readImage /\ catalog = "awaited"
        BY DEF FunctionInit, AsOpened
    <2>3. QED BY <2>1, <2>2 DEF OpeningInv
<1>2. OpeningInv => OpeningKeepsTheImage
    <2> SUFFICES ASSUME OpeningInv, Untouched, sent # readImage
                 PROVE  /\ sent \in CatalogImages
                        /\ FunctionName[sent] = FunctionName[readImage]
                        /\ FunctionVersion[sent] = FunctionVersion[readImage]
        BY DEF OpeningKeepsTheImage
    <2>1. Recognised /\ sent = ImageOf(name, version, customImage)
        BY DEF OpeningInv, AsOpened, Recognised
    <2>2. version \in VersionsOf(name)
        BY <2>1 DEF Recognised, VersionsOf, Known
    <2>3. QED BY <2>1, <2>2, ImageFacts DEF Recognised
<1>3. QED BY <1>1, <1>2, OpeningStep, PTL DEF FunctionSpec

-----------------------------------------------------------------------------
(* The items of a roster, listed in the order of their keys                 *)

(* The elements of a finite set, in an order of all of them, have as many   *)
(* others before them as there are numbers below the size of the set.       *)
StrictOrder(R, S) ==
  /\ \A x \in S : <<x, x>> \notin R
  /\ \A x, y \in S : x = y \/ <<x, y>> \in R \/ <<y, x>> \in R
  /\ \A x, y, z \in S : <<x, y>> \in R /\ <<y, z>> \in R => <<x, z>> \in R

Before(R, S, x) == {y \in S : <<y, x>> \in R}

LEMMA MoreBefore ==
    ASSUME NEW S, IsFiniteSet(S), NEW R, StrictOrder(R, S),
           NEW x \in S, NEW y \in S, <<x, y>> \in R
    PROVE  Cardinality(Before(R, S, x)) # Cardinality(Before(R, S, y))
<1>1. Before(R, S, x) \in SUBSET Before(R, S, y)
    BY DEF Before, StrictOrder
<1>2. x \in Before(R, S, y) /\ x \notin Before(R, S, x)
    BY DEF Before, StrictOrder
<1>3. IsFiniteSet(Before(R, S, y))
    <2>1. Before(R, S, y) \in SUBSET S
        BY DEF Before
    <2>2. QED BY <2>1, FS_Subset
<1>4. Cardinality(Before(R, S, y)) = Cardinality(Before(R, S, x)) =>
        Before(R, S, y) = Before(R, S, x)
    BY <1>1, <1>3, FS_Subset
<1>5. QED BY <1>2, <1>4

LEMMA FewerBefore ==
    ASSUME NEW S, IsFiniteSet(S), NEW R, StrictOrder(R, S), NEW x \in S
    PROVE  /\ Cardinality(S) \in Nat
           /\ Cardinality(Before(R, S, x)) \in 0 .. (Cardinality(S) - 1)
<1>1. Before(R, S, x) \in SUBSET (S \ {x})
    BY DEF Before, StrictOrder
<1>2. /\ IsFiniteSet(S \ {x})
      /\ Cardinality(S \ {x}) = Cardinality(S) - 1
    BY FS_RemoveElement
<1>3. /\ IsFiniteSet(Before(R, S, x))
      /\ Cardinality(Before(R, S, x)) <= Cardinality(S \ {x})
    BY <1>1, <1>2, FS_Subset
<1>4. Cardinality(Before(R, S, x)) \in Nat /\ Cardinality(S) \in Nat
    BY <1>3, FS_CardinalityType
<1>5. QED BY <1>2, <1>3, <1>4

LEMMA Ranking ==
    ASSUME NEW S, IsFiniteSet(S), NEW R, StrictOrder(R, S)
    PROVE  \A n \in 0 .. (Cardinality(S) - 1) :
             \E x \in S : Cardinality(Before(R, S, x)) = n
<1> DEFINE k == Cardinality(S)
           T == 0 .. (k - 1)
           rank == [x \in S |-> Cardinality(Before(R, S, x))]
<1>1. k \in Nat
    BY FS_CardinalityType
<1>2. rank \in [S -> T]
    BY FewerBefore
<1>3. \A x, y \in S : rank[x] = rank[y] => x = y
    <2> SUFFICES ASSUME NEW x \in S, NEW y \in S, x # y PROVE rank[x] # rank[y]
        OBVIOUS
    <2>1. CASE <<x, y>> \in R
        BY <2>1, MoreBefore
    <2>2. CASE <<y, x>> \in R
        BY <2>2, MoreBefore
    <2>3. QED BY <2>1, <2>2 DEF StrictOrder
<1>4. IsFiniteSet(T) /\ Cardinality(T) = k
    <2> HIDE DEF k
    <2>1. 0 \in Int /\ k - 1 \in Int
        BY <1>1
    <2>2. IsFiniteSet(0 .. (k - 1)) /\ Cardinality(0 .. (k - 1)) = IF 0 > k - 1 THEN 0 ELSE (k - 1) - 0 + 1
        BY <2>1, FS_Interval
    <2>3. QED BY <1>1, <2>2
<1>5. rank \in Surjection(S, T)
    <2> HIDE DEF rank, T
    <2>1. rank \in Injection(S, T)
        BY <1>2, <1>3 DEF Injection, IsInjective
    <2>2. QED BY <1>4, <2>1, FS_Injection
<1>6. \A n \in T : \E x \in S : rank[x] = n
    <2> HIDE DEF rank, T
    <2>1. QED BY <1>5 DEF Surjection
<1>7. QED BY <1>6

(* Where the keys of the items are integers, and that they come first, puts *)
(* the items in an order: two of one key in that of the list.               *)
LEMMA KeyPlaceType == \A k : KeyPlace(k) \in Nat
<1> SUFFICES ASSUME NEW k PROVE KeyPlace(k) \in Nat
    OBVIOUS
<1>1. Len(IntegerKeys) \in Nat /\ DOMAIN IntegerKeys = 1 .. Len(IntegerKeys)
    BY IntegerKeysAssumption
<1>2. CASE k \in Range(IntegerKeys)
    <2>1. \E n \in DOMAIN IntegerKeys : IntegerKeys[n] = k
        BY <1>2 DEF Range
    <2>2. KeyPlace(k) \in DOMAIN IntegerKeys
        BY <1>2, <2>1 DEF KeyPlace
    <2>3. QED BY <1>1, <2>2
<1>3. CASE k \notin Range(IntegerKeys)
    BY <1>1, <1>3 DEF KeyPlace
<1>4. QED BY <1>2, <1>3

ListedOrder(items) ==
  {p \in FirstsOfKeys(items) \X FirstsOfKeys(items) : ListedBefore(items, p[1], p[2])}

LEMMA FirstsFinite ==
    ASSUME NEW T, NEW items \in Seq(T)
    PROVE  /\ IsFiniteSet(DOMAIN items) /\ Cardinality(DOMAIN items) = Len(items)
           /\ FirstsOfKeys(items) \in SUBSET DOMAIN items
           /\ IsFiniteSet(FirstsOfKeys(items))
           /\ Cardinality(FirstsOfKeys(items)) \in Nat
<1>1. DOMAIN items = 1 .. Len(items) /\ Len(items) \in Nat
    OBVIOUS
<1>2. IsFiniteSet(DOMAIN items) /\ Cardinality(DOMAIN items) = Len(items)
    <2>1. 1 \in Int /\ Len(items) \in Int
        BY <1>1
    <2>2. /\ IsFiniteSet(1 .. Len(items))
          /\ Cardinality(1 .. Len(items)) = IF 1 > Len(items) THEN 0 ELSE Len(items) - 1 + 1
        BY <2>1, FS_Interval
    <2>3. QED BY <1>1, <2>2
<1>3. FirstsOfKeys(items) \in SUBSET DOMAIN items
    BY DEF FirstsOfKeys
<1>4. QED BY <1>2, <1>3, FS_Subset, FS_CardinalityType

LEMMA ListedOrderIsStrict ==
    ASSUME NEW T, NEW items \in Seq(T)
    PROVE  StrictOrder(ListedOrder(items), FirstsOfKeys(items))
<1> DEFINE S == FirstsOfKeys(items)
           R == ListedOrder(items)
           p(i) == KeyPlace(items[i].key)
<1>1. \A i \in S : i \in Nat
    BY FirstsFinite
<1>2. \A i \in S : p(i) \in Nat
    BY KeyPlaceType
<1>3. \A i, j \in S : <<i, j>> \in R <=> (p(i) < p(j) \/ (p(i) = p(j) /\ i < j))
    BY DEF ListedOrder, ListedBefore
<1> HIDE DEF S, R, p
<1>4. \A i \in S : <<i, i>> \notin R
    BY <1>1, <1>2, <1>3
<1>5. ASSUME NEW i \in S, NEW j \in S PROVE i = j \/ <<i, j>> \in R \/ <<j, i>> \in R
    <2>1. p(i) < p(j) \/ p(j) < p(i) \/ (p(i) = p(j) /\ (i < j \/ j < i \/ i = j))
        BY <1>1, <1>2
    <2>2. QED BY <1>3, <2>1
<1>6. ASSUME NEW i \in S, NEW j \in S, NEW k \in S, <<i, j>> \in R, <<j, k>> \in R
      PROVE  <<i, k>> \in R
    <2>1. p(i) < p(j) \/ (p(i) = p(j) /\ i < j)
        BY <1>3, <1>6
    <2>2. p(j) < p(k) \/ (p(j) = p(k) /\ j < k)
        BY <1>3, <1>6
    <2>3. p(i) < p(k) \/ (p(i) = p(k) /\ i < k)
        BY <1>1, <1>2, <2>1, <2>2
    <2>4. QED BY <1>3, <2>3
<1>7. StrictOrder(R, S)
    BY <1>4, <1>5, <1>6 DEF StrictOrder
<1>8. QED BY <1>7 DEF R, S

(* The last item with the key of one of the items.                          *)
LEMMA LastExists ==
    ASSUME NEW T, NEW items \in Seq(T), NEW i \in DOMAIN items
    PROVE  /\ LastOfKey(items, i) \in DOMAIN items
           /\ items[LastOfKey(items, i)].key = items[i].key
<1> DEFINE n == Len(items)
           S == {m \in 0 .. n : n - m \in DOMAIN items /\ items[n - m].key = items[i].key}
<1>1. n \in Nat /\ DOMAIN items = 1 .. n /\ i \in 1 .. n
    OBVIOUS
<1> HIDE DEF n
<1>2. n - i \in 0 .. n /\ n - (n - i) = i
    BY <1>1
<1>3. S # {} /\ S \in SUBSET Nat
    BY <1>1, <1>2
<1>4. PICK m \in S : \A l \in S : m <= l
    <2> HIDE DEF S
    <2>1. QED BY <1>3, LeastExists
<1>5. n - m \in DOMAIN items /\ items[n - m].key = items[i].key
    BY <1>4
<1>6. ASSUME NEW k \in DOMAIN items, items[k].key = items[i].key PROVE k <= n - m
    <2>1. n - k \in 0 .. n /\ n - (n - k) = k
        BY <1>1
    <2>2. n - k \in S
        BY <1>6, <2>1
    <2>3. QED BY <1>1, <1>4, <2>2
<1>7. \E j \in DOMAIN items :
        /\ items[j].key = items[i].key
        /\ \A k \in DOMAIN items : items[k].key = items[i].key => k <= j
    BY <1>5, <1>6
<1>8. QED BY <1>7 DEF LastOfKey

(* The entries are the items that are the last of their keys.               *)
LEMMA EntriesAre ==
    ASSUME NEW T, NEW items \in Seq(T)
    PROVE  /\ EntriesOf(items) \in Seq(T)
           /\ Len(EntriesOf(items)) = Cardinality(FirstsOfKeys(items))
           /\ \A n \in DOMAIN EntriesOf(items) :
                \E i \in FirstsOfKeys(items) : EntriesOf(items)[n] = items[LastOfKey(items, i)]
           /\ \A i \in FirstsOfKeys(items) :
                \E n \in DOMAIN EntriesOf(items) : EntriesOf(items)[n] = items[LastOfKey(items, i)]
<1> DEFINE S == FirstsOfKeys(items)
           R == ListedOrder(items)
           c == Cardinality(S)
           before(i) == Cardinality({j \in S : ListedBefore(items, j, i)})
           the(n) == CHOOSE i \in S : before(i) = n - 1
           entries == [n \in 1 .. c |-> items[LastOfKey(items, the(n))]]
<1>1. IsFiniteSet(S) /\ c \in Nat /\ S \in SUBSET DOMAIN items
    BY FirstsFinite
<1>2. StrictOrder(R, S)
    BY ListedOrderIsStrict
<1>3. EntriesOf(items) = entries
    BY DEF EntriesOf
<1>4. \A i \in S : before(i) = Cardinality(Before(R, S, i))
    <2>1. \A i \in S : Before(R, S, i) = {j \in S : ListedBefore(items, j, i)}
        BY DEF Before, ListedOrder
    <2>2. QED BY <2>1
<1> HIDE DEF R, S, c, before
<1>5. \A n \in 1 .. c : the(n) \in S /\ before(the(n)) = n - 1
    <2>1. \A n \in 1 .. c : n - 1 \in 0 .. (c - 1)
        BY <1>1
    <2>2. \A m \in 0 .. (c - 1) : \E i \in S : before(i) = m
        BY <1>1, <1>2, <1>4, Ranking DEF c
    <2>3. QED BY <2>1, <2>2
<1>6. \A i \in S : before(i) + 1 \in 1 .. c /\ the(before(i) + 1) = i
    <2> TAKE i \in S
    <2>1. before(i) \in 0 .. (c - 1)
        BY <1>1, <1>2, <1>4, FewerBefore DEF c
    <2>2. before(i) + 1 \in 1 .. c /\ (before(i) + 1) - 1 = before(i)
        BY <1>1, <2>1
    <2>3. the(before(i) + 1) \in S /\ before(the(before(i) + 1)) = before(i)
        BY <1>5, <2>2
    <2> HIDE DEF the
    <2> DEFINE j == the(before(i) + 1)
    <2>4. j \in S /\ before(j) = before(i)
        BY <2>3
    <2> HIDE DEF j
    <2>5. ~ (<<i, j>> \in R) /\ ~ (<<j, i>> \in R)
        BY <1>1, <1>2, <1>4, <2>4, MoreBefore
    <2>6. i = j
        BY <1>2, <2>4, <2>5 DEF StrictOrder
    <2>7. QED BY <2>2, <2>6 DEF j
<1> HIDE DEF the
<1>7. \A i \in S : items[LastOfKey(items, i)] \in T
    <2>1. \A i \in S : LastOfKey(items, i) \in DOMAIN items
        BY <1>1, LastExists
    <2>2. QED BY <2>1
<1>8. entries \in [1 .. c -> T]
    BY <1>5, <1>7
<1>9. \A n \in 1 .. c : entries[n] = items[LastOfKey(items, the(n))]
    OBVIOUS
<1> HIDE DEF entries
<1>10. entries \in Seq(T) /\ Len(entries) = c /\ DOMAIN entries = 1 .. c
    BY <1>1, <1>8
<1>11. \A n \in DOMAIN entries : \E i \in S : entries[n] = items[LastOfKey(items, i)]
    BY <1>5, <1>9, <1>10
<1>12. \A i \in S : \E n \in DOMAIN entries : entries[n] = items[LastOfKey(items, i)]
    BY <1>6, <1>9, <1>10
<1>13. QED BY <1>3, <1>10, <1>11, <1>12 DEF S, c

Distinct(items) == \A i, j \in DOMAIN items : items[i].key = items[j].key => i = j

(* Items with keys of their own are all entries.                            *)
LEMMA DistinctEntries ==
    ASSUME NEW T, NEW items \in Seq(T), Distinct(items)
    PROVE  Len(EntriesOf(items)) = Len(items) /\ Range(EntriesOf(items)) = Range(items)
<1> DEFINE S == FirstsOfKeys(items)
           entries == EntriesOf(items)
<1>1. \A i, j \in DOMAIN items : items[i].key = items[j].key => i = j
    BY DEF Distinct
<1>2. \A i \in DOMAIN items : i <= i
    OBVIOUS
<1>3. S = DOMAIN items
    BY <1>1, <1>2 DEF FirstsOfKeys
<1>4. \A i \in DOMAIN items : LastOfKey(items, i) = i
    BY <1>1, LastExists
<1>5. Len(entries) = Len(items)
    BY <1>3, FirstsFinite, EntriesAre
<1>6. /\ \A n \in DOMAIN entries : \E i \in S : entries[n] = items[LastOfKey(items, i)]
      /\ \A i \in S : \E n \in DOMAIN entries : entries[n] = items[LastOfKey(items, i)]
    BY EntriesAre
<1> HIDE DEF S, entries
<1>7. /\ \A n \in DOMAIN entries : \E i \in DOMAIN items : entries[n] = items[i]
      /\ \A i \in DOMAIN items : \E n \in DOMAIN entries : entries[n] = items[i]
    BY <1>3, <1>4, <1>6
<1>8. Range(entries) = Range(items)
    BY <1>7 DEF Range
<1>9. QED BY <1>5, <1>8 DEF entries

(* Where there are as many entries as items, the items have keys of their   *)
(* own.                                                                     *)
LEMMA AsManyEntries ==
    ASSUME NEW T, NEW items \in Seq(T), Len(EntriesOf(items)) = Len(items)
    PROVE  Distinct(items)
<1>1. Cardinality(FirstsOfKeys(items)) = Cardinality(DOMAIN items)
    BY FirstsFinite, EntriesAre
<1>2. FirstsOfKeys(items) = DOMAIN items
    BY <1>1, FirstsFinite, FS_Subset
<1>3. ASSUME NEW i \in DOMAIN items, NEW j \in DOMAIN items, items[i].key = items[j].key
      PROVE  i = j
    <2>1. i <= j /\ j <= i
        BY <1>2, <1>3 DEF FirstsOfKeys
    <2>2. i \in Nat /\ j \in Nat
        OBVIOUS
    <2>3. QED BY <2>1, <2>2
<1>4. QED BY <1>3 DEF Distinct

LEMMA ValueOfItems ==
    ASSUME NEW T, NEW items \in Seq(T)
    PROVE  /\ valueFromItemChunks(items) \in Seq(T)
           /\ Len(valueFromItemChunks(items)) = Len(items) <=> Legal(items)
           /\ Legal(items) => Range(valueFromItemChunks(items)) = Range(items)
           /\ ~ IsObject => valueFromItemChunks(items) = items
<1>1. CASE IsObject
    <2>1. valueFromItemChunks(items) = EntriesOf(items) /\ (Legal(items) <=> Distinct(items))
        BY <1>1 DEF valueFromItemChunks, Legal, Distinct
    <2>2. EntriesOf(items) \in Seq(T)
        BY EntriesAre
    <2>3. Distinct(items) => Len(EntriesOf(items)) = Len(items) /\ Range(EntriesOf(items)) = Range(items)
        BY DistinctEntries
    <2>4. Len(EntriesOf(items)) = Len(items) => Distinct(items)
        BY AsManyEntries
    <2>5. QED BY <1>1, <2>1, <2>2, <2>3, <2>4
<1>2. CASE ~ IsObject
    BY <1>2 DEF valueFromItemChunks, Legal
<1>3. QED BY <1>1, <1>2

-----------------------------------------------------------------------------
(* The parametric editor                                                    *)

ItemKeys == KeyTexts \cup {"", IndexKey, "a", "b"}
ItemValues == {"", null, undefined, "read1", "read2"} \cup Range(ItemTexts)
Items == [key : ItemKeys, value : ItemValues]
PxeTexts == {"read", undefined} \cup Range(ItemTexts)
PxeResources == [text : PxeTexts, items : Seq(Items)]

(* The YAML is what the resource of the editor is written as, and the       *)
(* roster shows what the resource has unless keys are equal.                *)
PxeInv ==
  /\ itemChunks \in Seq(Items)
  /\ pxeResource \in PxeResources
  /\ pxeChanges \in Nat
  /\ pxeYaml = Dumped(pxeResource)
  /\ Legal(itemChunks) => itemChunks = pxeResource.items

(* What was written is written again as it is.                              *)
LEMMA DumpedTwice ==
    ASSUME NEW resource \in PxeResources
    PROVE  Dumped(resource) \in PxeResources /\ Dumped(Dumped(resource)) = Dumped(resource)
<1> DEFINE list == resource.items
           S == {item \in Range(list) : item.value # undefined}
           kept == Among(list, S)
           U == {item \in Range(kept) : item.value # undefined}
<1>1. list \in Seq(Items) /\ resource = [text |-> resource.text, items |-> list] /\ resource.text \in PxeTexts
    BY DEF PxeResources
<1>2. kept \in Seq(Items \cap S)
    <2> HIDE DEF S, list
    <2>1. QED BY <1>1, AmongType
<1>3. Dumped(resource) = [resource EXCEPT !.items = kept]
    BY DEF Dumped
<1>4. kept \in Seq(Items) /\ kept \in Seq(S) /\ Range(kept) \in SUBSET S
    <2> HIDE DEF kept, S
    <2>1. QED BY <1>2 DEF Range
<1>5. Dumped(resource) = [text |-> resource.text, items |-> kept]
    <2> HIDE DEF kept
    <2>1. QED BY <1>1, <1>3
<1>6. Dumped(Dumped(resource)) = [text |-> resource.text, items |-> Among(kept, U)]
    <2> DEFINE dumped == Dumped(resource)
    <2>1. Dumped(dumped) = [dumped EXCEPT !.items = Among(@, {item \in Range(@) : item.value # undefined})]
        BY DEF Dumped
    <2> HIDE DEF dumped
    <2>2. dumped = [text |-> resource.text, items |-> kept]
        BY <1>5 DEF dumped
    <2> HIDE DEF kept
    <2>3. QED BY <2>1, <2>2 DEF dumped
<1>7. U = Range(kept)
    <2> HIDE DEF kept
    <2>1. \A item \in Range(kept) : item.value # undefined
        BY <1>4
    <2>2. QED BY <2>1
<1>8. Among(kept, U) = kept
    <2> HIDE DEF kept, U
    <2>1. kept \in Seq(U)
        BY <1>4, <1>7 DEF Range
    <2>2. QED BY <2>1, AmongAll
<1>9. [text |-> resource.text, items |-> kept] \in PxeResources
    <2> HIDE DEF kept
    <2>1. QED BY <1>1, <1>4 DEF PxeResources
<1>10. QED BY <1>5, <1>6, <1>8, <1>9

LEMMA RemovedItem ==
    ASSUME NEW T, NEW items \in Seq(T), NEW i \in DOMAIN items
    PROVE  /\ RemoveAt(items, i) \in Seq(T)
           /\ Len(RemoveAt(items, i)) = Len(items) - 1
           /\ \A j \in 1 .. (Len(items) - 1) :
                RemoveAt(items, i)[j] = IF j < i THEN items[j] ELSE items[j + 1]
<1> DEFINE front == SubSeq(items, 1, i - 1)
           back == SubSeq(items, i + 1, Len(items))
<1>1. i \in 1 .. Len(items) /\ Len(items) \in Nat
    OBVIOUS
<1>2. /\ front \in Seq(T) /\ Len(front) = i - 1
      /\ \A j \in 1 .. (i - 1) : front[j] = items[j]
    BY <1>1
<1>3. /\ back \in Seq(T) /\ Len(back) = Len(items) - i
      /\ \A j \in 1 .. (Len(items) - i) : back[j] = items[i + j]
    BY <1>1
<1>4. RemoveAt(items, i) = front \o back
    BY DEF RemoveAt
<1> HIDE DEF front, back
<1>5. /\ front \o back \in Seq(T) /\ Len(front \o back) = Len(items) - 1
      /\ \A j \in 1 .. (Len(items) - 1) :
           (front \o back)[j] = IF j < i THEN front[j] ELSE back[j - (i - 1)]
    BY <1>1, <1>2, <1>3
<1>6. \A j \in 1 .. (Len(items) - 1) : j < i => j \in 1 .. (i - 1)
    BY <1>1
<1>7. \A j \in 1 .. (Len(items) - 1) :
        ~ (j < i) => j - (i - 1) \in 1 .. (Len(items) - i) /\ i + (j - (i - 1)) = j + 1
    BY <1>1
<1>8. ASSUME NEW j \in 1 .. (Len(items) - 1)
      PROVE  (front \o back)[j] = IF j < i THEN items[j] ELSE items[j + 1]
    <2>1. CASE j < i
        BY <1>2, <1>5, <1>6, <2>1
    <2>2. CASE ~ (j < i)
        <3>1. j - (i - 1) \in 1 .. (Len(items) - i) /\ i + (j - (i - 1)) = j + 1
            BY <1>7, <2>2
        <3>2. back[j - (i - 1)] = items[i + (j - (i - 1))]
            BY <1>3, <3>1
        <3>3. QED BY <1>5, <2>2, <3>1, <3>2
    <2>3. QED BY <2>1, <2>2
<1>9. QED BY <1>4, <1>5, <1>8

(* A request that a roster with keys of their own makes says something new, *)
(* so what the editor has then is what the roster shows.                    *)
LEMMA Requested ==
    ASSUME PxeInv, NEW items \in Seq(Items), Requests, RequestItems(items),
           IsObject /\ Legal(itemChunks) =>
             Range(valueFromItemChunks(items)) # Range(itemChunks)
    PROVE  PxeInv'
<1> DEFINE value == valueFromItemChunks(items)
           resource == [pxeResource EXCEPT !.items = value]
<1>1. value \in Seq(Items)
    BY ValueOfItems
<1>2. /\ pxeResource' = resource /\ pxeYaml' = Dumped(resource)
      /\ itemChunks' = IF IsEqual(resource.items, pxeResource.items) THEN itemChunks ELSE resource.items
    BY DEF RequestItems, RequestChange
<1>3. /\ itemChunks \in Seq(Items) /\ pxeResource \in PxeResources /\ pxeChanges \in Nat
      /\ Legal(itemChunks) => itemChunks = pxeResource.items
    BY DEF PxeInv
<1>4. pxeChanges' = pxeChanges + 1 /\ roster' = roster
    BY DEF Requests
<1> HIDE DEF value
<1>5. resource \in PxeResources /\ resource.items = value
    BY <1>1, <1>3 DEF PxeResources
<1> HIDE DEF resource
<1>6. itemChunks' \in Seq(Items) /\ pxeResource' \in PxeResources /\ pxeChanges' \in Nat
    BY <1>1, <1>2, <1>3, <1>4, <1>5
<1>7. ASSUME Legal(itemChunks)' PROVE itemChunks' = pxeResource'.items
    <2>1. CASE ~ IsEqual(value, pxeResource.items)
        BY <1>2, <1>5, <2>1
    <2>2. CASE IsEqual(value, pxeResource.items)
        <3>1. itemChunks' = itemChunks
            BY <1>2, <1>5, <2>2
        <3>2. Legal(itemChunks)
            BY <1>4, <1>7, <3>1 DEF Legal, IsObject
        <3>3. ~ IsObject
            BY <1>3, <2>2, <3>2 DEF IsEqual, value
        <3>4. QED BY <1>2, <1>3, <1>5, <2>2, <3>1, <3>2, <3>3 DEF IsEqual
    <2>3. QED BY <2>1, <2>2
<1>8. pxeYaml' = Dumped(pxeResource')
    BY <1>2
<1>9. Dumped(pxeResource)' = Dumped(pxeResource')
    BY DEF Dumped
<1>Q. QED BY <1>6, <1>7, <1>8, <1>9 DEF PxeInv

LEMMA InitPxe == PxeInit => PxeInv
<1> SUFFICES ASSUME PxeInit PROVE PxeInv
    OBVIOUS
<1>1. PICK items \in {<<>>, ItemsRead} : pxeResource = [text |-> "read", items |-> items]
    BY DEF PxeInit
<1>2. /\ Item("a", "read1") \in Items /\ Item("b", "read2") \in Items
      /\ Item(IndexKey, "read1") \in Items /\ Item(IndexKey, "read2") \in Items
    BY DEF Items, ItemKeys, ItemValues, Item
<1>3. items \in Seq(Items)
    <2>1. \A x, y \in Items : <<x, y>> \in Seq(Items)
        OBVIOUS
    <2>2. <<>> \in Seq(Items)
        OBVIOUS
    <2>3. ItemsRead \in Seq(Items)
        BY <1>2, <2>1 DEF ItemsRead
    <2>4. QED BY <2>2, <2>3
<1>4. pxeResource \in PxeResources
    BY <1>1, <1>3 DEF PxeResources, PxeTexts
<1> DEFINE S == {item \in Range(items) : item.value # undefined}
<1>5. \A i \in DOMAIN items : items[i].value # undefined
    BY DEF ItemsRead, Item, undefined
<1>6. items \in Seq(S)
    <2>1. \A i \in DOMAIN items : items[i] \in S
        BY <1>5 DEF Range
    <2> HIDE DEF S
    <2>2. QED BY <1>3, <2>1
<1>7. Among(items, S) = items
    <2> HIDE DEF S
    <2>1. QED BY <1>6, AmongAll
<1>8. Dumped(pxeResource) = pxeResource
    <2>1. Dumped(pxeResource) = [pxeResource EXCEPT !.items = Among(items, S)]
        BY <1>1 DEF Dumped
    <2> HIDE DEF S
    <2>2. QED BY <1>1, <1>7, <2>1
<1>9. QED BY <1>1, <1>3, <1>4, <1>8 DEF PxeInit, PxeInv

LEMMA TextPxe ==
    ASSUME PxeInv, NEW text \in TypedTexts, TypeText(text)
    PROVE  PxeInv'
<1> DEFINE resource == [pxeResource EXCEPT !.text = IF text = "" THEN undefined ELSE text]
<1>1. /\ pxeResource' = resource /\ pxeYaml' = Dumped(resource)
      /\ itemChunks' = IF IsEqual(resource.items, pxeResource.items) THEN itemChunks ELSE resource.items
      /\ pxeChanges' = pxeChanges + 1 /\ roster' = roster
    BY DEF TypeText, RequestChange, Requests
<1>2. /\ itemChunks \in Seq(Items) /\ pxeResource \in PxeResources /\ pxeChanges \in Nat
      /\ Legal(itemChunks) => itemChunks = pxeResource.items
    BY DEF PxeInv
<1>3. text # "" => text \in Range(ItemTexts)
    <2>1. ASSUME MayRequest PROVE pxeChanges + 1 \in DOMAIN ItemTexts
        BY <1>2, <2>1, ItemTextsAssumption DEF MayRequest
    <2>2. QED BY <2>1 DEF TypedTexts, Range
<1>4. resource \in PxeResources /\ resource.items = pxeResource.items
    BY <1>2, <1>3 DEF PxeResources, PxeTexts
<1> HIDE DEF resource
<1>5. itemChunks' = itemChunks
    BY <1>1, <1>4 DEF IsEqual
<1>6. Legal(itemChunks)' => Legal(itemChunks)
    BY <1>1, <1>5 DEF Legal, IsObject
<1>7. Dumped(pxeResource)' = Dumped(pxeResource')
    BY DEF Dumped
<1>8. QED BY <1>1, <1>2, <1>4, <1>5, <1>6, <1>7 DEF PxeInv

NewItem == Item(IF IsObject THEN "" ELSE IndexKey, IF roster.isRequired THEN "" ELSE null)

LEMMA Appended ==
    ASSUME NEW T, NEW items \in Seq(T), NEW x \in T
    PROVE  /\ Len(items) \in Nat /\ DOMAIN items = 1 .. Len(items)
           /\ Append(items, x) \in Seq(T)
           /\ DOMAIN Append(items, x) = 1 .. (Len(items) + 1)
           /\ Append(items, x)[Len(items) + 1] = x
           /\ \A i \in DOMAIN items : Append(items, x)[i] = items[i]
<1> DEFINE longer == Append(items, x)
<1>1. /\ Len(items) \in Nat /\ longer \in Seq(T) /\ Len(longer) = Len(items) + 1
      /\ longer[Len(items) + 1] = x /\ \A i \in 1 .. Len(items) : longer[i] = items[i]
    OBVIOUS
<1> HIDE DEF longer
<1>2. DOMAIN longer = 1 .. Len(longer) /\ DOMAIN items = 1 .. Len(items)
    BY <1>1
<1>3. QED BY <1>1, <1>2 DEF longer

MayAdd(items) == IsObject => \A i \in DOMAIN items : items[i].key # ""

LEMMA ItemAdded ==
    ASSUME NEW items \in Seq(Items),
           MayAdd(items)
    PROVE  /\ Append(items, NewItem) \in Seq(Items)
           /\ NewItem \in Range(Append(items, NewItem))
           /\ \A j \in DOMAIN items : items[j] \in Range(Append(items, NewItem))
           /\ Legal(items) => Legal(Append(items, NewItem))
           /\ IsObject => NewItem \notin Range(items)
<1> DEFINE new == NewItem
           longer == Append(items, new)
           k == Len(items)
<1>1. new \in Items
    BY DEF NewItem, Item, Items, ItemKeys, ItemValues
<1>2. IsObject => new.key = ""
    BY DEF NewItem, Item
<1> HIDE DEF new
<1>3. /\ k \in Nat /\ DOMAIN items = 1 .. k /\ longer \in Seq(Items)
      /\ longer[k + 1] = new /\ \A i \in 1 .. k : longer[i] = items[i]
    BY <1>1, Appended
<1>4. DOMAIN longer = 1 .. (k + 1)
    BY <1>1, Appended
<1> HIDE DEF longer, k
<1>5. IsObject => \A i \in 1 .. k : items[i].key # ""
    BY <1>3 DEF MayAdd
<1>6. ASSUME Legal(items), IsObject, NEW i \in DOMAIN longer, NEW j \in DOMAIN longer,
             longer[i].key = longer[j].key
      PROVE  i = j
    <2>1. CASE i \in 1 .. k /\ j \in 1 .. k
        BY <1>3, <1>6, <2>1 DEF Legal
    <2>2. CASE i = k + 1 /\ j \in 1 .. k
        BY <1>1, <1>2, <1>3, <1>5, <1>6, <2>2
    <2>3. CASE i \in 1 .. k /\ j = k + 1
        BY <1>1, <1>2, <1>3, <1>5, <1>6, <2>3
    <2>4. (i \in 1 .. k \/ i = k + 1) /\ (j \in 1 .. k \/ j = k + 1)
        BY <1>3, <1>4
    <2>5. QED BY <2>1, <2>2, <2>3, <2>4
<1>7. Legal(items) => Legal(longer)
    BY <1>6 DEF Legal
<1>8. new \in Range(longer) /\ \A j \in DOMAIN items : items[j] \in Range(longer)
    <2>1. k + 1 \in DOMAIN longer /\ \A j \in DOMAIN items : j \in DOMAIN longer
        BY <1>3, <1>4
    <2>2. QED BY <1>3, <2>1 DEF Range
<1>9. IsObject => new \notin Range(items)
    BY <1>1, <1>2, <1>3, <1>5 DEF Range
<1>10. QED BY <1>3, <1>7, <1>8, <1>9 DEF new, longer

LEMMA ItemDeleted ==
    ASSUME NEW items \in Seq(Items), NEW i \in DOMAIN items, Legal(items)
    PROVE  /\ Legal(RemoveAt(items, i))
           /\ \A j \in DOMAIN items \ {i} : items[j] \in Range(RemoveAt(items, i))
           /\ IsObject => items[i] \notin Range(RemoveAt(items, i))
<1> DEFINE fewer == RemoveAt(items, i)
           k == Len(items)
           from(j) == IF j < i THEN j ELSE j + 1
<1>1. k \in Nat /\ DOMAIN items = 1 .. k /\ i \in 1 .. k
    OBVIOUS
<1>2. /\ fewer \in Seq(Items) /\ Len(fewer) = k - 1
      /\ \A j \in 1 .. (k - 1) : fewer[j] = IF j < i THEN items[j] ELSE items[j + 1]
    BY RemovedItem
<1>3. DOMAIN fewer = 1 .. (k - 1)
    <2> HIDE DEF fewer, k
    <2>1. QED BY <1>1, <1>2
<1> HIDE DEF fewer, k
<1>4. \A j \in 1 .. (k - 1) : from(j) \in (1 .. k) \ {i} /\ fewer[j] = items[from(j)]
    BY <1>1, <1>2
<1>5. \A j, l \in 1 .. (k - 1) : from(j) = from(l) => j = l
    BY <1>1
<1> HIDE DEF from
<1>6. Legal(fewer)
    BY <1>1, <1>3, <1>4, <1>5 DEF Legal
<1>7. ASSUME NEW j \in DOMAIN items \ {i} PROVE items[j] \in Range(fewer)
    <2>1. \E l \in 1 .. (k - 1) : from(l) = j
        <3>1. CASE j < i
            <4>1. j \in 1 .. (k - 1) /\ from(j) = j
                BY <1>1, <3>1 DEF from
            <4>2. QED BY <4>1
        <3>2. CASE ~ (j < i)
            <4>1. j - 1 \in 1 .. (k - 1) /\ from(j - 1) = j
                BY <1>1, <3>2 DEF from
            <4>2. QED BY <4>1
        <3>3. QED BY <3>1, <3>2
    <2>2. QED BY <1>3, <1>4, <2>1 DEF Range
<1>8. IsObject => items[i] \notin Range(fewer)
    <2> SUFFICES ASSUME IsObject, NEW j \in 1 .. (k - 1), fewer[j] = items[i] PROVE FALSE
        BY <1>3 DEF Range
    <2>1. from(j) \in (1 .. k) \ {i} /\ items[from(j)].key = items[i].key
        BY <1>4
    <2>2. QED BY <1>1, <2>1 DEF Legal
<1>9. QED BY <1>6, <1>7, <1>8 DEF fewer

LEMMA ItemChanged ==
    ASSUME NEW items \in Seq(Items), NEW i \in DOMAIN items, NEW item \in Items
    PROVE  /\ [items EXCEPT ![i] = item] \in Seq(Items)
           /\ Len([items EXCEPT ![i] = item]) = Len(items)
           /\ \A j \in DOMAIN items \ {i} : items[j] \in Range([items EXCEPT ![i] = item])
           /\ (IsObject /\ Legal(items) /\ item # items[i]) =>
                items[i] \notin Range([items EXCEPT ![i] = item])
<1> DEFINE other == [items EXCEPT ![i] = item]
<1>1. other \in Seq(Items) /\ Len(other) = Len(items) /\ DOMAIN other = DOMAIN items
    OBVIOUS
<1>2. other[i] = item /\ \A j \in DOMAIN items \ {i} : other[j] = items[j]
    OBVIOUS
<1> HIDE DEF other
<1>3. \A j \in DOMAIN items \ {i} : items[j] \in Range(other)
    BY <1>1, <1>2 DEF Range
<1>4. (IsObject /\ Legal(items) /\ item # items[i]) => items[i] \notin Range(other)
    <2> SUFFICES ASSUME IsObject, Legal(items), item # items[i],
                        NEW j \in DOMAIN items, other[j] = items[i]
                 PROVE  FALSE
        BY <1>1 DEF Range
    <2>1. j # i /\ items[j] = items[i]
        BY <1>2
    <2>2. QED BY <2>1 DEF Legal
<1>5. QED BY <1>1, <1>3, <1>4 DEF other

(* What is typed into an item, into its key or its value, is an item other  *)
(* than the one it is typed into.                                           *)
LEMMA TypedItem ==
    ASSUME PxeInv, NEW i \in DOMAIN itemChunks, TypeItem(i)
    PROVE  \E item \in Items : item # itemChunks[i] /\ ChangeItem(i, item)
<1> DEFINE old == itemChunks[i]
<1>1. /\ old \in Items /\ old = [key |-> old.key, value |-> old.value]
      /\ old.key \in ItemKeys /\ old.value \in ItemValues
    <2>1. old \in Items
        BY DEF PxeInv
    <2> HIDE DEF old
    <2>2. QED BY <2>1 DEF Items
<1>2. CASE \E k \in KeyTexts : TypeKey(i, k)
    <2>1. PICK k \in KeyTexts : TypeKey(i, k)
        BY <1>2
    <2> DEFINE item == [old EXCEPT !.key = k]
    <2>2. k # old.key /\ ChangeItem(i, item)
        BY <2>1 DEF TypeKey
    <2>3. item \in Items /\ item # old
        BY <1>1, <2>2 DEF Items, ItemKeys
    <2>4. QED BY <2>2, <2>3
<1>3. CASE \E v \in TypedTexts : TypeValue(i, v)
    <2>1. PICK v \in TypedTexts : TypeValue(i, v)
        BY <1>3
    <2> DEFINE w == IF v = "" /\ ~ roster.isRequired THEN undefined ELSE v
               item == [old EXCEPT !.value = w]
    <2>2. v # Shows(old.value) /\ ChangeItem(i, item)
        BY <2>1 DEF TypeValue
    <2>3. v = "" \/ (v \in Range(ItemTexts) /\ v # null /\ v # undefined)
        <3>1. CASE MayRequest
            <4>1. pxeChanges + 1 \in DOMAIN ItemTexts
                BY <3>1, ItemTextsAssumption DEF MayRequest, PxeInv
            <4>2. ItemTexts[pxeChanges + 1] \in STRING \ {null, undefined}
                BY <4>1, ItemTextsAssumption
            <4>3. QED BY <3>1, <4>1, <4>2 DEF TypedTexts, Range
        <3>2. CASE ~ MayRequest
            BY <3>2 DEF TypedTexts
        <3>3. QED BY <3>1, <3>2
    <2>4. "" # null /\ "" # undefined
        BY DEF null, undefined
    <2>5. w \in ItemValues /\ w # old.value
        BY <2>2, <2>3, <2>4 DEF Shows, ItemValues
    <2> HIDE DEF w
    <2>6. item \in Items /\ item # old
        BY <1>1, <2>5 DEF Items
    <2>7. QED BY <2>2, <2>6
<1>4. QED BY <1>2, <1>3 DEF TypeItem

LEMMA TypePxe ==
    ASSUME PxeInv, NEW i \in DOMAIN itemChunks, NEW item \in Items,
           item # itemChunks[i], ChangeItem(i, item)
    PROVE  PxeInv' /\ \A j \in DOMAIN itemChunks \ {i} : itemChunks[j] \in Range(itemChunks')
<1> DEFINE items == [itemChunks EXCEPT ![i] = item]
<1>1. itemChunks \in Seq(Items)
    BY DEF PxeInv
<1>2. /\ items \in Seq(Items) /\ Len(items) = Len(itemChunks)
      /\ \A j \in DOMAIN itemChunks \ {i} : itemChunks[j] \in Range(items)
      /\ (IsObject /\ Legal(itemChunks)) => itemChunks[i] \notin Range(items)
    BY <1>1, ItemChanged
<1>3. /\ Requests
      /\ IF Len(valueFromItemChunks(items)) = Len(itemChunks)
         THEN RequestItems(items)
         ELSE itemChunks' = items /\ UNCHANGED <<pxeResource, pxeYaml>>
    BY DEF ChangeItem
<1>4. Len(valueFromItemChunks(items)) = Len(items) <=> Legal(items)
    BY <1>2, ValueOfItems
<1>5. Legal(items) => Range(valueFromItemChunks(items)) = Range(items)
    BY <1>2, ValueOfItems
<1> HIDE DEF items
<1>6. CASE Legal(items)
    <2>1. RequestItems(items)
        BY <1>2, <1>3, <1>4, <1>6
    <2>2. itemChunks[i] \in Range(itemChunks)
        BY DEF Range
    <2>3. (IsObject /\ Legal(itemChunks)) => Range(valueFromItemChunks(items)) # Range(itemChunks)
        BY <1>2, <1>5, <1>6, <2>2
    <2>4. PxeInv'
        BY <1>2, <1>3, <2>1, <2>3, Requested
    <2>5. pxeResource.items \in Seq(Items) /\ pxeResource \in PxeResources
        BY DEF PxeInv, PxeResources
    <2>6. itemChunks' = itemChunks \/ itemChunks' = valueFromItemChunks(items)
        BY <2>1, <2>5 DEF RequestItems, RequestChange, PxeResources
    <2>7. \A j \in DOMAIN itemChunks \ {i} : itemChunks[j] \in Range(itemChunks')
        BY <1>2, <1>5, <1>6, <2>6 DEF Range
    <2>8. QED BY <2>4, <2>7
<1>7. CASE ~ Legal(items)
    <2>1. itemChunks' = items /\ UNCHANGED <<pxeResource, pxeYaml>>
        BY <1>2, <1>3, <1>4, <1>7
    <2>2. roster' = roster /\ pxeChanges' = pxeChanges + 1
        BY <1>3 DEF Requests
    <2>3. ~ Legal(itemChunks)'
        BY <1>7, <2>1, <2>2 DEF Legal, IsObject
    <2>4. Dumped(pxeResource)' = Dumped(pxeResource)
        BY <2>1 DEF Dumped
    <2>5. pxeChanges' \in Nat
        BY <2>2 DEF PxeInv
    <2>6. PxeInv'
        BY <1>2, <2>1, <2>3, <2>4, <2>5 DEF PxeInv
    <2>7. QED BY <1>2, <2>1, <2>6
<1>8. QED BY <1>6, <1>7

LEMMA AddPxe ==
    ASSUME PxeInv, AddItem
    PROVE  /\ PxeInv'
           /\ Legal(itemChunks) => \A j \in DOMAIN itemChunks : itemChunks[j] \in Range(itemChunks')
<1> DEFINE items == Append(itemChunks, NewItem)
<1>1. itemChunks \in Seq(Items) /\ pxeResource \in PxeResources
    BY DEF PxeInv
<1>2. Requests /\ RequestItems(items) /\ MayAdd(itemChunks)
    BY DEF AddItem, NewItem, MayAdd, HasKey
<1>3. /\ items \in Seq(Items) /\ NewItem \in Range(items)
      /\ \A j \in DOMAIN itemChunks : itemChunks[j] \in Range(items)
      /\ Legal(itemChunks) => Legal(items)
    BY <1>1, <1>2, ItemAdded
<1>4. IsObject => NewItem \notin Range(itemChunks)
    BY <1>1, <1>2, ItemAdded
<1>5. Legal(items) => Range(valueFromItemChunks(items)) = Range(items)
    BY <1>3, ValueOfItems
<1> HIDE DEF items
<1>6. (IsObject /\ Legal(itemChunks)) => Range(valueFromItemChunks(items)) # Range(itemChunks)
    BY <1>3, <1>4, <1>5
<1>7. PxeInv'
    BY <1>2, <1>3, <1>6, Requested
<1>8. itemChunks' = itemChunks \/ itemChunks' = valueFromItemChunks(items)
    BY <1>1, <1>2 DEF RequestItems, RequestChange, PxeResources
<1>9. Legal(itemChunks) => \A j \in DOMAIN itemChunks : itemChunks[j] \in Range(itemChunks')
    BY <1>3, <1>5, <1>8 DEF Range
<1>10. QED BY <1>7, <1>9

LEMMA DeletePxe ==
    ASSUME PxeInv, NEW i \in DOMAIN itemChunks, DeleteItem(i)
    PROVE  /\ PxeInv'
           /\ Legal(itemChunks) => \A j \in DOMAIN itemChunks \ {i} : itemChunks[j] \in Range(itemChunks')
<1> DEFINE items == RemoveAt(itemChunks, i)
<1>1. itemChunks \in Seq(Items) /\ pxeResource \in PxeResources
    BY DEF PxeInv
<1>2. Requests /\ RequestItems(items)
    BY DEF DeleteItem
<1>3. items \in Seq(Items)
    BY <1>1, RemovedItem
<1>4. Legal(itemChunks) =>
        /\ Legal(items)
        /\ \A j \in DOMAIN itemChunks \ {i} : itemChunks[j] \in Range(items)
    BY <1>1, ItemDeleted
<1>5. (IsObject /\ Legal(itemChunks)) => itemChunks[i] \notin Range(items)
    BY <1>1, ItemDeleted
<1>6. Legal(items) => Range(valueFromItemChunks(items)) = Range(items)
    BY <1>3, ValueOfItems
<1> HIDE DEF items
<1>7. (IsObject /\ Legal(itemChunks)) => Range(valueFromItemChunks(items)) # Range(itemChunks)
    <2>1. itemChunks[i] \in Range(itemChunks)
        BY DEF Range
    <2>2. QED BY <1>4, <1>5, <1>6, <2>1
<1>8. PxeInv'
    BY <1>2, <1>3, <1>7, Requested
<1>9. itemChunks' = itemChunks \/ itemChunks' = valueFromItemChunks(items)
    BY <1>1, <1>2 DEF RequestItems, RequestChange, PxeResources
<1>10. Legal(itemChunks) => \A j \in DOMAIN itemChunks \ {i} : itemChunks[j] \in Range(itemChunks')
    BY <1>4, <1>6, <1>9 DEF Range
<1>11. QED BY <1>8, <1>10

LEMMA MountPxe ==
    ASSUME PxeInv, MountAgain
    PROVE  PxeInv'
<1>1. /\ pxeResource' = pxeYaml /\ itemChunks' = pxeYaml.items
      /\ pxeYaml' = pxeYaml /\ pxeChanges' = pxeChanges
    BY DEF MountAgain, Mounts
<1>2. pxeYaml = Dumped(pxeResource) /\ pxeResource \in PxeResources /\ pxeChanges \in Nat
    BY DEF PxeInv
<1>3. pxeYaml \in PxeResources /\ Dumped(pxeYaml) = pxeYaml
    BY <1>2, DumpedTwice
<1>4. pxeYaml.items \in Seq(Items)
    BY <1>3 DEF PxeResources
<1>5. Dumped(pxeResource)' = Dumped(pxeResource')
    BY DEF Dumped
<1>6. QED BY <1>1, <1>2, <1>3, <1>4, <1>5 DEF PxeInv

LEMMA NextPxe == PxeInv /\ [PxeNext]_pxeVars => PxeInv'
<1> SUFFICES ASSUME PxeInv, [PxeNext]_pxeVars PROVE PxeInv'
    OBVIOUS
<1>1. CASE \E text \in TypedTexts : TypeText(text)
    BY <1>1, TextPxe
<1>2. CASE AddItem
    BY <1>2, AddPxe
<1>3. ASSUME NEW i \in DOMAIN itemChunks, DeleteItem(i) PROVE PxeInv'
    BY <1>3, DeletePxe
<1>4. ASSUME NEW i \in DOMAIN itemChunks, TypeItem(i) PROVE PxeInv'
    BY <1>4, TypedItem, TypePxe
<1>5. CASE MountAgain
    BY <1>5, MountPxe
<1>6. CASE UNCHANGED pxeVars
    <2>1. Dumped(pxeResource)' = Dumped(pxeResource) /\ (Legal(itemChunks)' <=> Legal(itemChunks))
        BY <1>6 DEF pxeVars, Dumped, Legal, IsObject
    <2>2. QED BY <1>6, <2>1 DEF pxeVars, PxeInv
<1>7. QED BY <1>1, <1>2, <1>3, <1>4, <1>5, <1>6 DEF PxeNext

LEMMA PxeHolds == PxeSpec => []PxeInv
<1>1. QED BY InitPxe, NextPxe, PTL DEF PxeSpec

(* Whatever keys were equal on the way: whenever the keys differ, the       *)
(* roster shows what the resource has, and the YAML has it as dump writes   *)
(* it (PxeRosterWidgetNode, PxeParametricEditor), for any keys and texts.   *)
THEOREM LegalItemsWritten == PxeSpec => []LegalItemsAreWritten
<1>1. PxeInv => LegalItemsAreWritten
    BY DEF PxeInv, LegalItemsAreWritten
<1>2. QED BY <1>1, PxeHolds, PTL

(* Typing into one item keeps the others, equal keys or not; adding and     *)
(* deleting one keep them while keys differ (PxeRosterWidgetNode).          *)
THEOREM OtherItemsStay == PxeSpec => OtherItemsAreKept
<1> DEFINE Kept == \A i \in DOMAIN itemChunks :
                     (TypeItem(i) \/ (Legal(itemChunks) /\ (AddItem \/ DeleteItem(i))))
                       => \A j \in DOMAIN itemChunks \ {i} : itemChunks[j] \in Range(itemChunks')
<1>1. PxeInv /\ [PxeNext]_pxeVars => [Kept]_pxeVars
    <2> SUFFICES ASSUME PxeInv, NEW i \in DOMAIN itemChunks, NEW j \in DOMAIN itemChunks \ {i},
                        TypeItem(i) \/ (Legal(itemChunks) /\ (AddItem \/ DeleteItem(i)))
                 PROVE  itemChunks[j] \in Range(itemChunks')
        OBVIOUS
    <2>1. CASE TypeItem(i)
        BY <2>1, TypedItem, TypePxe
    <2>2. CASE Legal(itemChunks) /\ AddItem
        BY <2>2, AddPxe
    <2>3. CASE Legal(itemChunks) /\ DeleteItem(i)
        BY <2>3, DeletePxe
    <2>4. QED BY <2>1, <2>2, <2>3
<1>2. QED BY <1>1, PxeHolds, PTL DEF PxeSpec, OtherItemsAreKept
=============================================================================
