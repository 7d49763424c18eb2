-------------------------- MODULE ParametricEditor --------------------------
(***************************************************************************)
(* The parametric editor of the Nephio resources: one text, and one roster *)
(* (labels, annotations, match labels, CNIs).  The widgets show what the   *)
(* resource of the editor holds; only a roster has a state of its own, the *)
(* items as they are typed, because keys that are equal for a while cannot *)
(* be in the resource.  A widget is rendered again only when its value has *)
(* changed in depth.                                                       *)
(*                                                                         *)
(* A value is a sequence of items in the order of Object.entries.          *)
(***************************************************************************)
EXTENDS Naturals, Sequences, SequencesExt, Deletable

CONSTANTS KeyTexts,    \* the keys that may be typed, "" among them
          IntegerKeys, \* those that look like integers, in ascending order
          ItemTexts    \* the value typed with the i-th change

ASSUME IntegerKeysAssumption == IntegerKeys \in Seq(KeyTexts)

VARIABLES roster,        \* the configuration of the roster
          pxeResource,   \* the resource of the editor: its text and its roster
          itemChunks,    \* the items the roster shows
          pxeYaml,       \* the YAML of the dialog
          pxeChanges     \* the number of changes so far

pxeVars == <<roster, pxeResource, itemChunks, pxeYaml, pxeChanges>>

\* the rosters of the four editors
Rosters ==
  [labels      |-> [type |-> "Object", isRequired |-> TRUE],
   annotations |-> [type |-> "Object", isRequired |-> TRUE],
   matchLabels |-> [type |-> "Object", isRequired |-> FALSE],
   cnis        |-> [type |-> "Array", isRequired |-> TRUE]]

null == "null"
undefined == "undefined"

\* no text that is typed is one of the two that stand for no value
ASSUME ItemTextsAssumption == ItemTexts \in Seq(STRING \ {null, undefined})

Shows(value) == IF value \in {null, undefined} THEN "" ELSE value
IndexKey == "index" \* of all items of an array
Item(k, v) == [key |-> k, value |-> v]
IsObject == roster.type = "Object"
MayRequest == pxeChanges < Len(ItemTexts)
\* what may be typed into a text, which may be cleared, too
TypedTexts == IF MayRequest THEN {"", ItemTexts[pxeChanges + 1]} ELSE {}

-----------------------------------------------------------------------------
(* Objects of items                                                         *)

HasKey(items, k) == \E i \in DOMAIN items : items[i].key = k

\* Object.fromEntries: of the items of one key there is one, in the place of
\* the first, with the value of the last
FirstsOfKeys(items) ==
  {i \in DOMAIN items : \A j \in DOMAIN items : items[j].key = items[i].key => i <= j}
LastOfKey(items, i) ==
  CHOOSE j \in DOMAIN items :
    /\ items[j].key = items[i].key
    /\ \A k \in DOMAIN items : items[k].key = items[i].key => k <= j

\* Object.entries lists integers first
KeyPlace(k) ==
  IF k \in Range(IntegerKeys) THEN CHOOSE n \in DOMAIN IntegerKeys : IntegerKeys[n] = k
  ELSE Len(IntegerKeys) + 1
ListedBefore(items, i, j) ==
  LET place(k) == KeyPlace(items[k].key)
  IN  place(i) < place(j) \/ (place(i) = place(j) /\ i < j)

EntriesOf(items) ==
  LET firsts == FirstsOfKeys(items)
      before(i) == Cardinality({j \in firsts : ListedBefore(items, j, i)})
  IN  [n \in 1 .. Cardinality(firsts) |->
         items[LastOfKey(items, CHOOSE i \in firsts : before(i) = n - 1)]]

valueFromItemChunks(items) == IF IsObject THEN EntriesOf(items) ELSE items

\* Mutant of IsEqual: only the number of items is compared.
SameLength(a, b) == Len(a) = Len(b)

\* isEqual does not look at the order of keys
IsEqual(a, b) == IF IsObject THEN Range(a) = Range(b) ELSE a = b

\* what dump writes: keys without a value are left out
Dumped(resource) ==
  [resource EXCEPT !.items = Among(@, {item \in Range(@) : item.value # undefined})]

-----------------------------------------------------------------------------
\* The editor takes a change request of a widget.
RequestChange(resource) ==
  /\ pxeResource' = resource
  /\ pxeYaml' = Dumped(resource)
  /\ itemChunks' = IF IsEqual(resource.items, pxeResource.items) THEN itemChunks ELSE resource.items

Mounts(yaml) ==
  /\ pxeResource' = yaml
  /\ itemChunks' = yaml.items

ItemsRead ==
  IF IsObject THEN <<Item("a", "read1"), Item("b", "read2")>>
  ELSE <<Item(IndexKey, "read1"), Item(IndexKey, "read2")>>

PxeInit ==
  /\ roster \in Range(Rosters)
  /\ \E items \in {<<>>, ItemsRead} : pxeResource = [text |-> "read", items |-> items]
  /\ itemChunks = pxeResource.items
  /\ pxeYaml = pxeResource
  /\ pxeChanges = 0

Requests == MayRequest /\ pxeChanges' = pxeChanges + 1 /\ UNCHANGED roster

\* the text is optional: without any it is not in the resource
TypeText(text) ==
  /\ Requests
  /\ text # Shows(pxeResource.text)
  /\ RequestChange([pxeResource EXCEPT !.text = IF text = "" THEN undefined ELSE text])

RequestItems(items) ==
  RequestChange([pxeResource EXCEPT !.items = valueFromItemChunks(items)])

AddItem ==
  /\ Requests
  /\ IsObject => ~ HasKey(itemChunks, "")
  /\ RequestItems(Append(itemChunks, Item(IF IsObject THEN "" ELSE IndexKey,
                                          IF roster.isRequired THEN "" ELSE null)))

DeleteItem(i) ==
  /\ Requests
  /\ RequestItems(RemoveAt(itemChunks, i))

\* Mutant of ChangeItem: keys that collide are not looked for.
ChangeItemUnchecked(i, item) == Requests /\ RequestItems([itemChunks EXCEPT ![i] = item])

\* The items are sent on unless keys collide; then they are only shown.
ChangeItem(i, item) ==
  LET items == [itemChunks EXCEPT ![i] = item]
  IN  /\ Requests
      /\ IF Len(valueFromItemChunks(items)) = Len(itemChunks)
         THEN RequestItems(items)
         ELSE itemChunks' = items /\ UNCHANGED <<pxeResource, pxeYaml>>

\* a key is always required, a value that is not may be missing
TypeKey(i, k) ==
  /\ IsObject /\ k # itemChunks[i].key
  /\ ChangeItem(i, [itemChunks[i] EXCEPT !.key = k])
TypeValue(i, v) ==
  /\ v # Shows(itemChunks[i].value)
  /\ ChangeItem(i, [itemChunks[i] EXCEPT !.value =
                      IF v = "" /\ ~ roster.isRequired THEN undefined ELSE v])

TypeItem(i) ==
  (\E k \in KeyTexts : TypeKey(i, k)) \/ (\E v \in TypedTexts : TypeValue(i, v))

\* The YAML is shown, or the dialog is saved and opened: a new editor reads it.
MountAgain ==
  /\ Mounts(pxeYaml)
  /\ UNCHANGED <<roster, pxeYaml, pxeChanges>>

PxeNext ==
  \/ \E text \in TypedTexts : TypeText(text)
  \/ AddItem
  \/ \E i \in DOMAIN itemChunks : DeleteItem(i) \/ TypeItem(i)
  \/ MountAgain

PxeSpec == PxeInit /\ [][PxeNext]_pxeVars

-----------------------------------------------------------------------------
(* Properties                                                               *)

Legal(items) == IsObject => \A i, j \in DOMAIN items : items[i].key = items[j].key => i = j

\* What is shown is in the YAML whenever the keys differ, whatever collisions
\* there were on the way: only values that were cleared are not.
LegalItemsAreWritten ==
  Legal(itemChunks) => itemChunks = pxeResource.items /\ pxeYaml = Dumped(pxeResource)

\* Typing into an item never loses another one, on its way through equal keys
\* neither; adding or deleting one does so only while keys are equal.
OtherItemsAreKept ==
  [][\A i \in DOMAIN itemChunks :
       (TypeItem(i) \/ (Legal(itemChunks) /\ (AddItem \/ DeleteItem(i))))
         => \A j \in DOMAIN itemChunks \ {i} : itemChunks[j] \in Range(itemChunks')]_pxeVars
=============================================================================
