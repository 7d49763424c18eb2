----------------------------- MODULE EditorList -----------------------------
(***************************************************************************)
(* The lists of the form editors: ports, volume mounts, environment        *)
(* variables, rules, subjects, functions of a pipeline, targets.  The      *)
(* accordion of an element keeps a copy of it and is known by its index,   *)
(* so an element that is deleted stays in the list, marked, and the list   *)
(* is sent without it.  The accordion around holds the list it was sent    *)
(* last: at first that is the very list that was read.                     *)
(***************************************************************************)
EXTENDS Naturals, Sequences, SequencesExt, Deletable

CONSTANTS RowTexts \* the value typed with the i-th change

VARIABLES listKind,   \* how the list tells of its changes
          rows,       \* the list, with its deleted elements
          shown,      \* index -> value: the copies of the accordions
          around,     \* what the accordion around holds
          listYaml,   \* the list as last written
          rowChanges  \* the number of changes so far

listVars == <<listKind, rows, shown, around, listYaml, rowChanges>>

\* Of most lists every change is sent ("sent"); of ports, volume mounts and
\* keys of a volume a new element is not, until something else is ("silent").
\* The targets of a package variant set are sent under a name nobody reads,
\* and written from the list itself ("targets").
ListKinds == {"sent", "silent", "targets"}

NewRow == "new"
Row(v) == [value |-> v, isDeleted |-> FALSE]
MaxRowChanges == Len(RowTexts)

\* any texts may be typed, that of a new element, too
ASSUME RowTextsAssumption == RowTexts \in Seq(STRING)

RowText == RowTexts[rowChanges + 1]

ActiveRows == {i \in DOMAIN rows : isActiveElement(rows[i])}

\* a list the resource does not have is no list of the accordion around
Reads(list) ==
  /\ rows = list
  /\ shown = [i \in DOMAIN list |-> list[i].value]
  /\ around = [same |-> list # <<>> \/ listKind = "targets", list |-> <<>>]
  /\ listYaml = list

ListInit ==
  /\ listKind \in ListKinds
  /\ \E list \in {<<>>, <<Row("read1"), Row("read2")>>} : Reads(list)
  /\ rowChanges = 0

\* what the editor writes when the accordion around holds a, and the list is r
WrittenList(a, r) == IF a.same THEN r ELSE a.list

\* Mutant of SendList: what is sent is the list before the change.
SendListLate(r) ==
  /\ rows' = r
  /\ around' = IF listKind = "targets" THEN around
               ELSE [same |-> FALSE, list |-> getActiveElements(rows)]
  /\ listYaml' = WrittenList(around', r)

\* the list is changed to r and sent
SendList(r) ==
  /\ rows' = r
  /\ around' = IF listKind = "targets" THEN around
               ELSE [same |-> FALSE, list |-> getActiveElements(r)]
  /\ listYaml' = WrittenList(around', r)

-----------------------------------------------------------------------------
MayChangeRows == rowChanges < MaxRowChanges

AddRow ==
  /\ MayChangeRows
  /\ shown' = Append(shown, NewRow)
  /\ IF listKind = "silent"
     THEN rows' = Append(rows, Row(NewRow)) /\ UNCHANGED <<around, listYaml>>
     ELSE SendList(Append(rows, Row(NewRow)))
  /\ rowChanges' = rowChanges + 1
  /\ UNCHANGED listKind

\* updateList with a value, and without one
TypeRow(i) ==
  /\ MayChangeRows
  /\ shown' = [shown EXCEPT ![i] = RowText]
  /\ SendList([rows EXCEPT ![i] = Row(shown'[i])])
  /\ rowChanges' = rowChanges + 1
  /\ UNCHANGED listKind

\* Mutant of DeleteRow: the element is removed, and not marked.
RemoveRow(i) ==
  /\ MayChangeRows
  /\ SendList(RemoveAt(rows, i))
  /\ rowChanges' = rowChanges + 1
  /\ UNCHANGED <<listKind, shown>>

DeleteRow(i) ==
  /\ MayChangeRows
  /\ SendList([rows EXCEPT ![i].isDeleted = TRUE])
  /\ rowChanges' = rowChanges + 1
  /\ UNCHANGED <<listKind, shown>>

\* Another accordion is edited: the one around sends what it holds.
EditElsewhere ==
  /\ listYaml' = WrittenList(around, rows)
  /\ UNCHANGED <<listKind, rows, shown, around, rowChanges>>

\* The form is left for the YAML, or closed and saved, and shown again.
ShowAgain ==
  /\ rows' = listYaml
  /\ shown' = [i \in DOMAIN listYaml |-> listYaml[i].value]
  /\ around' = [same |-> listYaml # <<>> \/ listKind = "targets", list |-> <<>>]
  /\ UNCHANGED <<listKind, listYaml, rowChanges>>

ListNext ==
  \/ AddRow
  \/ \E i \in ActiveRows : TypeRow(i) \/ DeleteRow(i)
  \/ EditElsewhere
  \/ ShowAgain

ListSpec == ListInit /\ [][ListNext]_listVars

-----------------------------------------------------------------------------
(* Properties                                                               *)

\* An accordion shows the element at its index, whatever was deleted before:
\* what is typed next changes that element and no other.
RowsShowTheirElement ==
  /\ DOMAIN shown = DOMAIN rows
  /\ \A i \in ActiveRows : shown[i] = rows[i].value

Typed(list) == Among(list, {list[i] : i \in {k \in DOMAIN list : list[k].value # NewRow}})

\* What was typed into elements that are not deleted is in the YAML, in the
\* order shown; only elements just added may be missing, where they are silent.
TypedRowsInYaml ==
  /\ Typed(getActiveElements(listYaml)) = Typed(getActiveElements(rows))
  /\ listKind # "silent" => getActiveElements(listYaml) = getActiveElements(rows)
=============================================================================
