----------------------------- MODULE Deletable ------------------------------
(***************************************************************************)
(* The elements of an editor's list that are not marked as deleted         *)
(* (util/deletable.ts).                                                    *)
(***************************************************************************)
EXTENDS Naturals, Sequences

\* The elements of the list that are in S, in their order (Array.filter).  The
\* first n elements of the list have those of the first n - 1, and perhaps one
\* more.
Among(list, S) ==
  LET first[n \in 0 .. Len(list)] ==
        IF n = 0 THEN <<>>
        ELSE IF list[n] \in S THEN Append(first[n - 1], list[n])
        ELSE first[n - 1]
  IN  first[Len(list)]

isActiveElement(row) == ~ row.isDeleted
getActiveElements(list) ==
  Among(list, {list[i] : i \in {k \in DOMAIN list : isActiveElement(list[k])}})
=============================================================================
