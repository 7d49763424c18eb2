---------------------------- MODULE PackageHistory ----------------------------
(***************************************************************************)
(* What a package's revisions promise to their users: one line of history. *)
(* The published revisions are v1, v2, ..., each frozen from the moment it *)
(* was published; at most one more revision is open, it is the next of the *)
(* line, and it starts as a copy of the last published one.                *)
(***************************************************************************)
EXTENDS Naturals

CONSTANTS
    MaxRevision,   \* the length of the history looked at
    Edit           \* the edits a revision's content is made of

VARIABLES
    lifecycle,   \* lifecycle[n]: the state of revision v{n}
    content      \* content[n]: the edits in it

historyVars == <<lifecycle, content>>

Place == 1..MaxRevision

IsHead(n) ==
    /\ \A m \in Place : m < n => lifecycle[m] = "Published"
    /\ \A m \in Place : m > n => lifecycle[m] = "Absent"

Init ==
    /\ \E k \in 0..(MaxRevision - 1) :
          lifecycle = [n \in Place |-> CASE n <= k -> "Published"
                                        [] k = 0 /\ n = 1 -> "Draft"
                                        [] OTHER -> "Absent"]
    /\ content = [n \in Place |-> {}]

(* A new revision continues the last published one. *)
Start(n) ==
    /\ n > 1
    /\ IsHead(n) /\ lifecycle[n] = "Absent"
    /\ lifecycle' = [lifecycle EXCEPT ![n] = "Draft"]
    /\ content' = [content EXCEPT ![n] = content[n - 1]]

(* Only a draft's content changes. *)
Write(n, edits) ==
    /\ lifecycle[n] = "Draft"
    /\ content' = [content EXCEPT ![n] = edits]
    /\ UNCHANGED lifecycle

Move(n, from, to) ==
    /\ IsHead(n) /\ lifecycle[n] = from
    /\ lifecycle' = [lifecycle EXCEPT ![n] = to]
    /\ UNCHANGED content

(* An open revision may be given up. *)
Discard(n) ==
    /\ IsHead(n) /\ lifecycle[n] \in {"Draft", "Proposed"}
    /\ lifecycle' = [lifecycle EXCEPT ![n] = "Absent"]
    /\ content' = [content EXCEPT ![n] = {}]

Next ==
    \E n \in Place :
       \/ Start(n)
       \/ \E edits \in SUBSET Edit : Write(n, edits)
       \/ Move(n, "Draft", "Proposed")
       \/ Move(n, "Proposed", "Draft")
       \/ Move(n, "Proposed", "Published")
       \/ Discard(n)

Spec == Init /\ [][Next]_historyVars
=============================================================================
