--------------------------- MODULE FormEditor_proofs ---------------------------
(***************************************************************************)
(* Proofs about FormEditor, for every set of forms that are trees of       *)
(* accordions and hold a plain field once at each level at most.           *)
(***************************************************************************)
EXTENDS FormEditor, TLAPS

(* The invariant, of copies, an update and a YAML. *)

ViewFits(copies) ==
  /\ DOMAIN copies = Accordions
  /\ \A n \in Accordions : DOMAIN copies[n] = Accordion(n).holds

UpdateFits(u) ==
  /\ DOMAIN u = {"at", "values", "by", "field"}
  /\ u.by \in Accordions
  /\ u.at \in Accordions \cup {"yaml"}
  /\ DOMAIN u.values \subseteq IF u.at = "yaml" THEN Fields ELSE Accordion(u.at).holds

\* n has the field f from the update u already: u has passed it, or began there.
Brings(u, n, f) ==
  /\ u # NoUpdate
  /\ f \in DOMAIN u.values
  /\ u.at = "yaml" \/ Depth(n) > Depth(u.at)

\* All copies of a plain field are what the YAML has, but for those an update
\* on its way has passed: they have what it brings.
CopiesAgree(copies, u, yaml) ==
  \A f \in PlainFields : \A n \in Accordions :
    f \in Accordion(n).holds =>
      copies[n][f] = IF Brings(u, n, f) THEN u.values[f] ELSE yaml[f]

\* Of the plain fields an update changes only those that were typed.
OnlyTyped(u, yaml) ==
  u # NoUpdate =>
    \A f \in PlainFields : f \in DOMAIN u.values =>
      u.values[f] = yaml[f] \/ f = u.field \/ f \in Follows(u.by, u.field)

Inv ==
  /\ form \in DOMAIN Forms
  /\ DOMAIN latestYaml = Fields /\ DOMAIN resource = Fields
  /\ dialog \in {"form", "yaml", "closed"}
  /\ changes \in 0 .. MaxChanges
  /\ ViewFits(view)
  /\ Idle \/ (dialog = "form" /\ UpdateFits(update))
  /\ dialog = "form" => CopiesAgree(view, update, latestYaml)
  /\ OnlyTyped(update, latestYaml)

-----------------------------------------------------------------------------
(* The tree of accordions *)

LEMMA TreeFacts ==
    ASSUME form \in DOMAIN Forms
    PROVE  /\ Accordions \cap {"yaml", "none"} = {}
           /\ Outermost \in Accordions /\ Accordion(Outermost).in = <<>>
           /\ \A n \in Accordions :
                /\ Depth(n) \in Nat
                /\ Accordion(n).edits \subseteq Accordion(n).holds
                /\ Written(n) \subseteq Accordion(n).holds
                /\ Written(n) \subseteq Fields
                /\ Parent(n) \in Accordions \cup {"yaml"}
                /\ Parent(n) = "yaml" <=> Depth(n) = 0
                /\ Parent(n) # "yaml" => /\ Depth(n) = Depth(Parent(n)) + 1
                                         /\ Written(n) \subseteq Accordion(Parent(n)).holds
                /\ \A a \in Around(n) : /\ a \in Accordions /\ Depth(a) < Depth(n)
                                        /\ Written(n) \subseteq Accordion(a).holds
<1>1. IsTree(Forms[form]) /\ HoldsWhatIsSent(Forms[form])
    BY FormsAssumption
<1>2. Accordions \cap {"yaml", "none"} = {}
    BY <1>1 DEF IsTree, Accordions
<1>3. Outermost \in Accordions /\ Accordion(Outermost).in = <<>>
    BY <1>1 DEF IsTree, Accordions, Accordion, Outermost
<1>4. ASSUME NEW n \in Accordions
      PROVE  /\ Depth(n) \in Nat
             /\ Accordion(n).edits \subseteq Accordion(n).holds
             /\ Written(n) \subseteq Accordion(n).holds
             /\ Written(n) \subseteq Fields
             /\ Parent(n) \in Accordions \cup {"yaml"}
             /\ Parent(n) = "yaml" <=> Depth(n) = 0
             /\ Parent(n) # "yaml" => /\ Depth(n) = Depth(Parent(n)) + 1
                                      /\ Written(n) \subseteq Accordion(Parent(n)).holds
             /\ \A a \in Around(n) : /\ a \in Accordions /\ Depth(a) < Depth(n)
                                     /\ Written(n) \subseteq Accordion(a).holds
    <2> DEFINE path == Accordion(n).in
    <2>1. /\ path \in Seq(Accordions)
          /\ \A i \in DOMAIN path : Depth(path[i]) = i - 1
        <3>1. /\ path \in Seq(Accordions)
              /\ \A i \in DOMAIN path : Accordion(path[i]).in = SubSeq(path, 1, i - 1)
            BY <1>1 DEF IsTree, Accordions, Accordion
        <3> HIDE DEF path
        <3>2. ASSUME NEW i \in DOMAIN path PROVE Len(SubSeq(path, 1, i - 1)) = i - 1
            <4>1. i \in 1 .. Len(path) /\ Len(path) \in Nat
                BY <3>1
            <4>2. QED BY <3>1, <4>1
        <3>3. QED BY <3>1, <3>2 DEF Depth
    <2>2. /\ Accordion(n).edits \subseteq Accordion(n).holds
          /\ \A i \in DOMAIN path : Written(n) \subseteq Accordion(path[i]).holds
        BY <1>1 DEF HoldsWhatIsSent, Accordions, Accordion, Written, Unwritten
    <2>3. Depth(n) = Len(path) /\ Len(path) \in Nat /\ DOMAIN path = 1 .. Len(path)
        BY <2>1 DEF Depth
    <2>4. Written(n) \subseteq Accordion(n).holds /\ Written(n) \subseteq Fields
        BY DEF Written, Unwritten, Fields, FieldsOf, Accordion, Accordions
    <2>5. Around(n) = {path[i] : i \in DOMAIN path}
        BY DEF Around
    <2>6. Parent(n) = IF path = <<>> THEN "yaml" ELSE path[Len(path)]
        BY DEF Parent
    <2> HIDE DEF path
    <2>7. path = <<>> <=> Len(path) = 0
        BY <2>1
    <2>8. ASSUME NEW i \in DOMAIN path
          PROVE  path[i] \in Accordions /\ Depth(path[i]) < Depth(n)
        BY <2>1, <2>3
    <2>9. CASE path = <<>>
        BY <2>2, <2>3, <2>4, <2>5, <2>6, <2>7, <2>8, <2>9
    <2>10. CASE path # <<>>
        <3>1. Len(path) \in DOMAIN path
            BY <2>3, <2>7, <2>10
        <3>2. Parent(n) = path[Len(path)] /\ Parent(n) # "yaml"
            BY <1>2, <2>6, <2>8, <2>10, <3>1
        <3>3. Depth(Parent(n)) = Len(path) - 1
            BY <2>1, <3>1, <3>2
        <3>4. QED BY <2>2, <2>3, <2>4, <2>5, <2>7, <2>8, <2>10, <3>1, <3>2, <3>3
    <2>11. QED BY <2>9, <2>10
<1>5. QED BY <1>2, <1>3, <1>4

(* What lies around an accordion is a branch of the tree.                       *)
Branch(n) == Around(n) \cup {n}

LEMMA PathFacts ==
    ASSUME form \in DOMAIN Forms, NEW n \in Accordions
    PROVE  LET path == Accordion(n).in
           IN  /\ Around(n) = {path[i] : i \in DOMAIN path}
               /\ Depth(n) = Len(path) /\ Len(path) \in Nat /\ DOMAIN path = 1 .. Len(path)
               /\ path = <<>> <=> Len(path) = 0
               /\ \A i \in DOMAIN path : /\ path[i] \in Accordions /\ Depth(path[i]) = i - 1
                                         /\ Around(path[i]) = {path[j] : j \in 1 .. i - 1}
<1> DEFINE path == Accordion(n).in
<1>1. /\ path \in Seq(Accordions)
      /\ \A i \in DOMAIN path : Accordion(path[i]).in = SubSeq(path, 1, i - 1)
    BY FormsAssumption DEF IsTree, Accordions, Accordion
<1>2. Around(n) = {path[i] : i \in DOMAIN path}
    BY DEF Around
<1>3. Depth(n) = Len(path)
    BY DEF Depth
<1> HIDE DEF path
<1>4. Len(path) \in Nat /\ DOMAIN path = 1 .. Len(path) /\ (path = <<>> <=> Len(path) = 0)
    BY <1>1
<1>5. ASSUME NEW i \in DOMAIN path
      PROVE  /\ path[i] \in Accordions /\ Depth(path[i]) = i - 1
             /\ Around(path[i]) = {path[j] : j \in 1 .. i - 1}
    <2> DEFINE sub == SubSeq(path, 1, i - 1)
    <2>1. i \in 1 .. Len(path)
        BY <1>4
    <2>2. /\ Len(sub) = i - 1 /\ DOMAIN sub = 1 .. i - 1
          /\ \A j \in 1 .. i - 1 : sub[j] = path[j]
        BY <1>1, <1>4, <2>1
    <2>3. Accordion(path[i]).in = sub /\ path[i] \in Accordions
        BY <1>1, <1>4, <2>1
    <2> HIDE DEF sub
    <2>4. Around(path[i]) = {sub[j] : j \in DOMAIN sub}
        BY <2>3 DEF Around
    <2>5. QED BY <2>2, <2>3, <2>4 DEF Depth
<1>6. QED BY <1>2, <1>3, <1>4, <1>5 DEF path

LEMMA BranchDepths ==
    ASSUME form \in DOMAIN Forms, NEW n \in Accordions, NEW a \in Branch(n), NEW b \in Branch(n)
    PROVE  /\ Depth(a) = Depth(b) => a = b
           /\ Depth(a) < Depth(b) => a \in Around(b)
<1> DEFINE path == Accordion(n).in
<1>1. /\ Around(n) = {path[i] : i \in DOMAIN path}
      /\ Depth(n) = Len(path) /\ Len(path) \in Nat /\ DOMAIN path = 1 .. Len(path)
      /\ \A i \in DOMAIN path : /\ Depth(path[i]) = i - 1
                                /\ Around(path[i]) = {path[j] : j \in 1 .. i - 1}
    BY PathFacts
<1> HIDE DEF path
<1>2. a # n => \E i \in DOMAIN path : a = path[i]
    BY <1>1 DEF Branch
<1>3. b # n => \E i \in DOMAIN path : b = path[i]
    BY <1>1 DEF Branch
<1>4. CASE a = n
    BY <1>1, <1>3, <1>4
<1>5. CASE a # n /\ b = n
    BY <1>1, <1>2, <1>5
<1>6. CASE a # n /\ b # n
    <2>1. PICK i \in DOMAIN path : a = path[i]
        BY <1>2, <1>6
    <2>2. PICK j \in DOMAIN path : b = path[j]
        BY <1>3, <1>6
    <2>3. Depth(a) = i - 1 /\ Depth(b) = j - 1 /\ Around(b) = {path[k] : k \in 1 .. j - 1}
        BY <1>1, <2>1, <2>2
    <2>4. i \in Nat /\ j \in Nat /\ i >= 1 /\ j >= 1
        BY <1>1
    <2>5. QED BY <2>1, <2>2, <2>3, <2>4
<1>7. QED BY <1>4, <1>5, <1>6

LEMMA BranchFacts ==
    ASSUME form \in DOMAIN Forms, NEW n \in Accordions
    PROVE  /\ n \notin Around(n)
           /\ Around(n) \subseteq Accordions
           /\ \A a \in Around(n) : Around(a) \subseteq Around(n)
           /\ Parent(n) = "yaml" => Around(n) = {}
           /\ Parent(n) # "yaml" => Around(n) = Around(Parent(n)) \cup {Parent(n)}
<1> DEFINE path == Accordion(n).in
<1>1. /\ Around(n) = {path[i] : i \in DOMAIN path}
      /\ Len(path) \in Nat /\ DOMAIN path = 1 .. Len(path) /\ (path = <<>> <=> Len(path) = 0)
      /\ \A i \in DOMAIN path : /\ path[i] \in Accordions
                                /\ Around(path[i]) = {path[j] : j \in 1 .. i - 1}
    BY PathFacts
<1>2. Parent(n) = IF path = <<>> THEN "yaml" ELSE path[Len(path)]
    BY DEF Parent
<1> HIDE DEF path
<1>3. n \notin Around(n) /\ Around(n) \subseteq Accordions
    BY TreeFacts
<1>4. \A a \in Around(n) : Around(a) \subseteq Around(n)
    BY <1>1
<1>5. CASE path = <<>>
    <2>1. Around(n) = {}
        BY <1>1, <1>5
    <2>2. QED BY <1>2, <1>3, <1>4, <1>5, <2>1
<1>6. CASE path # <<>>
    <2>1. Len(path) \in DOMAIN path
        BY <1>1, <1>6
    <2>2. Parent(n) = path[Len(path)] /\ Parent(n) # "yaml"
        BY <1>1, <1>2, <1>6, <2>1, TreeFacts
    <2>3. Around(Parent(n)) = {path[j] : j \in 1 .. Len(path) - 1}
        BY <1>1, <2>1, <2>2
    <2>4. \A j : j \in DOMAIN path <=> j \in 1 .. Len(path) - 1 \/ j = Len(path)
        BY <1>1, <2>1
    <2>5. Around(n) = Around(Parent(n)) \cup {Parent(n)}
        BY <1>1, <2>2, <2>3, <2>4
    <2>6. QED BY <1>3, <1>4, <2>2, <2>5
<1>7. QED BY <1>5, <1>6

(* A plain field is sent, kept and mounted as it is. *)
LEMMA PlainFacts ==
    ASSUME form \in DOMAIN Forms, NEW f \in PlainFields
    PROVE  /\ f \in Fields
           /\ \A n \in Accordions : f \in Accordion(n).holds =>
                /\ f \in Written(n) /\ f \notin Accordion(n).late
                /\ f \notin ChoicesIn(n)
                /\ \A values : /\ Sent(n, values)[f] = values[f]
                               /\ Mounted(n, values)[f] = values[f]
                               /\ f \notin Erased(n, values)
                /\ \A g : f \notin Rederived(n, g)
<1>1. f \in FieldsOf[form] /\ \A n \in DOMAIN Forms[form] : IsPlain(Forms[form][n], f)
    BY DEF PlainFields, PlainFieldsOf
<1>2. f \in Fields
    BY <1>1 DEF Fields
<1>3. ASSUME NEW n \in Accordions, f \in Accordion(n).holds
      PROVE  /\ f \in Written(n) /\ f \notin Accordion(n).late
             /\ f \notin ChoicesIn(n)
             /\ \A values : /\ Sent(n, values)[f] = values[f]
                            /\ Mounted(n, values)[f] = values[f]
                            /\ f \notin Erased(n, values)
             /\ \A g : f \notin Rederived(n, g)
    <2>1. IsPlain(Accordion(n), f)
        BY <1>1 DEF Accordion, Accordions
    <2>2. /\ f \in Written(n) /\ f \notin Accordion(n).late /\ f \notin Unwritten(n)
          /\ f \notin Accordion(n).blanks /\ f \notin ChoicesIn(n)
        BY <1>3, <2>1 DEF IsPlain, Written, Unwritten, ChoicesIn
    <2>3. \A m \in ChoicesIn(n) : f \notin Belongs(n, m)
        BY <2>1 DEF IsPlain, Belongs, ChoicesIn
    <2>4. ASSUME NEW values
          PROVE  Sent(n, values)[f] = values[f] /\ Mounted(n, values)[f] = values[f]
        <3>1. ~ Unused(n, values, f)
            BY <2>3 DEF Unused
        <3>2. QED BY <1>3, <2>2, <3>1 DEF Sent, Mounted
    <2>5. ASSUME NEW values PROVE f \notin Erased(n, values)
        BY <2>1 DEF IsPlain, Erased
    <2>6. ASSUME NEW g PROVE f \notin Rederived(n, g)
        BY <2>1 DEF IsPlain, Rederived
    <2>7. QED BY <2>2, <2>4, <2>5, <2>6
<1>4. QED BY <1>2, <1>3

(* Where a plain field is held, and where it is typed into. *)
LEMMA HolderFacts ==
    ASSUME form \in DOMAIN Forms, NEW f \in PlainFields
    PROVE  /\ \A n, m \in Accordions :
                f \in Accordion(n).holds /\ f \in Accordion(m).holds /\ Depth(n) = Depth(m) => n = m
           /\ \A n \in Accordions : \A g \in Accordion(n).edits \cup ChoicesIn(n) :
                f = g \/ f \in Follows(n, g) =>
                  /\ g \notin Accordion(n).late
                  /\ \A m \in Accordions : f \in Accordion(m).holds => Depth(m) <= Depth(n)
<1>1. HeldOncePerLevel(Forms[form], f)
    BY FormsAssumption DEF PlainFields
<1>2. QED BY <1>1 DEF HeldOncePerLevel, Accordions, Accordion, Depth, ChoicesIn, Follows

(* Choices: who holds them, and what making them leaves of the other fields.    *)
LEMMA ChoiceFacts ==
    ASSUME form \in DOMAIN Forms, NEW n \in Accordions
    PROVE  /\ Unwritten(n) \subseteq ChoicesIn(n)
           /\ Accordion(n).late \subseteq Unwritten(n)
           /\ \A g : Rederived(n, g) \subseteq Unwritten(n)
           /\ \A g \in Accordion(n).late : Rederived(n, g) = {}
           /\ \A values : \A f \in Erased(n, values) : Unused(n, values, f)
           /\ \A m \in Unwritten(n) : \A values :
                ChoiceFor(n, m, values) \in DOMAIN Accordion(n).choice[m]
           /\ \A m \in ChoicesIn(n) :
                /\ DOMAIN Accordion(n).choice[m] # {}
                /\ m \in Accordion(n).holds /\ m \notin Accordion(n).edits
                /\ m \notin Accordion(n).blanks
                /\ \A g : m \notin Follows(n, g)
                /\ \A values : m \notin Erased(n, values)
                /\ \A d \in Accordions :
                     /\ m \in Accordion(d).holds \/ m \in ChoicesIn(d) => d = n
                     /\ \A k \in ChoicesIn(d) : m \notin Belongs(d, k)
<1> DEFINE a == Accordion(n)
<1>1. ChoicesAreLocal(Forms[form])
    BY ChoicesAssumption
<1>2. /\ DOMAIN a.default \subseteq DOMAIN a.choice
      /\ a.late \subseteq DOMAIN a.default
      /\ \A g \in DOMAIN a.rederives : g \notin a.late /\ a.rederives[g] \subseteq DOMAIN a.default
      /\ DOMAIN a.erases \subseteq DOMAIN a.choice
      /\ \A m \in DOMAIN a.erases : \A c \in DOMAIN a.erases[m] :
           a.erases[m][c] \subseteq Decides(a, m) \ a.choice[m][c]
    BY <1>1 DEF ChoicesAreLocal, Accordions, Accordion
<1>3. \A m \in DOMAIN a.choice :
        /\ DOMAIN a.choice[m] # {}
        /\ m \in a.holds \ a.edits /\ m \notin a.blanks /\ ~ Sets(a, m)
    BY <1>1 DEF ChoicesAreLocal, Accordions, Accordion
<1>4. \A m \in DOMAIN a.choice : \A d \in Accordions :
        /\ m \in Accordion(d).holds \cup DOMAIN Accordion(d).choice => d = n
        /\ \A k \in DOMAIN Accordion(d).choice : m \notin Decides(Accordion(d), k)
    BY <1>1 DEF ChoicesAreLocal, Accordions, Accordion
<1>5. \A m \in DOMAIN a.default : a.default[m] \in DOMAIN a.choice[m]
    BY <1>1 DEF ChoicesAreLocal, Accordions, Accordion
<1> HIDE DEF a
<1>6. /\ Unwritten(n) = DOMAIN a.default /\ ChoicesIn(n) = DOMAIN a.choice
      /\ \A m : Belongs(n, m) = Decides(a, m)
    BY DEF Unwritten, ChoicesIn, Belongs, a
<1>7. /\ \A g : Rederived(n, g) \subseteq Unwritten(n)
      /\ \A g \in a.late : Rederived(n, g) = {}
    BY <1>2, <1>6 DEF Rederived, a
<1>8. ASSUME NEW values, NEW f \in Erased(n, values)
      PROVE  \E m \in ChoicesIn(n) : f \in Belongs(n, m) \ a.choice[m][values[m]]
    <2>1. PICK m \in DOMAIN a.erases : values[m] \in DOMAIN a.erases[m] /\ f \in a.erases[m][values[m]]
        BY <1>8 DEF Erased, a
    <2>2. QED BY <1>2, <1>6, <2>1
<1>9. ASSUME NEW m \in Unwritten(n), NEW values
      PROVE  ChoiceFor(n, m, values) \in DOMAIN a.choice[m]
    <2> DEFINE present == {c \in DOMAIN a.choice[m] : \E f \in a.choice[m][c] : values[f] # Absent}
    <2>1. ChoiceFor(n, m, values) = IF present = {} THEN a.default[m] ELSE CHOOSE c \in present : TRUE
        BY DEF ChoiceFor, a
    <2>2. present \subseteq DOMAIN a.choice[m]
        OBVIOUS
    <2> HIDE DEF present
    <2>3. QED BY <1>5, <1>6, <2>1, <2>2
<1>10. \A m \in ChoicesIn(n) : \A g : m \notin Follows(n, g)
    BY <1>3, <1>6 DEF Follows, Sets, a
<1>11. ASSUME NEW m \in ChoicesIn(n), NEW d \in Accordions
       PROVE  /\ m \in Accordion(d).holds \/ m \in ChoicesIn(d) => d = n
              /\ \A k \in ChoicesIn(d) : m \notin Belongs(d, k)
    BY <1>4, <1>6, <1>11 DEF ChoicesIn, Belongs
<1>12. \A values : \A f \in Erased(n, values) : Unused(n, values, f)
    BY <1>8 DEF Unused, a
<1>13. \A m \in ChoicesIn(n) : \A values : m \notin Erased(n, values)
    BY <1>8, <1>11
<1>14. QED BY <1>2, <1>3, <1>6, <1>7, <1>9, <1>10, <1>11, <1>12, <1>13 DEF a

(* The fields a choice decides on: who holds them, and who does not set them.   *)
LEMMA DecidedFacts ==
    ASSUME form \in DOMAIN Forms, NEW n \in Accordions, NEW m \in ChoicesIn(n),
           NEW f \in Belongs(n, m)
    PROVE  /\ f \in Written(n) /\ f \in Fields
           /\ \A d \in Accordions :
                /\ f \notin ChoicesIn(d) /\ f \notin Unwritten(d) /\ f \notin Accordion(d).late
                /\ f \in Accordion(d).holds => d = n \/ d \in Around(n) \/ n \in Around(d)
                /\ \A g : f \notin Rederived(d, g)
           /\ \A d \in Around(n) :
                /\ f \in Written(d)
                /\ f \notin Accordion(d).edits /\ f \notin Accordion(d).blanks
                /\ \A g : f \notin Follows(d, g)
<1>1. DecidedOnOneBranch(Forms[form])
    BY ChoicesAssumption
<1>2. /\ f \in Accordion(n).holds
      /\ \A d \in Accordions : f \in Accordion(d).holds =>
           d = n \/ LiesIn(Forms[form], n, d) \/ LiesIn(Forms[form], d, n)
      /\ \A d \in Accordions : LiesIn(Forms[form], n, d) =>
           f \notin Accordion(d).edits \cup Accordion(d).blanks /\ ~ Sets(Accordion(d), f)
    BY <1>1 DEF DecidedOnOneBranch, Accordions, Accordion, ChoicesIn, Belongs
<1>3. \A a, d \in Accordions : LiesIn(Forms[form], a, d) <=> d \in Around(a)
    BY DEF LiesIn, Around, Accordions, Accordion
<1>4. ASSUME NEW d \in Accordions
      PROVE  /\ f \notin ChoicesIn(d) /\ f \notin Unwritten(d) /\ f \notin Accordion(d).late
             /\ \A g : f \notin Rederived(d, g)
    <2>1. f \notin ChoicesIn(d)
        BY ChoiceFacts
    <2>2. QED BY <2>1, ChoiceFacts
<1>5. f \in Written(n) /\ f \in Fields
    BY <1>2, <1>4, TreeFacts DEF Written
<1>6. ASSUME NEW d \in Around(n)
      PROVE  /\ d \in Accordions /\ f \in Written(d)
             /\ f \notin Accordion(d).edits /\ f \notin Accordion(d).blanks
             /\ \A g : f \notin Follows(d, g)
    <2>1. d \in Accordions /\ f \in Accordion(d).holds
        BY <1>5, TreeFacts
    <2>2. f \in Written(d)
        BY <1>4, <2>1 DEF Written
    <2>3. QED BY <1>2, <1>3, <2>1, <2>2 DEF Follows, Sets
<1>7. QED BY <1>2, <1>3, <1>4, <1>5, <1>6

(* What an accordion sends fits the one it is sent to. *)
LEMMA SentFacts ==
    ASSUME form \in DOMAIN Forms, NEW n \in Accordions, NEW f, NEW values
    PROVE  LET u == SentBy(n, f, values)
           IN  /\ UpdateFits(u) /\ u # NoUpdate
               /\ u.at = Parent(n) /\ u.by = n /\ u.field = f
               /\ u.values = Sent(n, values) /\ DOMAIN u.values = Written(n)
               /\ \A d \in Accordions : \A g :
                    Brings(u, d, g) <=> g \in Written(n) /\ Depth(d) >= Depth(n)
<1> DEFINE u == SentBy(n, f, values)
<1>1. /\ DOMAIN u = {"at", "values", "by", "field"}
      /\ u.at = Parent(n) /\ u.by = n /\ u.field = f /\ u.values = Sent(n, values)
    BY DEF SentBy
<1>2. DOMAIN u.values = Written(n)
    BY <1>1 DEF Sent
<1> HIDE DEF u
<1>3. UpdateFits(u)
    BY <1>1, <1>2, TreeFacts DEF UpdateFits
<1>4. u # NoUpdate
    BY <1>1, TreeFacts DEF NoUpdate
<1>5. ASSUME NEW d \in Accordions, NEW g
      PROVE  Brings(u, d, g) <=> g \in Written(n) /\ Depth(d) >= Depth(n)
    <2>1. CASE Parent(n) = "yaml"
        BY <1>1, <1>2, <1>4, <2>1, TreeFacts DEF Brings
    <2>2. CASE Parent(n) # "yaml"
        <3>1. Parent(n) \in Accordions /\ Depth(n) = Depth(Parent(n)) + 1
            BY <2>2, TreeFacts
        <3>2. Depth(n) \in Nat /\ Depth(d) \in Nat /\ Depth(Parent(n)) \in Nat
            BY <3>1, TreeFacts
        <3>3. Brings(u, d, g) <=> g \in Written(n) /\ Depth(d) > Depth(Parent(n))
            BY <1>1, <1>2, <1>4, <2>2 DEF Brings
        <3>4. QED BY <3>1, <3>2, <3>3
    <2>3. QED BY <2>1, <2>2
<1>6. QED BY <1>1, <1>2, <1>3, <1>4, <1>5 DEF u

(* The form stays, so the invariant of the next state is that of what there is  *)
(* then.                                                                        *)
LEMMA InvOfNext ==
    ASSUME form \in DOMAIN Forms, form' = form,
           DOMAIN latestYaml' = Fields, DOMAIN resource' = Fields,
           dialog' \in {"form", "yaml", "closed"}, changes' \in 0 .. MaxChanges,
           ViewFits(view'),
           update' = NoUpdate \/ (dialog' = "form" /\ UpdateFits(update')),
           dialog' = "form" => CopiesAgree(view', update', latestYaml'),
           OnlyTyped(update', latestYaml')
    PROVE  Inv'
<1> USE DEF Accordions, Accordion, Fields
<1>1. ViewFits(view)' /\ MaxChanges' = MaxChanges
    BY DEF ViewFits, MaxChanges
<1>2. (Idle \/ (dialog = "form" /\ UpdateFits(update)))'
    BY DEF Idle, UpdateFits
<1>3. (dialog = "form" => CopiesAgree(view, update, latestYaml))'
    BY DEF CopiesAgree, PlainFields, Brings, Depth
<1>4. OnlyTyped(update, latestYaml)'
    BY DEF OnlyTyped, PlainFields, Follows
<1>5. QED BY <1>1, <1>2, <1>3, <1>4 DEF Inv

(* Mounting a form on a YAML sends what the YAML has. *)
LEMMA MountFacts ==
    ASSUME form \in DOMAIN Forms, NEW yaml
    PROVE  /\ ViewFits(ViewOn(yaml)) /\ UpdateFits(MountedSends(yaml))
           /\ CopiesAgree(ViewOn(yaml), MountedSends(yaml), yaml)
           /\ OnlyTyped(MountedSends(yaml), yaml)
<1>1. ViewFits(ViewOn(yaml))
    BY DEF ViewFits, ViewOn, Mounted
<1> DEFINE u == MountedSends(yaml)
           own == Mounted(Outermost, yaml)
<1>2. /\ UpdateFits(u) /\ u.values = Sent(Outermost, own) /\ DOMAIN u.values = Written(Outermost)
      /\ Outermost \in Accordions
    BY TreeFacts, SentFacts DEF MountedSends
<1>3. ASSUME NEW f \in PlainFields, f \in DOMAIN u.values
      PROVE  u.values[f] = yaml[f]
    <2>1. f \in Accordion(Outermost).holds
        BY <1>2, <1>3, TreeFacts
    <2>2. QED BY <1>2, <2>1, PlainFacts
<1>4. ASSUME NEW f \in PlainFields, NEW n \in Accordions, f \in Accordion(n).holds
      PROVE  ViewOn(yaml)[n][f] = yaml[f]
    BY <1>4, PlainFacts DEF ViewOn
<1> HIDE DEF u, own
<1>5. CopiesAgree(ViewOn(yaml), u, yaml)
    BY <1>3, <1>4 DEF CopiesAgree, Brings
<1>6. OnlyTyped(u, yaml)
    BY <1>3 DEF OnlyTyped
<1>7. QED BY <1>1, <1>2, <1>5, <1>6 DEF u

-----------------------------------------------------------------------------
(* The steps *)

LEMMA InitInv == FormInit => Inv
<1> SUFFICES ASSUME FormInit PROVE Inv
    OBVIOUS
<1>1. form \in DOMAIN Forms /\ MaxChanges \in Nat /\ changes = 0
    BY FormsAssumption DEF FormInit, MaxChanges
<1>2. DOMAIN resource = Fields
    <2>1. resource \in Resources(form)
        BY DEF FormInit
    <2>2. \A chosen : DOMAIN ResourceOf(form, chosen) = Fields
        BY DEF ResourceOf, Fields
    <2>3. QED BY <2>1, <2>2 DEF Resources
<1>3. /\ view = ViewOn(resource) /\ update = MountedSends(resource)
      /\ latestYaml = resource /\ dialog = "form"
    BY DEF FormInit
<1>4. QED BY <1>1, <1>2, <1>3, MountFacts DEF Inv

(* A change of the field f of n: the copies above n and below have the YAML's   *)
(* value of every plain field, n itself and the update the value typed.         *)
LEMMA ChangeInv ==
    ASSUME Inv, MayChange, NEW n \in Accordions, NEW f \in Accordion(n).edits \cup ChoicesIn(n),
           NEW v, Change(n, f, v)
    PROVE  Inv'
<1> DEFINE typed == [g \in Accordion(n).holds |->
                       IF g = f \/ g \in Follows(n, f) THEN v
                       ELSE IF g \in Rederived(n, f) THEN ChoiceFor(n, g, view[n])
                       ELSE view[n][g]]
           sent == IF f \in Accordion(n).late THEN view[n] ELSE typed
           kept == [g \in Accordion(n).holds |-> IF g \in Erased(n, sent) THEN Absent ELSE typed[g]]
           views == [view EXCEPT ![n] = kept]
           u == SentBy(n, f, sent)
           IsTyped(g) == g = f \/ g \in Follows(n, f)
<1>1. /\ view' = Remounted(n, views) /\ update' = u /\ changes' = changes + 1
      /\ UNCHANGED <<form, latestYaml, resource, dialog>>
    BY DEF Change
<1>2. form \in DOMAIN Forms /\ dialog = "form" /\ update = NoUpdate
      /\ changes \in 0 .. MaxChanges /\ changes < MaxChanges /\ MaxChanges \in Nat
    BY FormsAssumption DEF Inv, MayChange, Idle, MaxChanges
<1>3. /\ UpdateFits(u) /\ u # NoUpdate /\ u.by = n /\ u.field = f
      /\ u.values = Sent(n, sent) /\ DOMAIN u.values = Written(n)
      /\ \A d \in Accordions : \A g :
           Brings(u, d, g) <=> g \in Written(n) /\ Depth(d) >= Depth(n)
    <2> HIDE DEF sent
    <2>1. QED BY <1>2, SentFacts
<1>4. ViewFits(view')
    <2>1. ViewFits(view)
        BY DEF Inv
    <2>2. ViewFits(views)
        BY <2>1 DEF ViewFits
    <2> HIDE DEF views
    <2>3. \A d \in Accordions : DOMAIN Mounted(d, views[n]) = Accordion(d).holds
        BY DEF Mounted
    <2>4. QED BY <1>1, <2>2, <2>3 DEF ViewFits, Remounted
<1>5. \A g \in PlainFields : \A d \in Accordions :
        g \in Accordion(d).holds => view[d][g] = latestYaml[g]
    BY <1>2 DEF Inv, CopiesAgree, Brings
<1>6. ASSUME NEW g \in PlainFields, g \in Accordion(n).holds
      PROVE  /\ kept[g] = u.values[g] /\ g \in Written(n)
             /\ ~ IsTyped(g) => kept[g] = latestYaml[g]
    <2>1. /\ g \in Written(n) /\ g \notin Rederived(n, f)
          /\ g \notin Erased(n, sent) /\ Sent(n, sent)[g] = sent[g]
        <3> HIDE DEF sent
        <3>1. QED BY <1>2, <1>6, PlainFacts
    <2>2. typed[g] = IF IsTyped(g) THEN v ELSE view[n][g]
        BY <1>6, <2>1
    <2>3. sent[g] = typed[g]
        BY <1>2, <2>2, HolderFacts
    <2>4. kept[g] = typed[g]
        BY <1>6, <2>1
    <2> HIDE DEF kept, typed, sent, u
    <2>5. QED BY <1>3, <1>5, <1>6, <2>1, <2>2, <2>3, <2>4
<1>7. ASSUME NEW g \in PlainFields, NEW d \in Accordions, g \in Accordion(d).holds
      PROVE  view'[d][g] = IF Brings(u, d, g) THEN u.values[g] ELSE latestYaml[g]
    <2>1. view'[d] = views[d] \/ (n \in Around(d) /\ view'[d] = Mounted(d, views[n]))
        BY <1>1 DEF Remounted
    <2>2. n \in Around(d) =>
            /\ g \in Accordion(n).holds /\ Depth(n) < Depth(d)
            /\ Mounted(d, views[n])[g] = views[n][g]
        <3> HIDE DEF views
        <3>1. g \in Written(d) /\ Mounted(d, views[n])[g] = views[n][g]
            BY <1>2, <1>7, PlainFacts
        <3>2. QED BY <1>2, <3>1, TreeFacts
    <2>3. views[n] = kept /\ (d # n => views[d] = view[d])
        BY DEF Inv, ViewFits
    <2>4. view[d][g] = latestYaml[g]
        BY <1>5, <1>7
    <2>5. Brings(u, d, g) <=> g \in Accordion(n).holds /\ Depth(d) >= Depth(n)
        BY <1>2, <1>3, <1>6, TreeFacts
    <2>6. Depth(d) \in Nat /\ Depth(n) \in Nat
        BY <1>2, TreeFacts
    <2> HIDE DEF views, kept, u
    <2>7. CASE d = n
        BY <1>6, <1>7, <2>1, <2>2, <2>3, <2>5, <2>6, <2>7
    <2>8. CASE d # n /\ g \notin Accordion(n).holds
        BY <2>1, <2>2, <2>3, <2>4, <2>5, <2>8
    <2>9. CASE d # n /\ g \in Accordion(n).holds /\ ~ IsTyped(g)
        BY <1>6, <2>1, <2>2, <2>3, <2>4, <2>9
    <2>10. CASE d # n /\ g \in Accordion(n).holds /\ IsTyped(g)
        <3>1. Depth(d) <= Depth(n) /\ Depth(d) # Depth(n)
            BY <1>2, <1>7, <2>10, HolderFacts
        <3>2. QED BY <2>1, <2>2, <2>3, <2>4, <2>5, <2>6, <2>10, <3>1
    <2>11. QED BY <2>7, <2>8, <2>9, <2>10
<1>8. OnlyTyped(u, latestYaml)
    <2> SUFFICES ASSUME NEW g \in PlainFields, g \in DOMAIN u.values
                 PROVE  u.values[g] = latestYaml[g] \/ g = u.field \/ g \in Follows(u.by, u.field)
        BY DEF OnlyTyped
    <2> HIDE DEF u, kept
    <2>1. g \in Accordion(n).holds
        BY <1>2, <1>3, TreeFacts
    <2>2. QED BY <1>3, <1>6, <2>1
<1> HIDE DEF u
<1>9. CopiesAgree(view', u, latestYaml)
    BY <1>7 DEF CopiesAgree
<1>10. DOMAIN latestYaml = Fields /\ DOMAIN resource = Fields
    BY DEF Inv
<1>11. QED BY <1>1, <1>2, <1>3, <1>4, <1>8, <1>9, <1>10, InvOfNext

(* The accordion around takes the plain fields of the update as they are, and   *)
(* sends its own copy of the others, which is what the YAML has.                *)
LEMMA OnUpdateInv ==
    ASSUME Inv, OnUpdate
    PROVE  Inv'
<1> DEFINE m == update.at
           taken == [f \in Accordion(m).holds |->
                       IF f \in DOMAIN update.values THEN update.values[f] ELSE view[m][f]]
           sent == [f \in Accordion(m).holds |->
                      IF f \in Accordion(m).late THEN view[m][f] ELSE taken[f]]
           kept == [f \in Accordion(m).holds |-> IF f \in Erased(m, sent) THEN Absent ELSE taken[f]]
           u == [update EXCEPT !.at = Parent(m), !.values = Sent(m, sent)]
<1>1. /\ m \in Accordions /\ view' = [view EXCEPT ![m] = kept] /\ update' = u
      /\ UNCHANGED <<form, latestYaml, resource, dialog, changes>>
    BY DEF OnUpdate
<1>2. /\ form \in DOMAIN Forms /\ update # NoUpdate /\ dialog = "form" /\ UpdateFits(update)
      /\ ViewFits(view) /\ DOMAIN latestYaml = Fields /\ DOMAIN resource = Fields
      /\ changes \in 0 .. MaxChanges
    <2>1. update # NoUpdate
        BY <1>1, TreeFacts DEF Inv, NoUpdate
    <2>2. QED BY <2>1 DEF Inv, Idle
<1>3. /\ DOMAIN u = {"at", "values", "by", "field"} /\ u.by = update.by /\ u.field = update.field
      /\ u.at = Parent(m) /\ u.values = Sent(m, sent)
    BY <1>2 DEF UpdateFits
<1>4. DOMAIN u.values = Written(m)
    BY <1>3 DEF Sent
<1>5. UpdateFits(u) /\ u # NoUpdate
    <2> HIDE DEF u
    <2>1. u.at # "none"
        BY <1>1, <1>2, <1>3, TreeFacts
    <2>2. u # NoUpdate
        BY <2>1 DEF NoUpdate
    <2>3. QED BY <1>1, <1>2, <1>3, <1>4, <2>2, TreeFacts DEF UpdateFits
<1>6. ViewFits(view')
    BY <1>1, <1>2 DEF ViewFits
<1>7. \A d \in Accordions : \A f :
        Brings(u, d, f) <=> f \in Written(m) /\ Depth(d) >= Depth(m)
    <2> HIDE DEF u
    <2>1. CASE Parent(m) = "yaml"
        BY <1>1, <1>2, <1>3, <1>4, <1>5, <2>1, TreeFacts DEF Brings
    <2>2. CASE Parent(m) # "yaml"
        <3>1. /\ Parent(m) \in Accordions /\ Depth(m) = Depth(Parent(m)) + 1
              /\ Depth(m) \in Nat /\ Depth(Parent(m)) \in Nat
              /\ \A d \in Accordions : Depth(d) \in Nat
            BY <1>1, <1>2, <2>2, TreeFacts
        <3>2. \A d, f : Brings(u, d, f) <=> f \in Written(m) /\ Depth(d) > Depth(Parent(m))
            BY <1>3, <1>4, <1>5, <2>2 DEF Brings
        <3>3. QED BY <3>1, <3>2
    <2>3. QED BY <2>1, <2>2
<1>8. \A f \in PlainFields : \A d \in Accordions :
        f \in Accordion(d).holds =>
          view[d][f] = IF f \in DOMAIN update.values /\ Depth(d) > Depth(m)
                       THEN update.values[f] ELSE latestYaml[f]
    <2>1. m # "yaml"
        BY <1>1, <1>2, TreeFacts
    <2>2. QED BY <1>2, <2>1 DEF Inv, CopiesAgree, Brings
<1>9. ASSUME NEW f \in PlainFields, f \in Accordion(m).holds
      PROVE  /\ f \in Written(m) /\ kept[f] = u.values[f]
             /\ u.values[f] = IF f \in DOMAIN update.values THEN update.values[f] ELSE latestYaml[f]
    <2>1. /\ f \in Written(m) /\ f \notin Accordion(m).late
          /\ f \notin Erased(m, sent) /\ Sent(m, sent)[f] = sent[f]
        <3> HIDE DEF sent
        <3>1. QED BY <1>1, <1>2, <1>9, PlainFacts
    <2>2. Depth(m) \in Nat
        BY <1>1, <1>2, TreeFacts
    <2>3. view[m][f] = latestYaml[f]
        BY <1>1, <1>8, <1>9, <2>2
    <2>4. sent[f] = taken[f] /\ kept[f] = taken[f]
        BY <1>9, <2>1
    <2>5. taken[f] = IF f \in DOMAIN update.values THEN update.values[f] ELSE latestYaml[f]
        BY <1>9, <2>3
    <2> HIDE DEF sent, kept, taken, u
    <2>6. QED BY <1>3, <2>1, <2>4, <2>5
<1>10. ASSUME NEW f \in PlainFields, NEW d \in Accordions, f \in Accordion(d).holds
       PROVE  view'[d][f] = IF Brings(u, d, f) THEN u.values[f] ELSE latestYaml[f]
    <2>1. view'[d] = IF d = m THEN kept ELSE view[d]
        BY <1>1, <1>2 DEF ViewFits
    <2>2. Brings(u, d, f) <=> f \in Accordion(m).holds /\ Depth(d) >= Depth(m)
        BY <1>1, <1>2, <1>7, <1>9, TreeFacts
    <2>3. f \in DOMAIN update.values => f \in Accordion(m).holds
        <3>1. m # "yaml"
            BY <1>1, <1>2, TreeFacts
        <3>2. QED BY <1>2, <3>1 DEF UpdateFits
    <2>4. Depth(d) \in Nat /\ Depth(m) \in Nat
        BY <1>1, <1>2, TreeFacts
    <2>5. view[d][f] = IF f \in DOMAIN update.values /\ Depth(d) > Depth(m)
                       THEN update.values[f] ELSE latestYaml[f]
        BY <1>8, <1>10
    <2> HIDE DEF kept, u
    <2>6. CASE d = m
        BY <1>9, <1>10, <2>1, <2>2, <2>4, <2>6
    <2>7. CASE d # m /\ f \notin Accordion(m).holds
        BY <2>1, <2>2, <2>3, <2>5, <2>7
    <2>8. CASE d # m /\ f \in Accordion(m).holds
        <3>1. Depth(d) # Depth(m)
            BY <1>1, <1>2, <1>10, <2>8, HolderFacts
        <3>2. QED BY <1>9, <2>1, <2>2, <2>4, <2>5, <2>8, <3>1
    <2>9. QED BY <2>6, <2>7, <2>8
<1>11. OnlyTyped(u, latestYaml)
    <2> SUFFICES ASSUME NEW f \in PlainFields, f \in DOMAIN u.values
                 PROVE  u.values[f] = latestYaml[f] \/ f = u.field \/ f \in Follows(u.by, u.field)
        BY DEF OnlyTyped
    <2> HIDE DEF u, kept
    <2>1. f \in Accordion(m).holds
        BY <1>1, <1>2, <1>4, TreeFacts
    <2>2. f \in DOMAIN update.values =>
            \/ update.values[f] = latestYaml[f] \/ f = update.field
            \/ f \in Follows(update.by, update.field)
        BY <1>2 DEF Inv, OnlyTyped
    <2>3. QED BY <1>3, <1>9, <2>1, <2>2
<1> HIDE DEF u
<1>12. CopiesAgree(view', u, latestYaml)
    BY <1>10 DEF CopiesAgree
<1>13. QED BY <1>1, <1>2, <1>5, <1>6, <1>11, <1>12, InvOfNext

(* The editor writes what has passed every copy.                                *)
LEMMA WriteYamlInv ==
    ASSUME Inv, WriteYaml
    PROVE  /\ Inv'
           /\ \A f \in PlainFields :
                \/ latestYaml'[f] = latestYaml[f]
                \/ f = update.field \/ f \in Follows(update.by, update.field)
<1>1. /\ update.at = "yaml" /\ update' = NoUpdate
      /\ latestYaml' = [f \in DOMAIN latestYaml |->
                          IF f \in DOMAIN update.values THEN update.values[f] ELSE latestYaml[f]]
      /\ UNCHANGED <<form, view, resource, dialog, changes>>
    BY DEF WriteYaml
<1>2. /\ form \in DOMAIN Forms /\ update # NoUpdate /\ dialog = "form"
      /\ ViewFits(view) /\ DOMAIN latestYaml = Fields /\ DOMAIN resource = Fields
      /\ changes \in 0 .. MaxChanges
    <2>1. update # NoUpdate
        BY <1>1 DEF NoUpdate
    <2>2. QED BY <2>1 DEF Inv, Idle
<1>3. ASSUME NEW f \in PlainFields, NEW n \in Accordions, f \in Accordion(n).holds
      PROVE  view[n][f] = latestYaml'[f]
    <2>1. view[n][f] = IF f \in DOMAIN update.values THEN update.values[f] ELSE latestYaml[f]
        BY <1>1, <1>2, <1>3 DEF Inv, CopiesAgree, Brings
    <2>2. f \in DOMAIN latestYaml
        BY <1>2, PlainFacts
    <2>3. QED BY <1>1, <2>1, <2>2
<1>4. CopiesAgree(view', update', latestYaml')
    BY <1>1, <1>3 DEF CopiesAgree, Brings
<1>5. OnlyTyped(update', latestYaml')
    BY <1>1 DEF OnlyTyped
<1>6. DOMAIN latestYaml' = Fields
    BY <1>1, <1>2
<1>7. Inv'
    BY <1>1, <1>2, <1>4, <1>5, <1>6, InvOfNext
<1>8. ASSUME NEW f \in PlainFields
      PROVE  \/ latestYaml'[f] = latestYaml[f]
             \/ f = update.field \/ f \in Follows(update.by, update.field)
    <2>1. f \in DOMAIN latestYaml
        BY <1>2, PlainFacts
    <2>2. QED BY <1>1, <1>2, <2>1 DEF Inv, OnlyTyped
<1>9. QED BY <1>7, <1>8

(* The steps of the dialog mount the form, or leave no copies to speak of.      *)
LEMMA DialogInv ==
    ASSUME Inv,
           \/ ShowYaml \/ ShowForm \/ Save \/ Cancel \/ Open
           \/ \E f \in Fields : EditYaml(f)
    PROVE  Inv'
<1>1. /\ form \in DOMAIN Forms /\ ViewFits(view) /\ DOMAIN latestYaml = Fields
      /\ DOMAIN resource = Fields /\ changes \in 0 .. MaxChanges /\ MaxChanges \in Nat
      /\ dialog # "form" => update = NoUpdate
    BY FormsAssumption DEF Inv, Idle, MaxChanges
<1>2. \A yaml : OnlyTyped(NoUpdate, yaml)
    BY DEF OnlyTyped
<1>3. CASE ShowYaml \/ Cancel
    BY <1>1, <1>2, <1>3, InvOfNext DEF ShowYaml, Cancel, Idle
<1>4. CASE Save
    BY <1>1, <1>2, <1>4, InvOfNext DEF Save, Idle
<1>5. ASSUME NEW f \in Fields, EditYaml(f) PROVE Inv'
    <2>1. /\ dialog = "yaml" /\ changes' \in 0 .. MaxChanges /\ DOMAIN latestYaml' = Fields
          /\ UNCHANGED <<form, view, update, resource, dialog>>
        BY <1>1, <1>5 DEF EditYaml
    <2>2. QED BY <1>1, <1>2, <2>1, InvOfNext
<1>6. CASE ShowForm \/ Open
    <2>1. PICK yaml : /\ latestYaml' = yaml /\ DOMAIN yaml = Fields
                      /\ view' = ViewOn(yaml) /\ update' = MountedSends(yaml)
        BY <1>1, <1>6 DEF ShowForm, Open, MountForm
    <2>2. dialog' = "form" /\ form' = form /\ resource' = resource /\ changes' = changes
        BY <1>6 DEF ShowForm, Open
    <2>3. QED BY <1>1, <2>1, <2>2, MountFacts, InvOfNext
<1>7. QED BY <1>3, <1>4, <1>5, <1>6

LEMMA NextInv == Inv /\ [FormNext]_formVars => Inv'
<1> SUFFICES ASSUME Inv, [FormNext]_formVars PROVE Inv'
    OBVIOUS
<1>1. CASE UNCHANGED formVars
    <2>1. UNCHANGED <<form, view, update, latestYaml, resource, dialog, changes>>
        BY <1>1 DEF formVars
    <2>2. QED BY <2>1, InvOfNext DEF Inv, Idle
<1>2. ASSUME NEW n \in Accordions, NEW f \in Accordion(n).edits, Type(n, f) PROVE Inv'
    BY <1>2, ChangeInv DEF Type
<1>3. ASSUME NEW n \in Accordions, NEW m \in ChoicesIn(n), Choose(n, m) PROVE Inv'
    BY <1>3, ChangeInv DEF Choose
<1>4. CASE OnUpdate \/ WriteYaml
    BY <1>4, OnUpdateInv, WriteYamlInv
<1>5. QED BY <1>1, <1>2, <1>3, <1>4, DialogInv DEF FormNext

LEMMA InvHolds == FormSpec => []Inv
BY InitInv, NextInv, PTL DEF FormSpec

-----------------------------------------------------------------------------
(* The theorems, for every set of forms of which FormsAssumption is true.       *)

(* The variables have their types: no accordion is sent a field it has not.     *)
THEOREM FormTypeCorrect == FormSpec => []FormTypeOK
<1>1. Inv => FormTypeOK
    BY DEF Inv, FormTypeOK, ViewFits, UpdateFits
<1>2. QED BY <1>1, InvHolds, PTL

(* What was typed into a control of a plain field is in the YAML whenever no    *)
(* call is on its way, however deep the accordion lies and whatever was typed   *)
(* elsewhere since: the handlers of the editors, for any such tree of them.     *)
THEOREM TypedTextReachesYaml == FormSpec => []PlainEditsReachYaml
<1>1. Inv => PlainEditsReachYaml
    <2> SUFFICES ASSUME Inv, dialog = "form", Idle,
                        NEW n \in Accordions, NEW f \in Accordion(n).edits \cap PlainFields
                 PROVE  latestYaml[f] = view[n][f]
        BY DEF PlainEditsReachYaml
    <2>1. f \in Accordion(n).holds
        BY TreeFacts DEF Inv
    <2>2. QED BY <2>1 DEF Inv, Idle, CopiesAgree, Brings
<1>2. QED BY <1>1, InvHolds, PTL

(* A change writes no plain field but the one typed and those its control sets  *)
(* with it; mounting a form writes none.                                        *)
THEOREM OtherFieldsStay == FormSpec => OnlyTypedFieldsChange
<1>1. Inv /\ [FormNext]_formVars =>
        [WriteYaml =>
           \A f \in PlainFields :
             \/ latestYaml'[f] = latestYaml[f]
             \/ f = update.field \/ f \in Follows(update.by, update.field)]_formVars
    BY WriteYamlInv
<1>2. QED BY <1>1, InvHolds, PTL DEF FormSpec, OnlyTypedFieldsChange
-----------------------------------------------------------------------------
(* Choices.  The invariant about them, of copies, an update, a YAML and a       *)
(* resource.                                                                    *)

OnBranch(n, d) == d \in Branch(n) \/ n \in Around(d)

\* An update goes from where it began to the accordions around, one by one.
Travels(u) ==
  u # NoUpdate =>
    \E d \in Branch(u.by) : u.at = Parent(d) /\ DOMAIN u.values = Written(d)

\* It brings what the accordion with the late choice makes of its copy now, if
\* it is not this choice that was changed.
LateSent(copies, u) ==
  u # NoUpdate =>
    \A n \in Branch(u.by) :
      /\ LateChoices(n) # {} /\ u.field \notin LateChoices(n)
      /\ u.at = "yaml" \/ Depth(n) > Depth(u.at)
      => \A f \in Written(n) : f \in DOMAIN u.values /\ u.values[f] = Sent(n, copies[n])[f]

Options(n, m) == DOMAIN Accordion(n).choice[m]

\* Of the fields that m decides on, values has those of the option c at most.
OnlyOf(values, n, m, c) ==
  \A f \in Belongs(n, m) \ Accordion(n).choice[m][c] : f \in DOMAIN values => values[f] = Absent

OneOf(values, n, m) ==
  \E c \in Options(n, m) : /\ m \in DOMAIN values => values[m] = c
                           /\ OnlyOf(values, n, m, c)

\* The update has not got to n yet, in which it began.
Within(u, n) == u.at # "yaml" /\ n \in Branch(u.at)

ChoicesMade(copies) ==
  \A n \in Accordions : \A m \in ChoicesIn(n) : copies[n][m] \in Options(n, m)

OneSource(copies, u, yaml) ==
  \A n \in Accordions : \A m \in ChoicesIn(n) :
    /\ OneOf(yaml, n, m)
    /\ \A p \in Around(n) : OneOf(copies[p], n, m)
    /\ u # NoUpdate /\ ~ Within(u, n) => OneOf(u.values, n, m)

\* What has been sent on shows the choice as it is made, but where an update of
\* this branch has not been yet.
ShowsChoice(copies, u, yaml) ==
  \A n \in Accordions : \A m \in ChoicesIn(n) \ Accordion(n).late :
    LET c == copies[n][m]
        comes == u # NoUpdate /\ OnBranch(n, u.by)
    IN  /\ ~ comes => OnlyOf(yaml, n, m, c)
        /\ \A p \in Around(n) :
             ~ (comes /\ u.at # "yaml" /\ Depth(p) <= Depth(u.at)) => OnlyOf(copies[p], n, m, c)
        /\ u # NoUpdate /\ ~ Within(u, n) => OnlyOf(u.values, n, m, c)

ChoiceInv(copies, u, yaml, saved) ==
  /\ Travels(u) /\ LateSent(copies, u)
  /\ ChoicesMade(copies)
  /\ OneSource(copies, u, yaml)
  /\ ShowsChoice(copies, u, yaml)
  /\ \A n \in Accordions : \A m \in ChoicesIn(n) : OneOf(saved, n, m)

CInv == ChoiceInv(view, update, latestYaml, resource)

LEMMA ChoiceInvOfNext ==
    ASSUME form' = form, ChoiceInv(view', update', latestYaml', resource')
    PROVE  CInv'
<1> USE DEF Accordions, Accordion, Around, Branch, Options, ChoicesIn, Belongs
<1>1. /\ Accordions' = Accordions
      /\ \A n : /\ Accordion(n)' = Accordion(n) /\ Around(n)' = Around(n) /\ Branch(n)' = Branch(n)
                /\ ChoicesIn(n)' = ChoicesIn(n)
      /\ \A n, m : Belongs(n, m)' = Belongs(n, m) /\ Options(n, m)' = Options(n, m)
    OBVIOUS
<1>2. Travels(update)'
    BY DEF ChoiceInv, Travels, Parent, Written, Unwritten
<1>3. LateSent(view, update)'
    <2>1. \A n : LateChoices(n)' = LateChoices(n) /\ Depth(n)' = Depth(n) /\ Written(n)' = Written(n)
        BY DEF LateChoices, Depth, Written, Unwritten
    <2>2. \A n : Sent(n, view[n])' = Sent(n, view'[n])
        BY DEF Sent, Unused, Written, Unwritten
    <2>3. QED BY <1>1, <2>1, <2>2 DEF ChoiceInv, LateSent
<1>4. ChoicesMade(view)'
    BY DEF ChoiceInv, ChoicesMade
<1>5. OneSource(view, update, latestYaml)'
    BY DEF ChoiceInv, OneSource, OneOf, OnlyOf, Within
<1>6. ShowsChoice(view, update, latestYaml)'
    BY DEF ChoiceInv, ShowsChoice, OnlyOf, Within, OnBranch, Depth
<1>7. (\A n \in Accordions : \A m \in ChoicesIn(n) : OneOf(resource, n, m))'
    BY DEF ChoiceInv, OneOf, OnlyOf
<1>8. QED BY <1>2, <1>3, <1>4, <1>5, <1>6, <1>7 DEF CInv, ChoiceInv

(* A choice that is sent is made in an accordion with none around it.           *)
LEMMA WrittenChoice ==
    ASSUME form \in DOMAIN Forms, NEW n \in Accordions, NEW m \in ChoicesIn(n)
    PROVE  /\ m \in Written(n) => Around(n) = {}
           /\ m \in Written(n) \/ m \in Unwritten(n)
           /\ m \in Fields => m \in Written(n)
           /\ \A d \in Accordions : m \in Accordion(d).holds => d = n
           /\ \A d \in Accordions : m \in Written(d) => d = n
<1>1. \A d \in Accordions : m \in Accordion(d).holds => d = n
    BY ChoiceFacts
<1>2. \A d \in Accordions : m \in Written(d) => d = n
    BY <1>1 DEF Written
<1>3. m \in Written(n) => Around(n) = {}
    BY <1>1, TreeFacts, BranchFacts
<1>4. m \in Written(n) \/ m \in Unwritten(n)
    BY ChoiceFacts DEF Written
<1>5. m \in Fields => m \in Written(n)
    <2>1. Fields = UNION {Written(d) : d \in Accordions}
        BY DEF Fields, FieldsOf, Written, Unwritten, Accordion, Accordions
    <2>2. QED BY <1>2, <2>1
<1>6. QED BY <1>1, <1>2, <1>3, <1>4, <1>5

(* What an accordion sends has one option of every choice around or in it.      *)
LEMMA SendShows ==
    ASSUME form \in DOMAIN Forms, NEW n \in Accordions, NEW m \in ChoicesIn(n),
           NEW a \in Accordions, NEW values, DOMAIN values = Accordion(a).holds
    PROVE  /\ \A c : a \in Around(n) /\ OnlyOf(values, n, m, c) => OnlyOf(Sent(a, values), n, m, c)
           /\ a = n => OnlyOf(Sent(a, values), n, m, values[m])
           /\ \A c : ~ OnBranch(n, a) => OnlyOf(Sent(a, values), n, m, c)
           /\ a \in Around(n) /\ OneOf(values, n, m) => OneOf(Sent(a, values), n, m)
           /\ a = n /\ values[m] \in Options(n, m) => OneOf(Sent(a, values), n, m)
           /\ ~ OnBranch(n, a) => OneOf(Sent(a, values), n, m)
<1> DEFINE s == Sent(a, values)
<1>1. /\ DOMAIN s = Written(a)
      /\ \A f \in Written(a) : s[f] = IF Unused(a, values, f) THEN Absent ELSE values[f]
      /\ Written(a) \subseteq Accordion(a).holds
    BY TreeFacts DEF Sent
<1> HIDE DEF s
<1>2. ASSUME NEW c, OnlyOf(values, n, m, c) PROVE OnlyOf(s, n, m, c)
    BY <1>1, <1>2 DEF OnlyOf
<1>3. a = n => OnlyOf(s, n, m, values[m])
    BY <1>1 DEF OnlyOf, Unused
<1>4. ~ OnBranch(n, a) => \A c : OnlyOf(s, n, m, c)
    <2>1. ~ OnBranch(n, a) => \A f \in Belongs(n, m) : f \notin Accordion(a).holds
        BY DecidedFacts DEF OnBranch, Branch
    <2>2. QED BY <1>1, <2>1 DEF OnlyOf
<1>5. a # n => m \notin DOMAIN s
    BY <1>1, WrittenChoice
<1>6. a = n /\ m \in DOMAIN s => s[m] = values[m]
    BY <1>1, ChoiceFacts DEF Unused
<1>7. n \notin Around(n) /\ Options(n, m) # {}
    BY BranchFacts, ChoiceFacts DEF Options
<1>8. a \in Around(n) /\ OneOf(values, n, m) => OneOf(s, n, m)
    BY <1>2, <1>5, <1>7 DEF OneOf
<1>9. a = n /\ values[m] \in Options(n, m) => OneOf(s, n, m)
    BY <1>3, <1>6 DEF OneOf
<1>10. ~ OnBranch(n, a) => OneOf(s, n, m)
    <2>1. ~ OnBranch(n, a) => a # n
        BY DEF OnBranch, Branch
    <2>2. QED BY <1>4, <1>5, <1>7, <2>1 DEF OneOf
<1>11. QED BY <1>2, <1>3, <1>4, <1>8, <1>9, <1>10 DEF s

(* Mounting makes the choice that the values show.                              *)
LEMMA MountShows ==
    ASSUME form \in DOMAIN Forms, NEW n \in Accordions, NEW m \in ChoicesIn(n),
           NEW values, Written(n) \subseteq DOMAIN values
    PROVE  LET c == Mounted(n, values)[m]
           IN  /\ m \in Unwritten(n) => c \in Options(n, m)
               /\ OneOf(values, n, m) => c \in Options(n, m) /\ OnlyOf(values, n, m, c)
<1> DEFINE c == Mounted(n, values)[m]
<1>1. m \in Accordion(n).holds /\ m \notin Accordion(n).blanks
    BY ChoiceFacts
<1>2. c = IF m \in Unwritten(n) THEN ChoiceFor(n, m, values) ELSE values[m]
    BY <1>1 DEF Mounted
<1> HIDE DEF c
<1>3. m \in Unwritten(n) => c \in Options(n, m)
    BY <1>2, ChoiceFacts DEF Options
<1>4. ASSUME OneOf(values, n, m), m \in Unwritten(n) PROVE OnlyOf(values, n, m, c)
    <2>1. PICK e \in Options(n, m) : OnlyOf(values, n, m, e)
        BY <1>4 DEF OneOf
    <2> DEFINE present == {x \in Options(n, m) : \E f \in Accordion(n).choice[m][x] : values[f] # Absent}
    <2>2. c = IF present = {} THEN Accordion(n).default[m] ELSE CHOOSE x \in present : TRUE
        BY <1>2, <1>4 DEF ChoiceFor, Options
    <2>3. Belongs(n, m) = UNION {Accordion(n).choice[m][x] : x \in Options(n, m)}
        BY DEF Belongs, Decides, Options
    <2>4. Belongs(n, m) \subseteq DOMAIN values
        BY DecidedFacts
    <2>5. \A x \in Options(n, m) : x # e => Accordion(n).choice[m][x] \cap Accordion(n).choice[m][e] = {}
        <3>1. ChoicesAreLocal(Forms[form])
            BY ChoicesAssumption
        <3>2. QED BY <1>4, <3>1, <2>1 DEF ChoicesAreLocal, Accordions, Accordion, Options, Unwritten
    <2>6. present \subseteq {e}
        <3>1. ASSUME NEW x \in present PROVE x = e
            <4>1. PICK f \in Accordion(n).choice[m][x] : values[f] # Absent
                OBVIOUS
            <4>2. x \in Options(n, m) /\ f \in Belongs(n, m)
                BY <2>3
            <4>3. f \in Accordion(n).choice[m][e]
                BY <2>1, <2>4, <4>1, <4>2 DEF OnlyOf
            <4>4. QED BY <2>5, <4>2, <4>3
        <3>2. QED BY <3>1
    <2>7. CASE present = {}
        <3>1. \A f \in Belongs(n, m) : values[f] = Absent
            BY <2>3, <2>7
        <3>2. QED BY <3>1 DEF OnlyOf
    <2>8. CASE present # {}
        <3>1. present = {e}
            BY <2>6, <2>8
        <3> HIDE DEF present
        <3>2. c = e
            BY <2>2, <3>1
        <3>3. QED BY <2>1, <3>2
    <2>9. QED BY <2>7, <2>8
<1>5. ASSUME OneOf(values, n, m), m \notin Unwritten(n)
      PROVE  c \in Options(n, m) /\ OnlyOf(values, n, m, c)
    <2>1. m \in DOMAIN values
        BY <1>5, WrittenChoice
    <2>2. QED BY <1>2, <1>5, <2>1 DEF OneOf
<1>6. QED BY <1>3, <1>4, <1>5 DEF c

LEMMA MountKeeps ==
    ASSUME form \in DOMAIN Forms, NEW n \in Accordions, NEW m \in ChoicesIn(n),
           NEW a \in Around(n), NEW values, Written(a) \subseteq DOMAIN values
    PROVE  /\ \A c : OnlyOf(values, n, m, c) => OnlyOf(Mounted(a, values), n, m, c)
           /\ OneOf(values, n, m) => OneOf(Mounted(a, values), n, m)
<1>1. a \in Accordions /\ a # n
    BY TreeFacts, BranchFacts
<1>2. DOMAIN Mounted(a, values) = Accordion(a).holds
    BY DEF Mounted
<1>3. \A f \in Belongs(n, m) : Mounted(a, values)[f] = values[f] /\ f \in DOMAIN values
    <2>1. ASSUME NEW f \in Belongs(n, m)
          PROVE  f \in Written(a) /\ f \notin Accordion(a).blanks
        BY DecidedFacts
    <2>2. QED BY <1>1, <2>1 DEF Mounted, Written
<1>4. m \notin Accordion(a).holds
    BY <1>1, WrittenChoice
<1>5. \A c : OnlyOf(values, n, m, c) => OnlyOf(Mounted(a, values), n, m, c)
    BY <1>3 DEF OnlyOf
<1>6. QED BY <1>2, <1>4, <1>5 DEF OneOf

(* What is sent along n's branch replaces all the fields n decides on, what is  *)
(* sent along another one none.                                                 *)
LEMMA MergeKeeps ==
    ASSUME form \in DOMAIN Forms, NEW n \in Accordions, NEW m \in ChoicesIn(n),
           NEW d \in Accordions, NEW old, NEW new, NEW brought,
           DOMAIN brought = Written(d), DOMAIN new = DOMAIN old,
           m \in DOMAIN old => m \in Written(n),
           \A f \in DOMAIN new : new[f] = IF f \in DOMAIN brought THEN brought[f] ELSE old[f]
    PROVE  /\ d \in Branch(n) =>
                /\ \A c : OnlyOf(brought, n, m, c) => OnlyOf(new, n, m, c)
                /\ OneOf(brought, n, m) => OneOf(new, n, m)
           /\ ~ OnBranch(n, d) =>
                /\ \A c : OnlyOf(old, n, m, c) => OnlyOf(new, n, m, c)
                /\ OneOf(old, n, m) => OneOf(new, n, m)
<1>1. CASE d \in Branch(n)
    <2>1. \A f \in Belongs(n, m) : f \in Written(d)
        BY <1>1, DecidedFacts DEF Branch
    <2>2. \A c : OnlyOf(brought, n, m, c) => OnlyOf(new, n, m, c)
        BY <2>1 DEF OnlyOf
    <2>3. m \in DOMAIN new => d = n /\ m \in DOMAIN brought
        BY <1>1, WrittenChoice DEF Branch
    <2>4. OneOf(brought, n, m) => OneOf(new, n, m)
        BY <2>2, <2>3 DEF OneOf
    <2>5. ~ OnBranch(n, d) => FALSE
        BY <1>1 DEF OnBranch
    <2>6. QED BY <2>2, <2>4, <2>5
<1>2. CASE d \notin Branch(n)
    <2>1. ASSUME ~ OnBranch(n, d), NEW f \in Belongs(n, m) PROVE f \notin DOMAIN brought
        <3>1. f \notin Accordion(d).holds
            BY <2>1, DecidedFacts DEF OnBranch, Branch
        <3>2. QED BY <3>1, TreeFacts
    <2>2. m \notin DOMAIN brought
        BY <1>2, WrittenChoice DEF Branch
    <2>3. \A c : ~ OnBranch(n, d) /\ OnlyOf(old, n, m, c) => OnlyOf(new, n, m, c)
        BY <2>1 DEF OnlyOf
    <2>4. QED BY <1>2, <2>2, <2>3 DEF OneOf
<1>3. QED BY <1>1, <1>2

(* Choices in the accordion of another choice.                                  *)
LEMMA NestedFacts ==
    ASSUME form \in DOMAIN Forms, NEW n \in Accordions, NEW d \in Around(n),
           ChoicesIn(n) # {}, ChoicesIn(d) # {}
    PROVE  /\ d = Parent(n) /\ Parent(n) # "yaml"
           /\ Accordion(n).late = {}
           /\ \A f \in Written(n) : \E m \in Accordion(d).late : f \in Belongs(d, m)
<1>1. NestedInLateChoices(Forms[form])
    BY ChoicesAssumption
<1>2. d \in Accordions /\ Parent(n) # "yaml"
    BY TreeFacts, BranchFacts
<1>3. LiesIn(Forms[form], n, d)
    BY DEF LiesIn, Around, Accordion
<1>4. /\ d = Accordion(n).in[Len(Accordion(n).in)] /\ Accordion(n).late = {}
      /\ Written(n) \subseteq UNION {Decides(Accordion(d), m) : m \in Accordion(d).late}
    BY <1>1, <1>2, <1>3 DEF NestedInLateChoices, Accordions, Accordion, ChoicesIn, Written, Unwritten
<1>5. QED BY <1>2, <1>4 DEF Parent, Belongs

-----------------------------------------------------------------------------
(* The steps and the choices *)

\* What a change of the field f of n makes of n's copy, what it sends, and the
\* copies before any accordion comes into sight.
Changed(n, f, v, typed, sent, views) ==
  /\ DOMAIN typed = Accordion(n).holds /\ DOMAIN sent = Accordion(n).holds
  /\ \A g \in Accordion(n).holds :
       typed[g] = IF g = f \/ g \in Follows(n, f) THEN v
                  ELSE IF g \in Rederived(n, f) THEN ChoiceFor(n, g, view[n])
                  ELSE view[n][g]
  /\ sent = IF f \in Accordion(n).late THEN view[n] ELSE typed
  /\ ViewFits(views)
  /\ \A g \in Accordion(n).holds :
       views[n][g] = IF g \in Erased(n, sent) THEN Absent ELSE typed[g]
  /\ \A d \in Accordions : d # n => views[d] = view[d]
  /\ view' = Remounted(n, views)
  /\ update' = SentBy(n, f, sent)
  /\ UNCHANGED <<form, latestYaml, resource>>

LEMMA ChangeFacts ==
    ASSUME Inv, MayChange, NEW n \in Accordions, NEW f, NEW v, Change(n, f, v)
    PROVE  \E typed, sent, views : Changed(n, f, v, typed, sent, views)
<1> DEFINE typed == [g \in Accordion(n).holds |->
                       IF g = f \/ g \in Follows(n, f) THEN v
                       ELSE IF g \in Rederived(n, f) THEN ChoiceFor(n, g, view[n])
                       ELSE view[n][g]]
           sent == IF f \in Accordion(n).late THEN view[n] ELSE typed
           kept == [g \in Accordion(n).holds |-> IF g \in Erased(n, sent) THEN Absent ELSE typed[g]]
           views == [view EXCEPT ![n] = kept]
<1>1. /\ view' = Remounted(n, views) /\ update' = SentBy(n, f, sent)
      /\ UNCHANGED <<form, latestYaml, resource>>
    BY DEF Change
<1>2. ViewFits(view)
    BY DEF Inv
<1>3. ViewFits(views) /\ views[n] = kept /\ \A d \in Accordions : d # n => views[d] = view[d]
    BY <1>2 DEF ViewFits
<1>4. /\ DOMAIN typed = Accordion(n).holds /\ DOMAIN sent = Accordion(n).holds
      /\ \A g \in Accordion(n).holds :
           typed[g] = IF g = f \/ g \in Follows(n, f) THEN v
                      ELSE IF g \in Rederived(n, f) THEN ChoiceFor(n, g, view[n])
                      ELSE view[n][g]
      /\ sent = IF f \in Accordion(n).late THEN view[n] ELSE typed
    BY <1>2 DEF ViewFits
<1>5. \A g \in Accordion(n).holds : kept[g] = IF g \in Erased(n, sent) THEN Absent ELSE typed[g]
    BY <1>4
<1> HIDE DEF typed, sent, kept, views
<1>6. Changed(n, f, v, typed, sent, views)
    BY <1>1, <1>3, <1>4, <1>5 DEF Changed
<1>7. QED BY <1>6

(* Nothing is on its way before a change, and all that is around agrees.        *)
LEMMA ChangeChoices ==
    ASSUME Inv, CInv, MayChange, NEW n \in Accordions,
           NEW f \in Accordion(n).edits \cup ChoicesIn(n),
           NEW v, f \in ChoicesIn(n) => v \in Options(n, f), Change(n, f, v)
    PROVE  ChoiceInv(view', update', latestYaml', resource')
<1>1. PICK typed, sent, views : Changed(n, f, v, typed, sent, views)
    BY ChangeFacts
<1> DEFINE u == SentBy(n, f, sent)
<1>2. /\ form \in DOMAIN Forms /\ update = NoUpdate /\ ViewFits(view)
      /\ DOMAIN latestYaml = Fields
    BY DEF Inv, MayChange, Idle
<1>3. /\ UpdateFits(u) /\ u # NoUpdate /\ u.at = Parent(n) /\ u.by = n /\ u.field = f
      /\ u.values = Sent(n, sent) /\ DOMAIN u.values = Written(n)
    BY <1>2, SentFacts
<1>4. /\ update' = u /\ latestYaml' = latestYaml /\ resource' = resource
      /\ DOMAIN typed = Accordion(n).holds /\ DOMAIN sent = Accordion(n).holds
      /\ sent = IF f \in Accordion(n).late THEN view[n] ELSE typed
      /\ DOMAIN views[n] = Accordion(n).holds
    BY <1>1 DEF Changed, ViewFits
<1> HIDE DEF u
<1>5. \A g \in Accordion(n).holds :
        /\ typed[g] = IF g = f \/ g \in Follows(n, f) THEN v
                      ELSE IF g \in Rederived(n, f) THEN ChoiceFor(n, g, view[n])
                      ELSE view[n][g]
        /\ views[n][g] = IF g \in Erased(n, sent) THEN Absent ELSE typed[g]
    BY <1>1 DEF Changed
<1>6. \A d \in Accordions :
        /\ d # n => views[d] = view[d]
        /\ view'[d] = IF n \in Around(d) /\ Displayed(d, views) /\ ~ Displayed(d, view)
                      THEN Mounted(d, views[n]) ELSE views[d]
        /\ n \notin Around(d) => view'[d] = views[d]
    BY <1>1 DEF Changed, Remounted
<1>7. view'[n] = views[n]
    BY <1>2, <1>6, BranchFacts
<1>8. \A d \in Accordions : n \in Around(d) => Written(d) \subseteq DOMAIN views[n]
    BY <1>2, <1>4, TreeFacts
<1>9. \A g \in ChoicesIn(n) :
        /\ g \in Accordion(n).holds /\ views[n][g] = typed[g] /\ typed[g] \in Options(n, g)
        /\ sent[g] \in Options(n, g)
        /\ g \notin Accordion(n).late => sent[g] = typed[g]
    <2> SUFFICES ASSUME NEW g \in ChoicesIn(n)
                 PROVE  /\ g \in Accordion(n).holds /\ views[n][g] = typed[g]
                        /\ typed[g] \in Options(n, g) /\ sent[g] \in Options(n, g)
                        /\ g \notin Accordion(n).late => sent[g] = typed[g]
        OBVIOUS
    <2>1. /\ g \in Accordion(n).holds /\ g \notin Erased(n, sent) /\ g \notin Follows(n, f)
          /\ f \in Accordion(n).late => Rederived(n, f) = {}
          /\ g \in Rederived(n, f) => ChoiceFor(n, g, view[n]) \in Options(n, g)
        <3>1. Rederived(n, f) \subseteq Unwritten(n)
            BY <1>2, ChoiceFacts
        <3>2. QED BY <1>2, <3>1, ChoiceFacts DEF Options
    <2>2. view[n][g] \in Options(n, g)
        BY DEF CInv, ChoiceInv, ChoicesMade
    <2>3. typed[g] = IF g = f THEN v ELSE IF g \in Rederived(n, f) THEN ChoiceFor(n, g, view[n])
                     ELSE view[n][g]
        BY <1>5, <2>1
    <2>4. views[n][g] = typed[g]
        BY <1>5, <2>1
    <2>5. typed[g] \in Options(n, g)
        BY <2>1, <2>2, <2>3
    <2>6. sent[g] \in Options(n, g)
        BY <1>4, <2>2, <2>5
    <2>7. g \notin Accordion(n).late => sent[g] = typed[g]
        BY <1>4, <2>1, <2>3
    <2>8. QED BY <2>1, <2>4, <2>5, <2>6, <2>7
<1>10. Travels(u)
    BY <1>3 DEF Travels, Branch
<1>11. LateSent(view', u)
    <2> SUFFICES ASSUME NEW d \in Branch(n), LateChoices(d) # {}, f \notin LateChoices(d),
                        u.at = "yaml" \/ Depth(d) > Depth(u.at), NEW g \in Written(d)
                 PROVE  g \in DOMAIN u.values /\ u.values[g] = Sent(d, view'[d])[g]
        BY <1>3 DEF LateSent
    <2>1. d = n
        <3>1. CASE Parent(n) = "yaml"
            BY <1>2, <3>1, BranchFacts DEF Branch
        <3>2. CASE Parent(n) # "yaml"
            <4>1. Depth(d) > Depth(Parent(n)) /\ Depth(n) = Depth(Parent(n)) + 1
                BY <1>2, <1>3, <3>2, TreeFacts
            <4>2. d \in Accordions /\ Depth(d) \in Nat /\ Depth(n) \in Nat /\ Depth(Parent(n)) \in Nat
                BY <1>2, <3>2, TreeFacts DEF Branch
            <4>3. d \in Around(n) => Depth(d) < Depth(n)
                BY <1>2, TreeFacts
            <4>4. QED BY <4>1, <4>2, <4>3 DEF Branch
        <3>3. QED BY <3>1, <3>2
    <2>2. f \notin Accordion(n).late
        <3>1. Accordion(n).late \subseteq ChoicesIn(n)
            BY <1>2, ChoiceFacts
        <3>2. QED BY <2>1, <3>1 DEF LateChoices
    <2>3. sent = typed
        BY <1>4, <2>2
    <2>4. \A k \in ChoicesIn(n) : views[n][k] = sent[k]
        BY <1>9, <2>3
    <2>5. Unused(n, views[n], g) <=> Unused(n, sent, g)
        BY <2>4 DEF Unused
    <2>6. g \in Accordion(n).holds /\ g \in Written(n)
        BY <1>2, <2>1, TreeFacts
    <2>7. views[n][g] = IF g \in Erased(n, sent) THEN Absent ELSE sent[g]
        BY <1>5, <2>3, <2>6
    <2>8. g \in Erased(n, sent) => Unused(n, sent, g)
        BY <1>2, ChoiceFacts
    <2>9. Sent(n, views[n])[g] = Sent(n, sent)[g]
        BY <2>5, <2>6, <2>7, <2>8 DEF Sent
    <2>10. QED BY <1>3, <1>7, <2>1, <2>6, <2>9
<1>12. ASSUME NEW d \in Accordions, NEW m \in ChoicesIn(d), n \in Around(d)
       PROVE  /\ \A g \in Belongs(d, m) :
                   /\ g \in Written(n) /\ typed[g] = view[n][g] /\ sent[g] = view[n][g]
                   /\ views[n][g] = IF g \in Erased(n, sent) THEN Absent ELSE view[n][g]
              /\ \A c : OnlyOf(view[n], d, m, c) =>
                   OnlyOf(views[n], d, m, c) /\ OnlyOf(sent, d, m, c)
              /\ OneOf(views[n], d, m) /\ OneOf(sent, d, m)
    <2>1. ASSUME NEW g \in Belongs(d, m)
          PROVE  /\ g \in Written(n) /\ g \in Accordion(n).holds
                 /\ typed[g] = view[n][g] /\ sent[g] = view[n][g]
                 /\ views[n][g] = IF g \in Erased(n, sent) THEN Absent ELSE view[n][g]
        <3>1. /\ g \in Written(n) /\ g # f /\ g \notin Follows(n, f) /\ g \notin Rederived(n, f)
            BY <1>2, <1>12, DecidedFacts
        <3>2. g \in Accordion(n).holds
            BY <1>2, <3>1, TreeFacts
        <3>3. typed[g] = view[n][g]
            BY <1>5, <3>1, <3>2
        <3>4. QED BY <1>4, <1>5, <3>1, <3>2, <3>3
    <2>2. ASSUME NEW c, OnlyOf(view[n], d, m, c)
          PROVE  OnlyOf(views[n], d, m, c) /\ OnlyOf(sent, d, m, c)
        <3>1. DOMAIN view[n] = Accordion(n).holds
            BY <1>2 DEF ViewFits
        <3>2. QED BY <2>1, <2>2, <3>1 DEF OnlyOf
    <2>3. OneOf(view[n], d, m)
        BY <1>12 DEF CInv, ChoiceInv, OneSource
    <2>4. m \notin Accordion(n).holds
        BY <1>2, <1>12, WrittenChoice, BranchFacts
    <2>5. OneOf(views[n], d, m) /\ OneOf(sent, d, m)
        BY <1>4, <2>2, <2>3, <2>4 DEF OneOf
    <2>6. QED BY <2>1, <2>2, <2>5
<1>13. ASSUME NEW d \in Around(n) PROVE u.at # "yaml" /\ Within(u, d)
    <2>1. Parent(n) # "yaml" /\ d \in Branch(Parent(n))
        BY <1>2, BranchFacts DEF Branch
    <2>2. QED BY <1>3, <2>1 DEF Within
<1>14. ASSUME NEW d \in Accordions, NEW p \in Around(d), p # n
       PROVE  view'[p] = view[p] \/ (n \in Around(p) /\ n \in Around(d) /\ view'[p] = Mounted(p, views[n]))
    <2>1. p \in Accordions /\ Around(p) \subseteq Around(d)
        BY <1>2, TreeFacts, BranchFacts
    <2>2. QED BY <1>6, <1>14, <2>1
<1>15. OneSource(view', u, latestYaml')
    <2> SUFFICES ASSUME NEW d \in Accordions, NEW m \in ChoicesIn(d)
                 PROVE  /\ OneOf(latestYaml', d, m)
                        /\ \A p \in Around(d) : OneOf(view'[p], d, m)
                        /\ ~ Within(u, d) => OneOf(u.values, d, m)
        BY DEF OneSource
    <2>1. OneOf(latestYaml, d, m) /\ \A p \in Around(d) : OneOf(view[p], d, m)
        BY DEF CInv, ChoiceInv, OneSource
    <2>2. ASSUME NEW p \in Around(d) PROVE OneOf(view'[p], d, m)
        <3>1. CASE p = n
            BY <1>7, <1>12, <3>1
        <3>2. CASE p # n /\ view'[p] = view[p]
            BY <2>1, <3>2
        <3>3. CASE n \in Around(p) /\ n \in Around(d) /\ view'[p] = Mounted(p, views[n])
            <4>1. Written(p) \subseteq DOMAIN views[n]
                BY <1>2, <1>8, <3>3, TreeFacts
            <4>2. OneOf(views[n], d, m)
                BY <1>12, <3>3
            <4>3. OneOf(Mounted(p, views[n]), d, m)
                BY <1>2, <4>1, <4>2, MountKeeps
            <4>4. QED BY <3>3, <4>3
        <3>4. QED BY <1>14, <3>1, <3>2, <3>3
    <2>3. ASSUME ~ Within(u, d) PROVE OneOf(u.values, d, m)
        <3>1. d \notin Around(n)
            BY <1>13, <2>3
        <3>2. CASE d = n
            BY <1>2, <1>3, <1>4, <1>9, <3>2, SendShows
        <3>3. CASE n \in Around(d)
            BY <1>2, <1>3, <1>4, <1>12, <3>3, SendShows
        <3>4. CASE ~ OnBranch(d, n)
            BY <1>2, <1>3, <1>4, <3>4, SendShows
        <3>5. QED BY <3>1, <3>2, <3>3, <3>4 DEF OnBranch, Branch
    <2>4. QED BY <1>4, <2>1, <2>2, <2>3
<1>16. ASSUME NEW d \in Accordions, NEW m \in ChoicesIn(d), n \in Around(d),
              view'[d] # views[d]
       PROVE  n = Parent(d) /\ n # "yaml" /\ view'[d] = Mounted(d, views[n]) /\ m \in Unwritten(d)
    <2>1. Displayed(d, views) /\ ~ Displayed(d, view) /\ view'[d] = Mounted(d, views[n])
        BY <1>6, <1>16
    <2>2. ChoicesIn(n) # {}
        <3>1. ASSUME ChoicesIn(n) = {}
              PROVE  \A a \in Around(d) : \A g : Unused(a, views[a], g) <=> Unused(a, view[a], g)
            <4>1. \A a \in Around(d) : a \in Accordions
                BY <1>2, TreeFacts
            <4>2. \A g : ~ Unused(n, views[n], g) /\ ~ Unused(n, view[n], g)
                BY <3>1 DEF Unused
            <4>3. QED BY <1>6, <4>1, <4>2
        <3>2. QED BY <2>1, <3>1 DEF Displayed
    <2>3. n = Parent(d) /\ n # "yaml"
        BY <1>2, <1>16, <2>2, NestedFacts
    <2>4. m \in Unwritten(d)
        BY <1>2, <1>16, WrittenChoice
    <2>5. QED BY <2>1, <2>3, <2>4
<1>17. ASSUME NEW d \in Accordions, NEW m \in ChoicesIn(d) \ Accordion(d).late, n \in Around(d)
       PROVE  LET c == view'[d][m]
              IN  OnlyOf(views[n], d, m, c) /\ OnlyOf(u.values, d, m, c)
    <2> DEFINE c == view'[d][m]
    <2>1. views[d] = view[d]
        BY <1>2, <1>6, <1>17, BranchFacts
    <2>2. CASE view'[d] = views[d]
        <3>1. OnlyOf(view[n], d, m, view[d][m])
            BY <1>2, <1>17 DEF CInv, ChoiceInv, ShowsChoice
        <3>2. OnlyOf(views[n], d, m, c) /\ OnlyOf(sent, d, m, c)
            BY <1>12, <1>17, <2>1, <2>2, <3>1
        <3>3. QED BY <1>2, <1>3, <1>4, <1>17, <3>2, SendShows
    <2>3. CASE view'[d] # views[d]
        <3>1. view'[d] = Mounted(d, views[n])
            BY <1>16, <1>17, <2>3
        <3>2. OnlyOf(views[n], d, m, c)
            BY <1>2, <1>8, <1>12, <1>17, <3>1, MountShows
        <3> HIDE DEF c
        <3>3. \A g \in Belongs(d, m) \ Accordion(d).choice[m][c] :
                /\ g \in Written(n) /\ sent[g] = view[n][g]
                /\ views[n][g] = Absent
                /\ views[n][g] = IF g \in Erased(n, sent) THEN Absent ELSE view[n][g]
            <4>1. \A g \in Written(n) : g \in DOMAIN views[n]
                BY <1>2, <1>4, TreeFacts
            <4>2. QED BY <1>12, <1>17, <3>2, <4>1 DEF OnlyOf
        <3>4. \A g \in Erased(n, sent) : Unused(n, sent, g)
            BY <1>2, ChoiceFacts
        <3>5. \A g \in Belongs(d, m) \ Accordion(d).choice[m][c] : Sent(n, sent)[g] = Absent
            BY <3>3, <3>4 DEF Sent
        <3>6. OnlyOf(u.values, d, m, c)
            BY <1>3, <3>5 DEF OnlyOf
        <3>7. QED BY <3>2, <3>6 DEF c
    <2>4. QED BY <2>2, <2>3
<1>18. ASSUME NEW p \in Around(n) PROVE u.at # "yaml" /\ Depth(p) <= Depth(u.at)
    <2>1. u.at # "yaml" /\ p \in Branch(u.at) /\ u.at \in Accordions
        BY <1>3, <1>13 DEF Within, UpdateFits
    <2>2. Depth(u.at) \in Nat /\ \A a \in Around(u.at) : a \in Accordions /\ Depth(a) < Depth(u.at)
        BY <1>2, <2>1, TreeFacts
    <2>3. Depth(p) \in Nat
        BY <1>2, TreeFacts
    <2>4. QED BY <2>1, <2>2, <2>3 DEF Branch
<1>19. ASSUME NEW d \in Accordions, NEW m \in ChoicesIn(d) \ Accordion(d).late
       PROVE  /\ ~ OnBranch(d, n) => OnlyOf(latestYaml', d, m, view'[d][m])
              /\ \A p \in Around(d) :
                   ~ (OnBranch(d, n) /\ u.at # "yaml" /\ Depth(p) <= Depth(u.at))
                     => OnlyOf(view'[p], d, m, view'[d][m])
              /\ ~ Within(u, d) => OnlyOf(u.values, d, m, view'[d][m])
    <2>1. /\ OnlyOf(latestYaml, d, m, view[d][m])
          /\ \A p \in Around(d) : OnlyOf(view[p], d, m, view[d][m])
        BY <1>2, <1>19 DEF CInv, ChoiceInv, ShowsChoice
    <2>2. CASE d = n
        <3>1. view'[d][m] = sent[m]
            BY <1>7, <1>9, <1>19, <2>2
        <3>2. OnlyOf(u.values, d, m, view'[d][m])
            BY <1>2, <1>3, <1>4, <1>19, <2>2, <3>1, SendShows
        <3>3. QED BY <1>18, <2>2, <3>2 DEF OnBranch, Branch
    <2>3. CASE d \in Around(n)
        <3>1. Around(d) \subseteq Around(n)
            BY <1>2, <2>3, BranchFacts
        <3>2. QED BY <1>13, <1>18, <2>3, <3>1 DEF OnBranch, Branch
    <2>4. CASE n \in Around(d)
        <3>1. OnlyOf(views[n], d, m, view'[d][m]) /\ OnlyOf(u.values, d, m, view'[d][m])
            BY <1>17, <1>19, <2>4
        <3>2. ASSUME NEW p \in Around(d), p \notin Around(n) PROVE OnlyOf(view'[p], d, m, view'[d][m])
            <4>1. CASE p = n
                BY <1>7, <3>1, <4>1
            <4>2. CASE n \in Around(p) /\ view'[p] = Mounted(p, views[n])
                <5>1. Written(p) \subseteq DOMAIN views[n]
                    BY <1>2, <1>8, <4>2, TreeFacts
                <5>2. QED BY <1>2, <1>19, <3>1, <4>2, <5>1, MountKeeps
            <4>3. CASE p # n /\ view'[p] = view[p]
                <5>1. p \notin Branch(n)
                    BY <3>2, <4>3 DEF Branch
                <5>2. view'[d] = views[d]
                    <6>1. Parent(d) = n /\ n # "yaml" => Around(d) = Branch(n)
                        BY <1>2, BranchFacts DEF Branch
                    <6>2. QED BY <1>16, <1>19, <2>4, <3>2, <5>1, <6>1
                <5>3. views[d] = view[d]
                    BY <1>2, <1>6, <2>4, BranchFacts
                <5>4. QED BY <2>1, <4>3, <5>2, <5>3
            <4>4. QED BY <1>14, <4>1, <4>2, <4>3
        <3>3. QED BY <1>18, <2>4, <3>1, <3>2 DEF OnBranch, Branch
    <2>5. CASE ~ OnBranch(d, n)
        <3>1. d # n /\ n \notin Around(d)
            BY <2>5 DEF OnBranch, Branch
        <3>2. view'[d] = view[d]
            BY <1>6, <3>1
        <3>3. \A p \in Around(d) : view'[p] = view[p]
            BY <1>14, <3>1
        <3>4. OnlyOf(u.values, d, m, view'[d][m])
            BY <1>2, <1>3, <1>4, <1>19, <2>5, SendShows
        <3>5. QED BY <1>4, <2>1, <3>2, <3>3, <3>4
    <2>6. QED BY <2>2, <2>3, <2>4, <2>5 DEF OnBranch, Branch
<1>20. ShowsChoice(view', u, latestYaml')
    BY <1>3, <1>19 DEF ShowsChoice
<1>21. ChoicesMade(view')
    <2> SUFFICES ASSUME NEW d \in Accordions, NEW m \in ChoicesIn(d)
                 PROVE  view'[d][m] \in Options(d, m)
        BY DEF ChoicesMade
    <2>1. CASE d = n
        BY <1>7, <1>9, <2>1
    <2>2. CASE d # n /\ view'[d] = view[d]
        BY <2>2 DEF CInv, ChoiceInv, ChoicesMade
    <2>3. CASE d # n /\ view'[d] # view[d]
        <3>1. n \in Around(d) /\ view'[d] # views[d]
            BY <1>6, <2>3
        <3>2. view'[d] = Mounted(d, views[n]) /\ m \in Unwritten(d)
            BY <1>16, <3>1
        <3>3. Written(d) \subseteq DOMAIN views[n]
            BY <1>8, <3>1
        <3>4. QED BY <1>2, <3>2, <3>3, MountShows
    <2>4. QED BY <2>1, <2>2, <2>3
<1>22. \A d \in Accordions : \A m \in ChoicesIn(d) : OneOf(resource', d, m)
    BY <1>4 DEF CInv, ChoiceInv
<1>23. QED BY <1>4, <1>10, <1>11, <1>15, <1>20, <1>21, <1>22 DEF ChoiceInv

(* Two accordions of one branch: one is the other, or lies in it.               *)
LEMMA OneBranch ==
    ASSUME form \in DOMAIN Forms, NEW n \in Accordions, NEW a \in Branch(n), NEW b \in Branch(n)
    PROVE  /\ a \in Accordions /\ b \in Accordions
           /\ a \in Branch(b) \/ b \in Around(a)
           /\ OnBranch(a, b)
           /\ Branch(a) \subseteq Branch(n)
<1>1. a \in Accordions /\ b \in Accordions
    BY TreeFacts DEF Branch
<1>2. Depth(a) \in Nat /\ Depth(b) \in Nat
    BY <1>1, TreeFacts
<1>3. a = b \/ a \in Around(b) \/ b \in Around(a)
    <2>1. /\ Depth(a) = Depth(b) => a = b
          /\ Depth(a) < Depth(b) => a \in Around(b)
          /\ Depth(b) < Depth(a) => b \in Around(a)
        BY BranchDepths
    <2>2. QED BY <1>2, <2>1
<1>4. Branch(a) \subseteq Branch(n)
    BY BranchFacts DEF Branch
<1>5. QED BY <1>1, <1>3, <1>4 DEF OnBranch, Branch

\* An update that came through another branch began in one.
LEMMA OffBranch ==
    ASSUME form \in DOMAIN Forms, NEW n \in Accordions, NEW b \in Accordions,
           NEW d \in Branch(b), ~ OnBranch(n, d)
    PROVE  ~ OnBranch(n, b)
<1>1. b \in Branch(n) => d \in Branch(n)
    BY OneBranch
<1>2. n \in Around(b) => OnBranch(n, d)
    BY OneBranch DEF Branch
<1>3. QED BY <1>1, <1>2 DEF OnBranch

\* What an accordion takes of an update, sends on and keeps.
HandedOn(a, taken, sent, kept) ==
  /\ a = update.at /\ a \in Accordions
  /\ DOMAIN taken = Accordion(a).holds /\ DOMAIN sent = Accordion(a).holds
  /\ DOMAIN kept = Accordion(a).holds
  /\ \A f \in Accordion(a).holds :
       /\ taken[f] = IF f \in DOMAIN update.values THEN update.values[f] ELSE view[a][f]
       /\ sent[f] = IF f \in Accordion(a).late THEN view[a][f] ELSE taken[f]
       /\ kept[f] = IF f \in Erased(a, sent) THEN Absent ELSE taken[f]
  /\ \A d \in Accordions : view'[d] = IF d = a THEN kept ELSE view[d]
  /\ update' # NoUpdate /\ update'.by = update.by /\ update'.field = update.field
  /\ update'.at = Parent(a) /\ update'.values = Sent(a, sent)
  /\ UNCHANGED <<form, latestYaml, resource>>

LEMMA OnUpdateFacts ==
    ASSUME Inv, OnUpdate
    PROVE  \E taken, sent, kept : HandedOn(update.at, taken, sent, kept)
<1> DEFINE a == update.at
           taken == [f \in Accordion(a).holds |->
                       IF f \in DOMAIN update.values THEN update.values[f] ELSE view[a][f]]
           sent == [f \in Accordion(a).holds |->
                      IF f \in Accordion(a).late THEN view[a][f] ELSE taken[f]]
           kept == [f \in Accordion(a).holds |-> IF f \in Erased(a, sent) THEN Absent ELSE taken[f]]
           u == [update EXCEPT !.at = Parent(a), !.values = Sent(a, sent)]
<1>1. /\ a \in Accordions /\ view' = [view EXCEPT ![a] = kept] /\ update' = u
      /\ UNCHANGED <<form, latestYaml, resource>>
    BY DEF OnUpdate
<1>2. form \in DOMAIN Forms /\ update # NoUpdate /\ UpdateFits(update) /\ ViewFits(view)
    <2>1. update # NoUpdate
        BY <1>1, TreeFacts DEF Inv, NoUpdate
    <2>2. QED BY <2>1 DEF Inv, Idle
<1>3. /\ u.by = update.by /\ u.field = update.field
      /\ u.at = Parent(a) /\ u.values = Sent(a, sent)
    BY <1>2 DEF UpdateFits
<1>4. \A d \in Accordions : view'[d] = IF d = a THEN kept ELSE view[d]
    BY <1>1, <1>2 DEF ViewFits
<1>5. u # NoUpdate
    <2> HIDE DEF u
    <2>1. u.at # "none"
        BY <1>1, <1>2, <1>3, TreeFacts
    <2>2. QED BY <2>1 DEF NoUpdate
<1>6. /\ DOMAIN taken = Accordion(a).holds /\ DOMAIN sent = Accordion(a).holds
      /\ DOMAIN kept = Accordion(a).holds
      /\ \A f \in Accordion(a).holds :
           /\ taken[f] = IF f \in DOMAIN update.values THEN update.values[f] ELSE view[a][f]
           /\ sent[f] = IF f \in Accordion(a).late THEN view[a][f] ELSE taken[f]
    OBVIOUS
<1>7. \A f \in Accordion(a).holds : kept[f] = IF f \in Erased(a, sent) THEN Absent ELSE taken[f]
    OBVIOUS
<1> HIDE DEF taken, sent, kept, u
<1>8. HandedOn(update.at, taken, sent, kept)
    BY <1>1, <1>3, <1>4, <1>5, <1>6, <1>7 DEF HandedOn
<1>9. QED BY <1>8

(* The accordion around takes the fields a choice decides on all, or none of    *)
(* them, and its own choices are those it made.                                 *)
LEMMA OnUpdateChoices ==
    ASSUME Inv, CInv, OnUpdate
    PROVE  ChoiceInv(view', update', latestYaml', resource')
<1> DEFINE a == update.at
           u == update'
<1>1. PICK taken, sent, kept : HandedOn(a, taken, sent, kept)
    BY OnUpdateFacts
<1>2. form \in DOMAIN Forms /\ a \in Accordions /\ update # NoUpdate /\ UpdateFits(update) /\ ViewFits(view)
    <2>1. form \in DOMAIN Forms /\ a \in Accordions
        BY <1>1 DEF Inv, HandedOn
    <2>2. update # NoUpdate
        BY <2>1, TreeFacts DEF NoUpdate
    <2>3. QED BY <2>1, <2>2 DEF Inv, Idle
<1>3. a # "yaml" /\ update.by \in Accordions
    BY <1>2, TreeFacts DEF UpdateFits
<1>4. PICK d \in Branch(update.by) : a = Parent(d) /\ DOMAIN update.values = Written(d)
    BY <1>2 DEF CInv, ChoiceInv, Travels
<1>5. /\ d \in Accordions /\ Around(d) = Branch(a) /\ d # a /\ a \in Around(update.by)
      /\ Written(d) \subseteq Accordion(a).holds
    <2>1. d \in Accordions
        BY <1>2, <1>3, <1>4, OneBranch DEF Branch
    <2>2. Around(d) = Branch(a) /\ d \notin Around(d)
        BY <1>2, <1>3, <1>4, <2>1, BranchFacts DEF Branch
    <2>3. Around(d) \subseteq Around(update.by)
        BY <1>2, <1>3, <1>4, BranchFacts DEF Branch
    <2>4. QED BY <1>2, <2>1, <2>2, <2>3, TreeFacts DEF Branch
<1>6. /\ u # NoUpdate /\ u.by = update.by /\ u.field = update.field /\ u.at = Parent(a)
      /\ u.values = Sent(a, sent) /\ DOMAIN u.values = Written(a)
      /\ latestYaml' = latestYaml /\ resource' = resource
      /\ \A n \in Accordions : view'[n] = IF n = a THEN kept ELSE view[n]
    BY <1>1 DEF HandedOn, Sent
<1>7. /\ DOMAIN taken = Accordion(a).holds /\ DOMAIN sent = Accordion(a).holds
      /\ DOMAIN kept = Accordion(a).holds
      /\ \A f \in Accordion(a).holds :
           /\ taken[f] = IF f \in DOMAIN update.values THEN update.values[f] ELSE view[a][f]
           /\ sent[f] = IF f \in Accordion(a).late THEN view[a][f] ELSE taken[f]
           /\ kept[f] = IF f \in Erased(a, sent) THEN Absent ELSE taken[f]
    BY <1>1 DEF HandedOn
<1> HIDE DEF a, u
<1>8. ASSUME NEW m \in ChoicesIn(a)
      PROVE  /\ taken[m] = view[a][m] /\ sent[m] = view[a][m] /\ kept[m] = view[a][m]
             /\ view[a][m] \in Options(a, m) /\ m \in Accordion(a).holds
    <2>1. m \notin Written(d)
        BY <1>2, <1>5, WrittenChoice
    <2>2. view[a][m] \in Options(a, m)
        BY <1>2 DEF CInv, ChoiceInv, ChoicesMade
    <2>3. m \in Accordion(a).holds /\ m \notin Erased(a, sent)
        BY <1>2, ChoiceFacts
    <2>4. QED BY <1>4, <1>7, <2>1, <2>2, <2>3
<1>9. \A f \in Accordion(a).holds : sent[f] = taken[f]
    BY <1>2, <1>7, <1>8, ChoiceFacts
<1>10. Travels(u)
    BY <1>5, <1>6 DEF Travels, Branch
<1>11. LateSent(view', u)
    <2> SUFFICES ASSUME NEW n \in Branch(update.by), LateChoices(n) # {},
                        update.field \notin LateChoices(n),
                        u.at = "yaml" \/ Depth(n) > Depth(u.at), NEW g \in Written(n)
                 PROVE  g \in DOMAIN u.values /\ u.values[g] = Sent(n, view'[n])[g]
        BY <1>6 DEF LateSent
    <2>1. n \in Accordions /\ Depth(n) \in Nat /\ Depth(a) \in Nat
        BY <1>2, <1>3, OneBranch, TreeFacts DEF Branch
    <2>2. Depth(n) >= Depth(a)
        <3>1. CASE Parent(a) = "yaml"
            BY <1>2, <2>1, <3>1, TreeFacts
        <3>2. CASE Parent(a) # "yaml"
            <4>1. /\ Depth(a) = Depth(Parent(a)) + 1 /\ Parent(a) \in Accordions
                  /\ Depth(Parent(a)) \in Nat
                BY <1>2, <3>2, TreeFacts
            <4>2. QED BY <1>6, <2>1, <3>2, <4>1
        <3>3. QED BY <3>1, <3>2
    <2>3. CASE n = a
        <3>1. Unused(a, kept, g) <=> Unused(a, sent, g)
            BY <1>8 DEF Unused
        <3>2. g \in Accordion(a).holds /\ g \in Written(a)
            BY <1>2, <2>3, TreeFacts
        <3>3. kept[g] = IF g \in Erased(a, sent) THEN Absent ELSE sent[g]
            BY <1>7, <1>9, <3>2
        <3>4. g \in Erased(a, sent) => Unused(a, sent, g)
            BY <1>2, ChoiceFacts
        <3>5. Sent(a, kept)[g] = Sent(a, sent)[g]
            BY <3>1, <3>2, <3>3, <3>4 DEF Sent
        <3>6. QED BY <1>2, <1>6, <2>3, <3>2, <3>5
    <2>4. CASE n # a
        <3>1. a \in Around(n)
            <4>1. a \in Branch(n) \/ n \in Around(a)
                BY <1>2, <1>3, <1>5, OneBranch DEF Branch
            <4>2. n \in Around(a) => Depth(n) < Depth(a)
                BY <1>2, TreeFacts
            <4>3. QED BY <2>1, <2>2, <2>4, <4>1, <4>2 DEF Branch
        <3>2. Depth(n) > Depth(a)
            BY <1>2, <2>1, <3>1, TreeFacts
        <3>3. g \in DOMAIN update.values /\ update.values[g] = Sent(n, view[n])[g]
            BY <1>2, <3>2 DEF CInv, ChoiceInv, LateSent, a
        <3>4. \A k \in ChoicesIn(a) : g # k /\ g \notin Belongs(a, k)
            <4>1. ChoicesIn(a) = {}
                <5>1. \E k \in ChoicesIn(n) : k \in Accordion(n).late
                    BY DEF LateChoices
                <5>2. QED BY <1>2, <2>1, <3>1, <5>1, NestedFacts
            <4>2. QED BY <4>1
        <3>5. g \in Accordion(a).holds /\ g \in Written(a)
            <4>1. g \in Accordion(a).holds
                BY <1>2, <2>1, <3>1, TreeFacts
            <4>2. g \notin Unwritten(a)
                BY <1>2, <3>4, ChoiceFacts
            <4>3. QED BY <4>1, <4>2 DEF Written
        <3>6. sent[g] = update.values[g]
            BY <1>7, <1>9, <3>3, <3>5
        <3>7. Sent(a, sent)[g] = sent[g]
            BY <3>4, <3>5 DEF Sent, Unused
        <3>8. view'[n] = view[n]
            BY <1>6, <2>1, <2>4
        <3>9. QED BY <1>6, <3>3, <3>5, <3>6, <3>7, <3>8
    <2>5. QED BY <2>3, <2>4
<1>12. ASSUME NEW n \in Accordions, a \in Around(n)
       PROVE  ~ Within(update, n) /\ (d \in Branch(n) \/ ~ OnBranch(n, d))
    <2>1. n \notin Branch(a)
        BY <1>2, <1>12, BranchFacts DEF Branch
    <2>2. QED BY <1>5, <2>1 DEF Within, OnBranch, Branch, a
<1>13. ASSUME NEW n \in Accordions, NEW m \in ChoicesIn(n), a \in Around(n)
       PROVE  /\ \A c : OnlyOf(taken, n, m, c) => OnlyOf(kept, n, m, c) /\ OnlyOf(sent, n, m, c)
              /\ OneOf(taken, n, m) => OneOf(kept, n, m) /\ OneOf(sent, n, m)
    <2>1. m \notin Accordion(a).holds
        BY <1>2, <1>13, WrittenChoice, BranchFacts
    <2>2. \A c : OnlyOf(taken, n, m, c) => OnlyOf(kept, n, m, c) /\ OnlyOf(sent, n, m, c)
        BY <1>7, <1>9 DEF OnlyOf
    <2>3. QED BY <1>7, <2>1, <2>2 DEF OneOf
<1>14. ASSUME NEW n \in Accordions, NEW m \in ChoicesIn(n), a \in Around(n)
       PROVE  /\ d \in Branch(n) =>
                   /\ \A c : OnlyOf(update.values, n, m, c) => OnlyOf(taken, n, m, c)
                   /\ OneOf(update.values, n, m) => OneOf(taken, n, m)
              /\ ~ OnBranch(n, d) =>
                   /\ \A c : OnlyOf(view[a], n, m, c) => OnlyOf(taken, n, m, c)
                   /\ OneOf(view[a], n, m) => OneOf(taken, n, m)
    <2>1. m \notin Accordion(a).holds
        BY <1>2, <1>14, WrittenChoice, BranchFacts
    <2>2. DOMAIN view[a] = Accordion(a).holds
        BY <1>2 DEF ViewFits
    <2>3. \A f \in DOMAIN taken : taken[f] = IF f \in DOMAIN update.values THEN update.values[f] ELSE view[a][f]
        BY <1>7
    <2>4. QED BY <1>2, <1>4, <1>5, <1>7, <1>14, <2>1, <2>2, <2>3, MergeKeeps
<1>15. \A n \in Around(a) : Within(u, n)
    <2>1. \A n \in Around(a) : Parent(a) # "yaml" /\ n \in Branch(Parent(a))
        BY <1>2, BranchFacts DEF Branch
    <2>2. QED BY <1>6, <2>1 DEF Within
<1>16. OneSource(view', u, latestYaml')
    <2> SUFFICES ASSUME NEW n \in Accordions, NEW m \in ChoicesIn(n)
                 PROVE  /\ OneOf(latestYaml', n, m)
                        /\ \A p \in Around(n) : OneOf(view'[p], n, m)
                        /\ ~ Within(u, n) => OneOf(u.values, n, m)
        BY DEF OneSource
    <2>1. /\ OneOf(latestYaml, n, m) /\ \A p \in Around(n) : OneOf(view[p], n, m)
          /\ ~ Within(update, n) => OneOf(update.values, n, m)
        BY <1>2 DEF CInv, ChoiceInv, OneSource
    <2>2. a \in Around(n) => OneOf(kept, n, m) /\ OneOf(sent, n, m)
        <3>1. a \in Around(n) => OneOf(taken, n, m)
            BY <1>12, <1>14, <2>1
        <3>2. QED BY <1>13, <3>1
    <2>3. ASSUME NEW p \in Around(n) PROVE OneOf(view'[p], n, m)
        <3>1. p \in Accordions
            BY <1>2, TreeFacts
        <3>2. QED BY <1>6, <2>1, <2>2, <3>1
    <2>4. ASSUME ~ Within(u, n) PROVE OneOf(u.values, n, m)
        <3>1. n \notin Around(a)
            BY <1>15, <2>4
        <3>2. n = a => sent[m] \in Options(n, m)
            BY <1>8
        <3>3. QED BY <1>2, <1>6, <1>7, <2>2, <3>1, <3>2, SendShows DEF OnBranch, Branch
    <2>5. QED BY <1>6, <2>1, <2>3, <2>4
<1>17. ASSUME NEW n \in Accordions, a \in Around(n), ~ OnBranch(n, d)
       PROVE  ~ OnBranch(n, update.by)
    BY <1>2, <1>3, <1>17, OffBranch
<1>18. ASSUME NEW n \in Accordions, NEW p \in Around(n), p # a, OnBranch(n, update.by),
              u.at = "yaml" \/ Depth(p) > Depth(u.at)
       PROVE  ~ (Depth(p) <= Depth(a))
    <2>1. p \in Accordions /\ Depth(p) \in Nat /\ Depth(a) \in Nat
        BY <1>2, TreeFacts
    <2>2. Depth(p) >= Depth(a)
        <3>1. CASE Parent(a) = "yaml"
            BY <1>2, <2>1, <3>1, TreeFacts
        <3>2. CASE Parent(a) # "yaml"
            <4>1. /\ Depth(a) = Depth(Parent(a)) + 1 /\ Parent(a) \in Accordions
                  /\ Depth(Parent(a)) \in Nat
                BY <1>2, <3>2, TreeFacts
            <4>2. QED BY <1>6, <1>18, <2>1, <3>2, <4>1
        <3>3. QED BY <3>1, <3>2
    <2>3. \E b \in Accordions : p \in Branch(b) /\ a \in Branch(b)
        <3>1. CASE update.by \in Branch(n)
            <4>1. a \in Branch(n)
                BY <1>2, <1>5, <3>1, OneBranch DEF Branch
            <4>2. QED BY <4>1 DEF Branch
        <3>2. CASE n \in Around(update.by)
            <4>1. p \in Branch(update.by)
                BY <1>2, <1>3, <3>2, OneBranch DEF Branch
            <4>2. QED BY <1>3, <1>5, <4>1 DEF Branch
        <3>3. QED BY <1>18, <3>1, <3>2 DEF OnBranch
    <2>4. Depth(p) # Depth(a)
        <3>1. PICK b \in Accordions : p \in Branch(b) /\ a \in Branch(b)
            BY <2>3
        <3>2. QED BY <1>2, <1>18, <3>1, BranchDepths
    <2>5. QED BY <2>1, <2>2, <2>4
<1>19. ASSUME NEW n \in Accordions, NEW m \in ChoicesIn(n) \ Accordion(n).late
       PROVE  /\ ~ OnBranch(n, update.by) => OnlyOf(latestYaml', n, m, view'[n][m])
              /\ \A p \in Around(n) :
                   ~ (OnBranch(n, update.by) /\ u.at # "yaml" /\ Depth(p) <= Depth(u.at))
                     => OnlyOf(view'[p], n, m, view'[n][m])
              /\ ~ Within(u, n) => OnlyOf(u.values, n, m, view'[n][m])
    <2> DEFINE c == view[n][m]
    <2>1. /\ ~ OnBranch(n, update.by) => OnlyOf(latestYaml, n, m, c)
          /\ \A p \in Around(n) :
               ~ (OnBranch(n, update.by) /\ a # "yaml" /\ Depth(p) <= Depth(a))
                 => OnlyOf(view[p], n, m, c)
          /\ ~ Within(update, n) => OnlyOf(update.values, n, m, c)
        BY <1>2, <1>19 DEF CInv, ChoiceInv, ShowsChoice, a
    <2>2. view'[n][m] = c
        BY <1>6, <1>8, <1>19
    <2> HIDE DEF c
    <2>3. a \in Around(n) => OnlyOf(kept, n, m, c) /\ OnlyOf(sent, n, m, c)
        <3>1. ASSUME a \in Around(n) PROVE OnlyOf(taken, n, m, c)
            <4>1. CASE d \in Branch(n)
                BY <1>12, <1>14, <1>19, <2>1, <3>1, <4>1
            <4>2. CASE ~ OnBranch(n, d)
                BY <1>14, <1>17, <1>19, <2>1, <3>1, <4>2
            <4>3. QED BY <1>12, <3>1, <4>1, <4>2
        <3>2. QED BY <1>13, <1>19, <3>1
    <2>4. ASSUME NEW p \in Around(n),
                 ~ (OnBranch(n, update.by) /\ u.at # "yaml" /\ Depth(p) <= Depth(u.at))
          PROVE  OnlyOf(view'[p], n, m, c)
        <3>1. p \in Accordions /\ Depth(p) \in Nat
            BY <1>2, TreeFacts
        <3>2. CASE p = a
            BY <1>6, <2>3, <3>1, <3>2
        <3>3. CASE p # a
            <4>1. view'[p] = view[p]
                BY <1>6, <3>1, <3>3
            <4>2. u.at # "yaml" => Depth(u.at) \in Nat
                BY <1>2, <1>6, TreeFacts
            <4>3. OnBranch(n, update.by) => ~ (Depth(p) <= Depth(a))
                <5>1. OnBranch(n, update.by) => u.at = "yaml" \/ Depth(p) > Depth(u.at)
                    BY <2>4, <3>1, <4>2
                <5>2. QED BY <1>18, <3>3, <5>1
            <4>4. QED BY <2>1, <4>1, <4>3
        <3>4. QED BY <3>2, <3>3
    <2>5. ASSUME ~ Within(u, n) PROVE OnlyOf(u.values, n, m, c)
        <3>1. n \notin Around(a)
            BY <1>15, <2>5
        <3>2. n = a => sent[m] = c
            BY <1>8, <1>19 DEF c
        <3>3. QED BY <1>2, <1>6, <1>7, <1>19, <2>3, <3>1, <3>2, SendShows DEF OnBranch, Branch
    <2>6. QED BY <1>6, <2>1, <2>2, <2>4, <2>5
<1>20. ShowsChoice(view', u, latestYaml')
    BY <1>6, <1>19 DEF ShowsChoice
<1>21. ChoicesMade(view')
    <2>1. \A n \in Accordions : \A m \in ChoicesIn(n) : view[n][m] \in Options(n, m)
        BY DEF CInv, ChoiceInv, ChoicesMade
    <2>2. QED BY <1>6, <1>8, <2>1 DEF ChoicesMade
<1>22. \A n \in Accordions : \A m \in ChoicesIn(n) : OneOf(resource', n, m)
    BY <1>6 DEF CInv, ChoiceInv
<1>23. ChoiceInv(view', u, latestYaml', resource')
    BY <1>10, <1>11, <1>16, <1>20, <1>21, <1>22 DEF ChoiceInv
<1>24. QED BY <1>23 DEF u

(* The editor writes all the fields a choice decides on, or none of them.       *)
LEMMA WriteYamlChoices ==
    ASSUME Inv, CInv, WriteYaml
    PROVE  /\ ChoiceInv(view', update', latestYaml', resource')
           /\ \A n \in Branch(update.by) :
                LateChoices(n) # {} /\ update.field \notin LateChoices(n)
                  => \A f \in Written(n) : latestYaml'[f] = Sent(n, view[n])[f]
<1>1. /\ update.at = "yaml" /\ update' = NoUpdate
      /\ latestYaml' = [f \in DOMAIN latestYaml |->
                          IF f \in DOMAIN update.values THEN update.values[f] ELSE latestYaml[f]]
      /\ view' = view /\ resource' = resource
    BY DEF WriteYaml
<1>2. /\ form \in DOMAIN Forms /\ update # NoUpdate /\ UpdateFits(update)
      /\ DOMAIN latestYaml = Fields /\ update.by \in Accordions
    <2>1. update # NoUpdate
        BY <1>1 DEF NoUpdate
    <2>2. QED BY <2>1 DEF Inv, Idle, UpdateFits
<1>3. PICK d \in Branch(update.by) : update.at = Parent(d) /\ DOMAIN update.values = Written(d)
    BY <1>2 DEF CInv, ChoiceInv, Travels
<1>4. d \in Accordions /\ Around(d) = {}
    <2>1. d \in Accordions
        BY <1>2, <1>3, OneBranch DEF Branch
    <2>2. QED BY <1>1, <1>2, <1>3, <2>1, BranchFacts
<1>5. /\ DOMAIN latestYaml' = DOMAIN latestYaml
      /\ \A f \in DOMAIN latestYaml' :
           latestYaml'[f] = IF f \in DOMAIN update.values THEN update.values[f] ELSE latestYaml[f]
    BY <1>1
<1>6. ASSUME NEW n \in Accordions, NEW m \in ChoicesIn(n)
      PROVE  /\ OneOf(latestYaml', n, m)
             /\ m \notin Accordion(n).late => OnlyOf(latestYaml', n, m, view[n][m])
    <2>1. m \in DOMAIN latestYaml => m \in Written(n)
        BY <1>2, WrittenChoice
    <2>2. ~ Within(update, n)
        BY <1>1 DEF Within
    <2>3. OneOf(latestYaml, n, m) /\ OneOf(update.values, n, m)
        BY <1>2, <2>2 DEF CInv, ChoiceInv, OneSource
    <2>4. m \notin Accordion(n).late =>
            /\ OnlyOf(update.values, n, m, view[n][m])
            /\ ~ OnBranch(n, update.by) => OnlyOf(latestYaml, n, m, view[n][m])
        BY <1>2, <2>2 DEF CInv, ChoiceInv, ShowsChoice
    <2>5. CASE d \in Branch(n)
        BY <1>2, <1>3, <1>4, <1>5, <2>1, <2>3, <2>4, <2>5, MergeKeeps
    <2>6. CASE d \notin Branch(n)
        <3>1. ~ OnBranch(n, d)
            BY <1>4, <2>6 DEF OnBranch
        <3>2. ~ OnBranch(n, update.by)
            BY <1>2, <1>3, <3>1, OffBranch
        <3>3. QED BY <1>2, <1>3, <1>4, <1>5, <2>1, <2>3, <2>4, <3>1, <3>2, MergeKeeps
    <2>7. QED BY <2>5, <2>6
<1>7. Travels(update') /\ LateSent(view', update') /\ ChoicesMade(view')
    BY <1>1 DEF Travels, LateSent, CInv, ChoiceInv
<1>8. OneSource(view', update', latestYaml')
    BY <1>1, <1>6 DEF OneSource, CInv, ChoiceInv
<1>9. ShowsChoice(view', update', latestYaml')
    <2> SUFFICES ASSUME NEW n \in Accordions, NEW m \in ChoicesIn(n) \ Accordion(n).late
                 PROVE  /\ OnlyOf(latestYaml', n, m, view[n][m])
                        /\ \A p \in Around(n) : OnlyOf(view[p], n, m, view[n][m])
        BY <1>1 DEF ShowsChoice
    <2>1. \A p \in Around(n) : OnlyOf(view[p], n, m, view[n][m])
        BY <1>1, <1>2 DEF ShowsChoice, CInv, ChoiceInv
    <2>2. QED BY <1>6, <2>1
<1>10. \A n \in Accordions : \A m \in ChoicesIn(n) : OneOf(resource', n, m)
    BY <1>1 DEF CInv, ChoiceInv
<1>11. ASSUME NEW n \in Branch(update.by), LateChoices(n) # {}, update.field \notin LateChoices(n),
              NEW f \in Written(n)
       PROVE  latestYaml'[f] = Sent(n, view[n])[f]
    <2>1. f \in DOMAIN update.values /\ update.values[f] = Sent(n, view[n])[f]
        BY <1>1, <1>2, <1>11 DEF CInv, ChoiceInv, LateSent
    <2>2. n \in Accordions
        BY <1>2, OneBranch DEF Branch
    <2>3. f \in DOMAIN latestYaml'
        BY <1>2, <1>5, <2>2, TreeFacts
    <2>4. QED BY <1>5, <2>1, <2>3
<1>12. QED BY <1>7, <1>8, <1>9, <1>10, <1>11 DEF ChoiceInv

(* Mounting a form makes the choices that the values show.                      *)
LEMMA MountChoices ==
    ASSUME form \in DOMAIN Forms, NEW yaml, NEW saved, DOMAIN yaml = Fields,
           \A n \in Accordions : \A m \in ChoicesIn(n) : OneOf(yaml, n, m) /\ OneOf(saved, n, m)
    PROVE  ChoiceInv(ViewOn(yaml), MountedSends(yaml), yaml, saved)
<1> DEFINE u == MountedSends(yaml)
           o == Outermost
           own == Mounted(Outermost, yaml)
           copies == ViewOn(yaml)
<1>1. o \in Accordions /\ Parent(o) = "yaml" /\ Around(o) = {} /\ Branch(o) = {o}
    <2>1. Outermost \in Accordions /\ Accordion(Outermost).in = <<>>
        BY TreeFacts
    <2>2. Parent(Outermost) = "yaml"
        BY <2>1 DEF Parent
    <2>3. QED BY <2>1, <2>2, BranchFacts DEF Branch
<1>2. DOMAIN own = Accordion(o).holds
    BY DEF Mounted
<1>3. \A n \in Accordions : copies[n] = Mounted(n, yaml)
    BY DEF ViewOn
<1> HIDE DEF own, copies
<1>4. /\ u # NoUpdate /\ u.by = o /\ u.at = "yaml" /\ u.values = Sent(o, own)
      /\ DOMAIN u.values = Written(o)
    BY <1>1, SentFacts DEF MountedSends, own
<1>5. own = copies[o]
    BY <1>1, <1>3 DEF own
<1> HIDE DEF u, o
<1>6. Travels(u)
    BY <1>1, <1>4 DEF Travels
<1>7. LateSent(copies, u)
    BY <1>1, <1>4, <1>5 DEF LateSent
<1>8. ASSUME NEW n \in Accordions, NEW m \in ChoicesIn(n)
      PROVE  LET c == copies[n][m]
             IN  /\ c \in Options(n, m) /\ OnlyOf(yaml, n, m, c)
                 /\ \A p \in Around(n) : OnlyOf(copies[p], n, m, c) /\ OneOf(copies[p], n, m)
                 /\ OnlyOf(u.values, n, m, c) /\ OneOf(u.values, n, m)
    <2> DEFINE c == copies[n][m]
    <2>1. c \in Options(n, m) /\ OnlyOf(yaml, n, m, c)
        BY <1>3, <1>8, TreeFacts, MountShows
    <2> HIDE DEF c
    <2>2. ASSUME NEW p \in Around(n) PROVE OnlyOf(copies[p], n, m, c) /\ OneOf(copies[p], n, m)
        <3>1. p \in Accordions /\ Written(p) \subseteq DOMAIN yaml
            BY TreeFacts
        <3>2. QED BY <1>3, <1>8, <2>1, <3>1, MountKeeps
    <2>3. OnlyOf(u.values, n, m, c) /\ OneOf(u.values, n, m)
        <3>1. CASE n = o
            BY <1>1, <1>2, <1>4, <1>5, <1>8, <2>1, <3>1, SendShows DEF c
        <3>2. CASE o \in Around(n)
            BY <1>1, <1>2, <1>4, <1>5, <1>8, <2>2, <3>2, SendShows
        <3>3. CASE ~ OnBranch(n, o)
            BY <1>1, <1>2, <1>4, <1>8, <3>3, SendShows
        <3>4. QED BY <1>1, <3>1, <3>2, <3>3 DEF OnBranch, Branch
    <2>4. QED BY <2>1, <2>2, <2>3 DEF c
<1>9. ChoicesMade(copies)
    BY <1>8 DEF ChoicesMade
<1>10. OneSource(copies, u, yaml)
    BY <1>8 DEF OneSource
<1>11. ShowsChoice(copies, u, yaml)
    BY <1>8 DEF ShowsChoice
<1>12. QED BY <1>6, <1>7, <1>9, <1>10, <1>11 DEF ChoiceInv, u, copies

(* A resource is read with one option of each choice.                           *)
LEMMA InitChoices == FormInit => CInv
<1> SUFFICES ASSUME FormInit PROVE CInv
    OBVIOUS
<1>1. /\ form \in DOMAIN Forms /\ resource \in Resources(form) /\ latestYaml = resource
      /\ view = ViewOn(resource) /\ update = MountedSends(resource)
    BY DEF FormInit
<1>2. \A n \in Accordions : \A m \in ChoicesIn(n) :
        /\ m \in ChoicesOf(form) /\ OptionsOf(form, m) = Options(n, m)
    <2> SUFFICES ASSUME NEW n \in Accordions, NEW m \in ChoicesIn(n)
                 PROVE  m \in ChoicesOf(form) /\ OptionsOf(form, m) = Options(n, m)
        OBVIOUS
    <2>1. \A d \in Accordions : m \in ChoicesIn(d) => d = n
        BY <1>1, ChoiceFacts
    <2>2. {d \in DOMAIN Forms[form] : m \in DOMAIN Forms[form][d].choice} = {n}
        BY <2>1 DEF Accordions, Accordion, ChoicesIn
    <2>3. OptionsOf(form, m) = UNION {DOMAIN Forms[form][d].choice[m] : d \in {n}}
        BY <2>2 DEF OptionsOf
    <2>4. OptionsOf(form, m) = Options(n, m)
        BY <2>3 DEF Options, Accordion
    <2>5. m \in ChoicesOf(form)
        BY DEF ChoicesOf, Accordions, Accordion, ChoicesIn
    <2>6. QED BY <2>4, <2>5
<1>3. \A m \in ChoicesOf(form) : OptionsOf(form, m) # {}
    <2> SUFFICES ASSUME NEW m \in ChoicesOf(form) PROVE OptionsOf(form, m) # {}
        OBVIOUS
    <2>1. PICK n \in Accordions : m \in ChoicesIn(n)
        BY DEF ChoicesOf, Accordions, Accordion, ChoicesIn
    <2>2. QED BY <1>1, <1>2, <2>1, ChoiceFacts DEF Options
<1>4. PICK chosen : /\ resource = ResourceOf(form, chosen) /\ DOMAIN chosen = ChoicesOf(form)
                    /\ \A m \in ChoicesOf(form) : chosen[m] \in OptionsOf(form, m)
    <2> DEFINE first == [m \in ChoicesOf(form) |-> CHOOSE c \in OptionsOf(form, m) : TRUE]
    <2>1. /\ DOMAIN first = ChoicesOf(form)
          /\ \A m \in ChoicesOf(form) : first[m] \in OptionsOf(form, m)
        BY <1>3
    <2>2. \/ resource = ResourceOf(form, first)
          \/ \E m \in ChoicesOf(form) : \E c \in OptionsOf(form, m) :
               resource = ResourceOf(form, [first EXCEPT ![m] = c])
        BY <1>1 DEF Resources
    <2> HIDE DEF first
    <2>3. ASSUME NEW m \in ChoicesOf(form), NEW c \in OptionsOf(form, m)
          PROVE  /\ DOMAIN [first EXCEPT ![m] = c] = ChoicesOf(form)
                 /\ \A k \in ChoicesOf(form) : [first EXCEPT ![m] = c][k] \in OptionsOf(form, k)
        BY <2>1
    <2>4. QED BY <2>1, <2>2, <2>3
<1>5. DOMAIN resource = Fields
    BY <1>4 DEF ResourceOf, Fields
<1>6. ASSUME NEW n \in Accordions, NEW m \in ChoicesIn(n) PROVE OneOf(resource, n, m)
    <2>1. chosen[m] \in Options(n, m)
        BY <1>2, <1>4
    <2>2. m \in DOMAIN resource => resource[m] = chosen[m]
        BY <1>2, <1>4 DEF ResourceOf
    <2>3. ASSUME NEW f \in Belongs(n, m) \ Accordion(n).choice[m][chosen[m]]
          PROVE  resource[f] = Absent
        <3>1. f \in Fields /\ \A d \in Accordions : f \notin ChoicesIn(d)
            BY <1>1, DecidedFacts
        <3>2. f \in FieldsOf[form] /\ f \notin DOMAIN chosen
            BY <1>4, <3>1 DEF Fields, ChoicesOf, ChoicesIn, Accordions, Accordion
        <3>3. \E d \in DOMAIN Forms[form] : \E k \in DOMAIN Forms[form][d].choice :
                f \in Decides(Forms[form][d], k) /\ f \notin Forms[form][d].choice[k][chosen[k]]
            BY DEF Belongs, ChoicesIn, Accordions, Accordion
        <3>4. QED BY <1>4, <3>2, <3>3 DEF ResourceOf
    <2>4. QED BY <2>1, <2>2, <2>3 DEF OneOf, OnlyOf
<1>7. QED BY <1>1, <1>5, <1>6, MountChoices DEF CInv

LEMMA DialogChoices ==
    ASSUME Inv, CInv,
           \/ ShowYaml \/ ShowForm \/ Save \/ Cancel \/ Open
           \/ \E f \in Fields : EditYaml(f)
    PROVE  ChoiceInv(view', update', latestYaml', resource')
<1>1. /\ form \in DOMAIN Forms /\ DOMAIN latestYaml = Fields /\ DOMAIN resource = Fields
      /\ dialog # "form" => update = NoUpdate
    BY DEF Inv, Idle
<1>2. \A n \in Accordions : \A m \in ChoicesIn(n) : OneOf(latestYaml, n, m) /\ OneOf(resource, n, m)
    BY DEF CInv, ChoiceInv, OneSource
<1>3. CASE ShowYaml \/ Cancel
    BY <1>3 DEF ShowYaml, Cancel, CInv
<1>4. CASE Save
    BY <1>2, <1>4 DEF Save, CInv, ChoiceInv
<1>5. ASSUME NEW f \in Fields, EditYaml(f) PROVE ChoiceInv(view', update', latestYaml', resource')
    <2>1. /\ update = NoUpdate /\ f \notin ChoicesOf(form) /\ latestYaml[f] # Absent
          /\ DOMAIN latestYaml' = DOMAIN latestYaml
          /\ \A g \in DOMAIN latestYaml : g # f => latestYaml'[g] = latestYaml[g]
          /\ view' = view /\ update' = update /\ resource' = resource
        BY <1>1, <1>5 DEF EditYaml
    <2>2. ASSUME NEW n \in Accordions, NEW m \in ChoicesIn(n)
          PROVE  /\ \A c : OnlyOf(latestYaml, n, m, c) => OnlyOf(latestYaml', n, m, c)
                 /\ OneOf(latestYaml', n, m)
        <3>1. m # f
            BY <2>1 DEF ChoicesOf, ChoicesIn, Accordions, Accordion
        <3>2. \A c : OnlyOf(latestYaml, n, m, c) => OnlyOf(latestYaml', n, m, c)
            BY <2>1 DEF OnlyOf
        <3>3. QED BY <1>2, <2>1, <3>1, <3>2 DEF OneOf
    <2>3. OneSource(view', update', latestYaml')
        BY <2>1, <2>2 DEF OneSource, CInv, ChoiceInv
    <2>4. ShowsChoice(view', update', latestYaml')
        BY <2>1, <2>2 DEF ShowsChoice, CInv, ChoiceInv
    <2>5. QED BY <2>1, <2>3, <2>4 DEF CInv, ChoiceInv
<1>6. CASE ShowForm \/ Open
    <2>1. PICK yaml : /\ latestYaml' = yaml /\ yaml \in {latestYaml, resource}
                      /\ view' = ViewOn(yaml) /\ update' = MountedSends(yaml)
        BY <1>6 DEF ShowForm, Open, MountForm
    <2>2. resource' = resource
        BY <1>6 DEF ShowForm, Open
    <2>3. QED BY <1>1, <1>2, <2>1, <2>2, MountChoices
<1>7. QED BY <1>3, <1>4, <1>5, <1>6

LEMMA NextChoices == Inv /\ CInv /\ [FormNext]_formVars => CInv'
<1> SUFFICES ASSUME Inv, CInv, [FormNext]_formVars PROVE CInv'
    OBVIOUS
<1>1. form' = form
    BY DEF FormNext, formVars, Type, Choose, Change, OnUpdate, WriteYaml, ShowYaml, ShowForm,
           Save, Cancel, Open, EditYaml
<1>2. CASE UNCHANGED formVars
    BY <1>1, <1>2, ChoiceInvOfNext DEF formVars, CInv
<1>3. ASSUME NEW n \in Accordions, NEW f \in Accordion(n).edits, Type(n, f) PROVE CInv'
    <2>1. form \in DOMAIN Forms
        BY DEF Inv
    <2>2. f \notin ChoicesIn(n)
        BY <2>1, ChoiceFacts
    <2>3. QED BY <1>1, <1>3, <2>2, ChangeChoices, ChoiceInvOfNext DEF Type
<1>4. ASSUME NEW n \in Accordions, NEW m \in ChoicesIn(n), Choose(n, m) PROVE CInv'
    BY <1>1, <1>4, ChangeChoices, ChoiceInvOfNext DEF Choose, Options
<1>5. CASE OnUpdate \/ WriteYaml
    BY <1>1, <1>5, OnUpdateChoices, WriteYamlChoices, ChoiceInvOfNext
<1>6. CASE \/ ShowYaml \/ ShowForm \/ Save \/ Cancel \/ Open
           \/ \E f \in Fields : EditYaml(f)
    BY <1>1, <1>6, DialogChoices, ChoiceInvOfNext
<1>7. QED BY <1>2, <1>3, <1>4, <1>5, <1>6 DEF FormNext

LEMMA ChoicesHold == FormSpec => [](Inv /\ CInv)
<1>1. FormInit => Inv /\ CInv
    BY InitInv, InitChoices
<1>2. Inv /\ CInv /\ [FormNext]_formVars => (Inv /\ CInv)'
    BY NextInv, NextChoices
<1>3. QED BY <1>1, <1>2, PTL DEF FormSpec

-----------------------------------------------------------------------------
(* The theorems about choices, for every set of forms of which                  *)
(* FormsAssumption and ChoicesAssumption are true.                              *)

(* The YAML never has the sources of two options at once, whatever was chosen,  *)
(* typed, edited in the YAML or taken back, and in which order.                 *)
THEOREM NeverTwoSources == FormSpec => []OneSourceOnly
<1>1. Inv /\ CInv => OneSourceOnly
    <2> SUFFICES ASSUME Inv, CInv, NEW n \in Accordions, NEW m \in ChoicesIn(n)
                 PROVE  \E c \in DOMAIN Accordion(n).choice[m] :
                          \A f \in Belongs(n, m) \ Accordion(n).choice[m][c] : latestYaml[f] = Absent
        BY DEF OneSourceOnly
    <2>1. OneOf(latestYaml, n, m)
        BY DEF CInv, ChoiceInv, OneSource
    <2>2. Belongs(n, m) \subseteq DOMAIN latestYaml
        BY DecidedFacts DEF Inv
    <2>3. QED BY <2>1, <2>2 DEF OneOf, OnlyOf, Options
<1>2. QED BY <1>1, ChoicesHold, PTL

(* A choice that is sent as it was before is sent with the next change made in  *)
(* its accordion or in one it contains, together with that change.              *)
THEOREM LateChoicesAreSent == FormSpec => LateChoicesFollow
<1>1. Inv /\ CInv /\ [FormNext]_formVars =>
        [WriteYaml =>
           \A n \in Around(update.by) \cup {update.by} :
             LateChoices(n) # {} /\ update.field \notin LateChoices(n)
               => \A f \in Written(n) : latestYaml'[f] = Sent(n, view[n])[f]]_formVars
    BY WriteYamlChoices DEF Branch
<1>2. QED BY <1>1, ChoicesHold, PTL DEF FormSpec, LateChoicesFollow

(* The form that is mounted on the YAML shows the choices as they were made,    *)
(* but for an option the resource has nothing of, and for a late choice.        *)
THEOREM ChoicesAreShownAgain == FormSpec => []ReturnShowsTheChoice
<1>1. Inv /\ CInv => ReturnShowsTheChoice
    <2> SUFFICES ASSUME Inv, CInv, Idle, NEW n \in Accordions,
                        NEW m \in Unwritten(n) \ Accordion(n).late,
                        NEW f \in Accordion(n).choice[m][view[n][m]], latestYaml[f] # Absent
                 PROVE  ChoiceFor(n, m, latestYaml) = view[n][m]
        BY DEF ReturnShowsTheChoice
    <2> DEFINE c == view[n][m]
               present == {x \in Options(n, m) : \E g \in Accordion(n).choice[m][x] : latestYaml[g] # Absent}
    <2>1. form \in DOMAIN Forms /\ DOMAIN latestYaml = Fields
        BY DEF Inv
    <2>2. m \in ChoicesIn(n)
        BY <2>1, ChoiceFacts
    <2>3. c \in Options(n, m) /\ OnlyOf(latestYaml, n, m, c)
        BY <2>2 DEF CInv, ChoiceInv, ChoicesMade, ShowsChoice, Idle
    <2>4. Belongs(n, m) = UNION {Accordion(n).choice[m][x] : x \in Options(n, m)}
        BY DEF Belongs, Decides, Options
    <2>5. Belongs(n, m) \subseteq DOMAIN latestYaml
        BY <2>1, <2>2, DecidedFacts
    <2>6. \A x \in Options(n, m) : x # c => Accordion(n).choice[m][x] \cap Accordion(n).choice[m][c] = {}
        <3>1. ChoicesAreLocal(Forms[form])
            BY <2>1, ChoicesAssumption
        <3>2. QED BY <2>3, <3>1 DEF ChoicesAreLocal, Accordions, Accordion, Options, Unwritten
    <2>7. c \in present
        BY <2>3
    <2>8. ASSUME NEW x \in present PROVE x = c
        <3>1. PICK g \in Accordion(n).choice[m][x] : latestYaml[g] # Absent
            OBVIOUS
        <3>2. x \in Options(n, m) /\ g \in Belongs(n, m)
            BY <2>4
        <3>3. g \in Accordion(n).choice[m][c]
            BY <2>3, <2>5, <3>1, <3>2 DEF OnlyOf
        <3>4. QED BY <2>6, <3>2, <3>3
    <2>9. present = {c}
        BY <2>7, <2>8
    <2>10. ChoiceFor(n, m, latestYaml) =
             IF present = {} THEN Accordion(n).default[m] ELSE CHOOSE x \in present : TRUE
        BY DEF ChoiceFor, Options
    <2> HIDE DEF present
    <2>11. QED BY <2>9, <2>10
<1>2. QED BY <1>1, ChoicesHold, PTL

-----------------------------------------------------------------------------
(* The fields of the options that are chosen.  The invariant is about one       *)
(* accordion with choices and the fields they decide on, unless one of these    *)
(* choices is sent late: only it leaves such a field out, and the accordions    *)
(* around it and in it hand it on as it is.                                     *)

Settled(a) ==
  {f \in Fields : ~ DependsOnLate(f) /\ \E m \in ChoicesIn(a) : f \in Belongs(a, m)}
HoldersIn(a, f) == {d \in Accordions : a \in Around(d) /\ f \in Accordion(d).holds}

\* What is in sight in a has a's value of f, but for accordions an update on its
\* way to a has passed.
InnerAgree(copies, u, a, f) ==
  \A d \in HoldersIn(a, f) : Displayed(d, copies) =>
    copies[d][f] = IF Brings(u, d, f) /\ Within(u, a) THEN u.values[f] ELSE copies[a][f]

\* What is around a has the value of the YAML, but for accordions an update has
\* passed.
OuterAgree(copies, u, yaml, a, f) ==
  \A p \in Around(a) : copies[p][f] = IF Brings(u, p, f) THEN u.values[f] ELSE yaml[f]

\* What a sends of f is in the YAML, or on its way from a or through it.
SentOn(copies, u, yaml, a, f) ==
  Sent(a, copies[a])[f] =
    IF u # NoUpdate /\ f \in DOMAIN u.values /\ ~ Within(u, a) THEN u.values[f] ELSE yaml[f]

Agree(copies, u, yaml) ==
  \A a \in Accordions : \A f \in Settled(a) :
    /\ InnerAgree(copies, u, a, f)
    /\ OuterAgree(copies, u, yaml, a, f)
    /\ SentOn(copies, u, yaml, a, f)

\* An accordion that is not rendered changes nothing, so an update never comes
\* from what was last shown of a source that is not chosen.
BeginsInSight(copies, u) == u # NoUpdate /\ u.at # "yaml" => Displayed(u.by, copies)

EditsInv(copies, u, yaml) == BeginsInSight(copies, u) /\ Agree(copies, u, yaml)
EInv == dialog = "form" => EditsInv(view, update, latestYaml)

LEMMA SettledFacts ==
    ASSUME form \in DOMAIN Forms, NEW a \in Accordions, NEW f \in Settled(a)
    PROVE  /\ f \in Written(a) /\ f \in Accordion(a).holds /\ f \in Fields
           /\ \A m \in ChoicesIn(a) : f \in Belongs(a, m) => m \notin Accordion(a).late
           /\ \A d \in Accordions :
                /\ f \notin ChoicesIn(d) /\ f \notin Accordion(d).late
                /\ \A g : f \notin Rederived(d, g)
           /\ \A d \in Accordions : f \in Accordion(d).holds =>
                /\ f \in Written(d)
                /\ d = a \/ d \in Around(a) \/ a \in Around(d)
                /\ d # a => ChoicesIn(d) = {}
           /\ \A d \in Around(a) : /\ f \in Accordion(d).holds /\ f \notin Accordion(d).edits
                                   /\ \A g : f \notin Follows(d, g)
<1>1. PICK m \in ChoicesIn(a) : f \in Belongs(a, m)
    BY DEF Settled
<1>2. /\ f \in Written(a) /\ f \in Fields
      /\ \A d \in Accordions :
           /\ f \notin ChoicesIn(d) /\ f \notin Unwritten(d) /\ f \notin Accordion(d).late
           /\ f \in Accordion(d).holds => d = a \/ d \in Around(a) \/ a \in Around(d)
           /\ \A g : f \notin Rederived(d, g)
      /\ \A d \in Around(a) :
           /\ f \in Written(d) /\ f \notin Accordion(d).edits /\ \A g : f \notin Follows(d, g)
    BY <1>1, DecidedFacts
<1>3. \A d \in Accordions : \A k \in ChoicesIn(d) : f \in Belongs(d, k) => k \notin Accordion(d).late
    BY DEF Settled, DependsOnLate, LateChoices
<1>4. \A d \in Accordions : f \in Accordion(d).holds => f \in Written(d)
    BY <1>2 DEF Written
<1>5. ASSUME NEW d \in Accordions, f \in Accordion(d).holds, d # a, ChoicesIn(d) # {}
      PROVE  FALSE
    <2>1. ASSUME NEW n \in Accordions, NEW b \in Around(n), f \in Written(n),
                 ChoicesIn(n) # {}, ChoicesIn(b) # {}
          PROVE  FALSE
        <3>1. b \in Accordions
            BY <2>1, TreeFacts
        <3>2. PICK k \in Accordion(b).late : f \in Belongs(b, k)
            BY <2>1, NestedFacts
        <3>3. k \in ChoicesIn(b)
            BY <3>1, ChoiceFacts
        <3>4. QED BY <1>3, <3>1, <3>2, <3>3
    <2>2. ChoicesIn(a) # {}
        BY <1>1
    <2>3. QED BY <1>2, <1>4, <1>5, <2>1, <2>2
<1>6. \A d \in Around(a) : f \in Accordion(d).holds
    BY <1>2, TreeFacts
<1>7. f \in Accordion(a).holds
    BY <1>2, TreeFacts
<1>8. QED BY <1>2, <1>3, <1>4, <1>5, <1>6, <1>7

\* Where such a field is held, and where it is typed into.
LEMMA SettledHolders ==
    ASSUME form \in DOMAIN Forms, NEW a \in Accordions, NEW f \in Settled(a)
    PROVE  /\ \A n, d \in Accordions :
                f \in Accordion(n).holds /\ f \in Accordion(d).holds /\ Depth(n) = Depth(d) => n = d
           /\ \A n \in Accordions : \A g \in Accordion(n).edits \cup ChoicesIn(n) :
                f = g \/ f \in Follows(n, g) =>
                  /\ g \notin Accordion(n).late
                  /\ \A d \in Accordions : f \in Accordion(d).holds => Depth(d) <= Depth(n)
<1>1. PICK m \in ChoicesIn(a) : f \in Belongs(a, m)
    BY DEF Settled
<1>2. HeldOncePerLevel(Forms[form], f)
    BY <1>1, ChoicesAssumption DEF ChoicesIn, Belongs, Accordion, Accordions
<1>3. QED BY <1>2 DEF HeldOncePerLevel, Accordions, Accordion, Depth, ChoicesIn, Follows

\* An accordion without choices hands on what it has.
LEMMA NoChoices ==
    ASSUME form \in DOMAIN Forms, NEW n \in Accordions, ChoicesIn(n) = {}
    PROVE  /\ Accordion(n).late = {} /\ Accordion(n).blanks = {}
           /\ Written(n) = Accordion(n).holds
           /\ \A g : Rederived(n, g) = {}
           /\ \A values : Erased(n, values) = {}
           /\ \A values, g : ~ Unused(n, values, g)
           /\ \A values : \A g \in Accordion(n).holds :
                Sent(n, values)[g] = values[g] /\ Mounted(n, values)[g] = values[g]
<1>1. /\ Unwritten(n) = {} /\ Accordion(n).late = {}
      /\ \A g : Rederived(n, g) = {}
    BY ChoiceFacts
<1>2. Accordion(n).blanks = {}
    <2>1. HiddenTogether(Forms[form])
        BY ChoicesAssumption
    <2>2. \A g \in Accordion(n).blanks : \E m \in Unwritten(n) : TRUE
        BY <2>1 DEF HiddenTogether, Accordions, Accordion, Unwritten
    <2>3. QED BY <1>1, <2>2
<1>3. \A values, g : ~ Unused(n, values, g)
    BY DEF Unused
<1>4. \A values : Erased(n, values) = {}
    BY <1>3, ChoiceFacts
<1>5. Written(n) = Accordion(n).holds
    BY <1>1 DEF Written
<1>6. \A values : \A g \in Accordion(n).holds : Sent(n, values)[g] = values[g]
    BY <1>3, <1>5 DEF Sent
<1>7. \A values : \A g \in Accordion(n).holds : Mounted(n, values)[g] = values[g]
    BY <1>1, <1>2 DEF Mounted
<1>8. QED BY <1>1, <1>2, <1>3, <1>4, <1>5, <1>6, <1>7

\* Whether an accordion in a that holds such a field is rendered is decided by
\* the choices in a.
LEMMA InSight ==
    ASSUME form \in DOMAIN Forms, NEW a \in Accordions, NEW f \in Settled(a),
           NEW d \in HoldersIn(a, f), NEW copies
    PROVE  Displayed(d, copies) <=> \E g \in Written(d) : ~ Unused(a, copies[a], g)
<1>1. d \in Accordions /\ a \in Around(d) /\ f \in Written(d)
    BY SettledFacts DEF HoldersIn
<1>2. ASSUME NEW b \in Around(d), b # a PROVE \A g : ~ Unused(b, copies[b], g)
    <2>1. b \in Accordions /\ f \in Accordion(b).holds
        BY <1>1, TreeFacts
    <2>2. ChoicesIn(b) = {}
        BY <1>2, <2>1, SettledFacts
    <2>3. QED BY <2>1, <2>2, NoChoices
<1>3. QED BY <1>1, <1>2 DEF Displayed

\* What is not sent stays the same with what is not kept, and the accordions in
\* n that show it go out of sight with it.
LEMMA ErasedOutOfSight ==
    ASSUME form \in DOMAIN Forms, NEW a \in Accordions, NEW f \in Settled(a), NEW sent, NEW kept,
           \A m \in ChoicesIn(a) \ Accordion(a).late : kept[m] = sent[m],
           kept[f] = IF f \in Erased(a, sent) THEN Absent ELSE sent[f]
    PROVE  /\ Sent(a, kept)[f] = Sent(a, sent)[f]
           /\ f \in Erased(a, sent) =>
                \A d \in HoldersIn(a, f) : \A g \in Written(d) : Unused(a, kept, g)
<1>1. f \in Written(a) /\ \A m \in ChoicesIn(a) : f \in Belongs(a, m) => m \notin Accordion(a).late
    BY SettledFacts
<1>2. Unused(a, kept, f) <=> Unused(a, sent, f)
    BY <1>1 DEF Unused
<1>3. f \in Erased(a, sent) => Unused(a, sent, f)
    BY ChoiceFacts
<1>4. Sent(a, kept)[f] = Sent(a, sent)[f]
    BY <1>1, <1>2, <1>3 DEF Sent
<1>5. ASSUME f \in Erased(a, sent), NEW d \in HoldersIn(a, f), NEW g \in Written(d)
      PROVE  Unused(a, kept, g)
    <2>1. PICK m \in DOMAIN Accordion(a).erases :
            sent[m] \in DOMAIN Accordion(a).erases[m] /\ f \in Accordion(a).erases[m][sent[m]]
        BY <1>5 DEF Erased
    <2>2. ChoicesAreLocal(Forms[form]) /\ HiddenTogether(Forms[form])
        BY ChoicesAssumption
    <2>3. m \in ChoicesIn(a) /\ f \in Belongs(a, m)
        BY <2>1, <2>2 DEF ChoicesAreLocal, Accordions, Accordion, ChoicesIn, Belongs
    <2>4. d \in Accordions /\ LiesIn(Forms[form], d, a) /\ f \in Accordion(d).holds
        BY DEF HoldersIn, LiesIn, Around, Accordion
    <2>5. Written(d) \subseteq Decides(Accordion(a), m) \ Accordion(a).choice[m][sent[m]]
        BY <2>1, <2>2, <2>4 DEF HiddenTogether, Accordions, Accordion, Written, Unwritten
    <2>6. kept[m] = sent[m]
        BY <1>1, <2>3
    <2>7. QED BY <2>3, <2>5, <2>6 DEF Unused, Belongs
<1>6. QED BY <1>4, <1>5

\* Mounted on a YAML with one option of each choice, an accordion sends what the
\* YAML has, and its copy has the same of all that is in sight.
LEMMA MountSettled ==
    ASSUME form \in DOMAIN Forms, NEW a \in Accordions, NEW f \in Settled(a), NEW yaml,
           DOMAIN yaml = Fields, \A m \in ChoicesIn(a) : OneOf(yaml, a, m)
    PROVE  LET own == Mounted(a, yaml)
           IN  /\ Sent(a, own)[f] = yaml[f]
               /\ \A d \in HoldersIn(a, f) : \A g \in Written(d) :
                    ~ Unused(a, own, g) => own[f] = yaml[f]
<1> DEFINE own == Mounted(a, yaml)
<1>1. f \in Written(a) /\ f \in Accordion(a).holds /\ f \in Fields /\ f \notin Unwritten(a)
    BY SettledFacts DEF Written
<1>2. own[f] = IF f \in Accordion(a).blanks /\ yaml[f] = Absent THEN Blank ELSE yaml[f]
    BY <1>1 DEF Mounted
<1>3. ASSUME NEW m \in ChoicesIn(a), f \in Belongs(a, m) \ Accordion(a).choice[m][own[m]]
      PROVE  yaml[f] = Absent
    <2>1. OnlyOf(yaml, a, m, own[m])
        BY TreeFacts, MountShows
    <2>2. QED BY <1>1, <1>3, <2>1 DEF OnlyOf
<1>4. ASSUME f \in Accordion(a).blanks, yaml[f] = Absent
      PROVE  \E m \in ChoicesIn(a) :
               /\ f \in Belongs(a, m) \ Accordion(a).choice[m][own[m]]
               /\ \A d \in HoldersIn(a, f) : Written(d) = {f}
    <2>1. HiddenTogether(Forms[form])
        BY ChoicesAssumption
    <2>2. PICK m \in Unwritten(a) :
            /\ f \in Belongs(a, m)
            /\ \A c \in DOMAIN Accordion(a).choice[m] :
                 f \in Accordion(a).choice[m][c] =>
                   Accordion(a).choice[m][c] = {f} /\ Accordion(a).default[m] # c
        BY <1>4, <2>1 DEF HiddenTogether, Accordions, Accordion, Unwritten, Belongs
    <2>3. ASSUME NEW d \in HoldersIn(a, f) PROVE Written(d) = {f}
        <3>1. d \in Accordions /\ LiesIn(Forms[form], d, a) /\ f \in Accordion(d).holds
            BY DEF HoldersIn, LiesIn, Around, Accordion
        <3>2. QED BY <1>4, <2>1, <3>1 DEF HiddenTogether, Accordions, Accordion, Written, Unwritten
    <2>4. m \in ChoicesIn(a) /\ m \in Accordion(a).holds
        BY ChoiceFacts
    <2> DEFINE c == own[m]
               present == {x \in DOMAIN Accordion(a).choice[m] :
                             \E g \in Accordion(a).choice[m][x] : yaml[g] # Absent}
    <2>5. c = IF present = {} THEN Accordion(a).default[m] ELSE CHOOSE x \in present : TRUE
        BY <2>4 DEF Mounted, ChoiceFor
    <2>6. c \in DOMAIN Accordion(a).choice[m]
        BY <2>4, ChoiceFacts DEF Mounted
    <2>7. c \in present \/ c = Accordion(a).default[m]
        <3> HIDE DEF present, c
        <3>1. QED BY <2>5
    <2>8. f \notin Accordion(a).choice[m][c]
        <3>1. ASSUME f \in Accordion(a).choice[m][c] PROVE FALSE
            <4>1. Accordion(a).choice[m][c] = {f} /\ Accordion(a).default[m] # c
                BY <2>2, <2>6, <3>1
            <4>2. c \in present
                BY <2>7, <4>1
            <4>3. QED BY <1>4, <4>1, <4>2
        <3>2. QED BY <3>1
    <2>9. QED BY <2>2, <2>3, <2>4, <2>8
<1>5. Sent(a, own)[f] = IF Unused(a, own, f) THEN Absent ELSE own[f]
    BY <1>1 DEF Sent
<1> HIDE DEF own
<1>6. Unused(a, own, f) => yaml[f] = Absent
    BY <1>3 DEF Unused
<1>7. f \in Accordion(a).blanks /\ yaml[f] = Absent =>
        /\ Unused(a, own, f)
        /\ \A d \in HoldersIn(a, f) : Written(d) = {f}
    BY <1>4 DEF Unused
<1>8. Sent(a, own)[f] = yaml[f]
    BY <1>2, <1>5, <1>6, <1>7
<1>9. ASSUME NEW d \in HoldersIn(a, f), NEW g \in Written(d), ~ Unused(a, own, g)
      PROVE  own[f] = yaml[f]
    BY <1>2, <1>7, <1>9
<1>10. QED BY <1>8, <1>9 DEF own

\* Only the choices made decide what is rendered.
LEMMA SameSight ==
    ASSUME form \in DOMAIN Forms, NEW old, NEW new, NEW d \in Accordions,
           \A b \in Around(d) : \A m \in ChoicesIn(b) : new[b][m] = old[b][m]
    PROVE  Displayed(d, new) <=> Displayed(d, old)
<1>1. \A b \in Around(d) : \A g : Unused(b, new[b], g) <=> Unused(b, old[b], g)
    BY DEF Unused
<1>2. QED BY <1>1 DEF Displayed

\* What is around an accordion that is rendered is rendered, too.
LEMMA AroundInSight ==
    ASSUME form \in DOMAIN Forms, NEW n \in Accordions, NEW b \in Around(n), NEW copies,
           Displayed(n, copies)
    PROVE  Displayed(b, copies)
<1>1. PICK g \in Written(n) : \A c \in Around(n) : ~ Unused(c, copies[c], g)
    BY DEF Displayed
<1>2. b \in Accordions /\ b # n /\ g \in Accordion(b).holds /\ g \in Accordion(n).holds
      /\ Around(b) \subseteq Around(n)
    BY TreeFacts, BranchFacts
<1>3. g \notin Unwritten(b)
    BY <1>2, ChoiceFacts
<1>4. QED BY <1>1, <1>2, <1>3 DEF Displayed, Written

LEMMA EditsInvOfNext ==
    ASSUME form' = form, dialog' = "form" => EditsInv(view', update', latestYaml')
    PROVE  EInv'
<1> USE DEF Accordions, Accordion, Around, Branch, ChoicesIn, Belongs
<1>1. /\ Accordions' = Accordions
      /\ \A n : /\ Accordion(n)' = Accordion(n) /\ Around(n)' = Around(n) /\ Branch(n)' = Branch(n)
                /\ ChoicesIn(n)' = ChoicesIn(n) /\ Written(n)' = Written(n) /\ Depth(n)' = Depth(n)
      /\ \A n, m : Belongs(n, m)' = Belongs(n, m)
    BY DEF Written, Unwritten, Depth
<1>2. \A f : DependsOnLate(f)' <=> DependsOnLate(f)
    BY DEF DependsOnLate, LateChoices
<1>3. Fields' = Fields
    BY DEF Fields
<1>4. \A a : Settled(a)' = Settled(a)
    BY <1>1, <1>2, <1>3 DEF Settled
<1>5. \A a, f : HoldersIn(a, f)' = HoldersIn(a, f)
    BY <1>1 DEF HoldersIn
<1>6. \A d : Displayed(d, view)' <=> Displayed(d, view')
    BY <1>1 DEF Displayed, Unused
<1>7. BeginsInSight(view', update') => BeginsInSight(view, update)'
    BY <1>6 DEF BeginsInSight
<1>8. \A a, f : InnerAgree(view', update', a, f) => InnerAgree(view, update, a, f)'
    BY <1>1, <1>5, <1>6 DEF InnerAgree, Brings, Within
<1>9. \A a, f : OuterAgree(view', update', latestYaml', a, f) => OuterAgree(view, update, latestYaml, a, f)'
    BY <1>1 DEF OuterAgree, Brings
<1>10. \A a, f : SentOn(view', update', latestYaml', a, f) => SentOn(view, update, latestYaml, a, f)'
    BY <1>1 DEF SentOn, Within, Sent, Unused
<1>11. Agree(view', update', latestYaml') => Agree(view, update, latestYaml)'
    BY <1>1, <1>4, <1>8, <1>9, <1>10 DEF Agree
<1>12. QED BY <1>7, <1>11 DEF EInv, EditsInv

(* A change, where it is made: nothing is on its way, so what is in sight in a  *)
(* has a's value and what is around a the YAML's.                               *)
LEMMA ChangeEdits ==
    ASSUME Inv, EInv, MayChange, NEW n \in Accordions,
           NEW g \in Accordion(n).edits \cup ChoicesIn(n), Displayed(n, view),
           NEW v, Change(n, g, v)
    PROVE  EditsInv(view', update', latestYaml')
<1>1. PICK typed, sent, views : Changed(n, g, v, typed, sent, views)
    BY ChangeFacts
<1> DEFINE u == SentBy(n, g, sent)
<1>2. /\ form \in DOMAIN Forms /\ update = NoUpdate /\ ViewFits(view) /\ dialog = "form"
    BY DEF Inv, MayChange, Idle
<1>3. /\ u # NoUpdate /\ u.at = Parent(n) /\ u.by = n
      /\ u.values = Sent(n, sent) /\ DOMAIN u.values = Written(n)
      /\ \A d \in Accordions : \A f :
           Brings(u, d, f) <=> f \in Written(n) /\ Depth(d) >= Depth(n)
    BY <1>2, SentFacts
<1>4. /\ update' = u /\ latestYaml' = latestYaml
      /\ sent = IF g \in Accordion(n).late THEN view[n] ELSE typed
    BY <1>1 DEF Changed
<1> HIDE DEF u
<1>5. \A f \in Accordion(n).holds :
        /\ typed[f] = IF f = g \/ f \in Follows(n, g) THEN v
                      ELSE IF f \in Rederived(n, g) THEN ChoiceFor(n, f, view[n])
                      ELSE view[n][f]
        /\ views[n][f] = IF f \in Erased(n, sent) THEN Absent ELSE typed[f]
    BY <1>1 DEF Changed
<1>6. \A d \in Accordions :
        /\ d # n => views[d] = view[d]
        /\ view'[d] = IF n \in Around(d) /\ Displayed(d, views) /\ ~ Displayed(d, view)
                      THEN Mounted(d, views[n]) ELSE views[d]
        /\ n \notin Around(d) => view'[d] = views[d]
    BY <1>1 DEF Changed, Remounted
<1>7. view'[n] = views[n] /\ n \notin Around(n)
    BY <1>2, <1>6, BranchFacts
<1>8. BeginsInSight(view', u)
    <2>1. \A b \in Around(n) : b \in Accordions /\ view'[b] = view[b]
        <3> SUFFICES ASSUME NEW b \in Around(n) PROVE b \in Accordions /\ view'[b] = view[b]
            OBVIOUS
        <3>1. b \in Accordions /\ b # n /\ Depth(b) < Depth(n) /\ Depth(b) \in Nat /\ Depth(n) \in Nat
            BY <1>2, TreeFacts, BranchFacts
        <3>2. n \notin Around(b)
            BY <1>2, <3>1, TreeFacts
        <3>3. QED BY <1>6, <3>1, <3>2
    <2>2. Displayed(n, view')
        BY <1>2, <2>1, SameSight
    <2>3. QED BY <1>3, <2>2 DEF BeginsInSight
<1>9. ASSUME NEW a \in Accordions, NEW f \in Settled(a)
      PROVE  /\ InnerAgree(view', u, a, f)
             /\ OuterAgree(view', u, latestYaml', a, f)
             /\ SentOn(view', u, latestYaml', a, f)
    <2>1. /\ \A d \in HoldersIn(a, f) : Displayed(d, view) => view[d][f] = view[a][f]
          /\ \A p \in Around(a) : view[p][f] = latestYaml[f]
          /\ Sent(a, view[a])[f] = latestYaml[f]
        BY <1>2 DEF EInv, EditsInv, Agree, InnerAgree, OuterAgree, SentOn, Brings
    <2>2. /\ \A p \in Around(a) : /\ p \in Accordions /\ Depth(p) \in Nat /\ Depth(p) < Depth(a)
                                  /\ a \notin Around(p)
          /\ Depth(a) \in Nat /\ Depth(n) \in Nat
          /\ \A d \in HoldersIn(a, f) : /\ d \in Accordions /\ d # a /\ Depth(d) \in Nat
                                        /\ Depth(a) < Depth(d) /\ a \in Around(d)
        <3>1. \A d \in Accordions : /\ Depth(d) \in Nat
                                    /\ \A p \in Around(d) : p \in Accordions /\ Depth(p) < Depth(d)
            BY <1>2, TreeFacts
        <3>2. QED BY <3>1 DEF HoldersIn
    <2>3. CASE n = a
        <3>1. f \in Accordion(a).holds /\ f \in Written(a) /\ f \notin Rederived(a, g)
            BY <1>2, SettledFacts
        <3>2. g \in Accordion(a).late => f # g /\ f \notin Follows(a, g)
            BY <1>2, <2>3, SettledHolders
        <3>3. sent[f] = typed[f]
            BY <1>4, <1>5, <2>3, <3>1, <3>2
        <3>4. \A m \in ChoicesIn(a) \ Accordion(a).late : views[a][m] = sent[m]
            <4> SUFFICES ASSUME NEW m \in ChoicesIn(a) \ Accordion(a).late
                         PROVE  views[a][m] = sent[m]
                OBVIOUS
            <4>1. /\ m \in Accordion(a).holds /\ m \notin Erased(a, sent) /\ m \notin Follows(a, g)
                  /\ g \in Accordion(a).late => Rederived(a, g) = {}
                BY <1>2, ChoiceFacts
            <4>2. views[a][m] = typed[m]
                BY <1>5, <2>3, <4>1
            <4>3. g \in Accordion(a).late => typed[m] = view[a][m]
                BY <1>5, <2>3, <4>1
            <4>4. QED BY <1>4, <2>3, <4>2, <4>3
        <3>5. views[a][f] = IF f \in Erased(a, sent) THEN Absent ELSE sent[f]
            BY <1>5, <2>3, <3>1, <3>3
        <3>6. /\ Sent(a, views[a])[f] = Sent(a, sent)[f]
              /\ f \in Erased(a, sent) =>
                   \A d \in HoldersIn(a, f) : \A x \in Written(d) : Unused(a, views[a], x)
            BY <1>2, <3>4, <3>5, ErasedOutOfSight
        <3>7. ~ Within(u, a)
            <4>1. Parent(a) # "yaml" => a \notin Branch(Parent(a))
                BY <1>2, BranchFacts DEF Branch
            <4>2. QED BY <1>3, <2>3, <4>1 DEF Within
        <3>8. SentOn(view', u, latestYaml', a, f)
            BY <1>3, <1>7, <2>3, <3>1, <3>6, <3>7 DEF SentOn
        <3>9. OuterAgree(view', u, latestYaml', a, f)
            <4> SUFFICES ASSUME NEW p \in Around(a)
                         PROVE  view'[p][f] = IF Brings(u, p, f) THEN u.values[f] ELSE latestYaml'[f]
                BY DEF OuterAgree
            <4>1. ~ Brings(u, p, f)
                BY <1>3, <2>2, <2>3
            <4>2. view'[p] = view[p]
                BY <1>6, <1>7, <2>2, <2>3
            <4>3. QED BY <1>4, <2>1, <4>1, <4>2
        <3>10. InnerAgree(view', u, a, f)
            <4> SUFFICES ASSUME NEW d \in HoldersIn(a, f), Displayed(d, view')
                         PROVE  view'[d][f] = view'[a][f]
                BY <3>7 DEF InnerAgree
            <4>1. \E x \in Written(d) : ~ Unused(a, views[a], x)
                BY <1>2, <1>7, <2>3, InSight
            <4>2. Displayed(d, views)
                BY <1>2, <4>1, InSight
            <4>3. f \notin Erased(a, sent)
                BY <3>6, <4>1
            <4>4. CASE Displayed(d, view)
                <5>1. view'[d] = view[d]
                    BY <1>6, <2>2, <2>3, <4>4
                <5>2. f # g /\ f \notin Follows(a, g)
                    <6>1. f \in Accordion(d).holds /\ d \in Accordions
                        BY DEF HoldersIn
                    <6>2. ~ (Depth(d) <= Depth(a))
                        BY <2>2
                    <6>3. QED BY <1>2, <2>3, <6>1, <6>2, SettledHolders
                <5>3. views[a][f] = view[a][f]
                    BY <1>5, <2>3, <3>1, <4>3, <5>2
                <5>4. QED BY <1>7, <2>1, <2>3, <4>4, <5>1, <5>3
            <4>5. CASE ~ Displayed(d, view)
                <5>1. view'[d] = Mounted(d, views[a])
                    BY <1>6, <2>2, <2>3, <4>2, <4>5
                <5>2. ChoicesIn(d) = {} /\ f \in Accordion(d).holds
                    BY <1>2, <2>2, SettledFacts DEF HoldersIn
                <5>3. view'[d][f] = views[a][f]
                    BY <1>2, <2>2, <5>1, <5>2, NoChoices
                <5>4. QED BY <1>7, <2>3, <5>3
            <4>6. QED BY <4>4, <4>5
        <3>11. QED BY <3>8, <3>9, <3>10
    <2>4. CASE n # a /\ f \in Accordion(n).holds
        <3>1. /\ ChoicesIn(n) = {} /\ f \in Written(n) /\ (n \in Around(a) \/ a \in Around(n))
              /\ f \notin Rederived(n, g)
            BY <1>2, <2>4, SettledFacts
        <3>2. /\ Accordion(n).late = {} /\ \A values : Erased(n, values) = {}
              /\ \A values : \A x \in Accordion(n).holds : Sent(n, values)[x] = values[x]
              /\ \A values, x : ~ Unused(n, values, x)
            BY <1>2, <3>1, NoChoices
        <3>3. u.values[f] = typed[f] /\ views[n][f] = typed[f]
            BY <1>3, <1>4, <1>5, <2>4, <3>2
        <3>4. typed[f] = IF f = g \/ f \in Follows(n, g) THEN v ELSE view[n][f]
            BY <1>5, <2>4, <3>1
        <3>5. \A d \in Accordions : view'[d] = views[d]
            <4> SUFFICES ASSUME NEW d \in Accordions, n \in Around(d) PROVE view'[d] = views[d]
                BY <1>6
            <4>1. \A b \in Around(d) : \A x : Unused(b, views[b], x) <=> Unused(b, view[b], x)
                <5> SUFFICES ASSUME NEW b \in Around(d)
                             PROVE  \A x : Unused(b, views[b], x) <=> Unused(b, view[b], x)
                    OBVIOUS
                <5>1. b \in Accordions
                    BY <1>2, TreeFacts
                <5>2. CASE b = n
                    BY <3>2, <5>2
                <5>3. CASE b # n
                    BY <1>6, <5>1, <5>3
                <5>4. QED BY <5>2, <5>3
            <4>2. Displayed(d, views) <=> Displayed(d, view)
                BY <4>1 DEF Displayed
            <4>3. QED BY <1>6, <4>2
        <3>6. view'[a] = view[a] /\ \A d \in Accordions : d # n => view'[d] = view[d]
            BY <1>6, <2>4, <3>5
        <3>7. ASSUME NEW d \in HoldersIn(a, f), Displayed(d, view') PROVE Displayed(d, view)
            BY <1>2, <3>6, <3>7, InSight
        <3>8. CASE a \in Around(n)
            <4>1. Within(u, a) /\ Depth(a) < Depth(n)
                <5>1. Parent(n) # "yaml" /\ a \in Branch(Parent(n))
                    BY <1>2, <3>8, BranchFacts DEF Branch
                <5>2. QED BY <1>2, <1>3, <3>8, <5>1, TreeFacts DEF Within
            <4>2. n \in HoldersIn(a, f)
                BY <2>4, <3>8 DEF HoldersIn
            <4>3. InnerAgree(view', u, a, f)
                <5> SUFFICES ASSUME NEW d \in HoldersIn(a, f), Displayed(d, view')
                             PROVE  view'[d][f] = IF Brings(u, d, f) THEN u.values[f] ELSE view'[a][f]
                    BY <4>1 DEF InnerAgree
                <5>1. Brings(u, d, f) <=> Depth(d) >= Depth(n)
                    BY <1>3, <2>2, <3>1
                <5>2. Displayed(d, view) /\ view[d][f] = view[a][f] /\ view[n][f] = view[a][f]
                    BY <2>1, <3>7, <4>2
                <5>3. f \in Accordion(d).holds /\ d \in Accordions
                    BY DEF HoldersIn
                <5>4. CASE d = n
                    BY <2>2, <3>3, <3>5, <5>1, <5>4
                <5>5. CASE d # n /\ Depth(d) > Depth(n)
                    <6>1. f # g /\ f \notin Follows(n, g)
                        <7>1. ~ (Depth(d) <= Depth(n))
                            BY <2>2, <5>5
                        <7>2. QED BY <1>2, <5>3, <7>1, SettledHolders
                    <6>2. Brings(u, d, f)
                        BY <2>2, <5>1, <5>5
                    <6>3. QED BY <3>3, <3>4, <3>6, <5>2, <5>3, <5>5, <6>1, <6>2
                <5>6. CASE d # n /\ ~ (Depth(d) > Depth(n))
                    <6>1. Depth(d) # Depth(n)
                        BY <1>2, <2>4, <5>3, <5>6, SettledHolders
                    <6>2. ~ Brings(u, d, f)
                        BY <2>2, <5>1, <5>6, <6>1
                    <6>3. QED BY <3>6, <5>2, <5>3, <5>6, <6>2
                <5>7. QED BY <5>4, <5>5, <5>6
            <4>4. OuterAgree(view', u, latestYaml', a, f)
                <5> SUFFICES ASSUME NEW p \in Around(a)
                             PROVE  view'[p][f] = IF Brings(u, p, f) THEN u.values[f] ELSE latestYaml'[f]
                    BY DEF OuterAgree
                <5>1. ~ Brings(u, p, f) /\ p # n
                    BY <1>3, <2>2, <4>1
                <5>2. QED BY <1>4, <2>1, <2>2, <3>6, <5>1
            <4>5. SentOn(view', u, latestYaml', a, f)
                BY <1>4, <2>1, <3>6, <4>1 DEF SentOn
            <4>6. QED BY <4>3, <4>4, <4>5
        <3>9. CASE n \in Around(a)
            <4>1. ~ Within(u, a)
                <5>1. Parent(n) # "yaml" => Branch(Parent(n)) = Around(n)
                    BY <1>2, BranchFacts DEF Branch
                <5>2. QED BY <1>3, <2>2, <3>9, <5>1 DEF Within
            <4>2. u.values[f] = latestYaml[f] /\ views[n][f] = latestYaml[f]
                <5>1. f # g /\ f \notin Follows(n, g)
                    BY <1>2, <3>1, <3>9, SettledFacts
                <5>2. QED BY <2>1, <3>3, <3>4, <3>9, <5>1
            <4>3. InnerAgree(view', u, a, f)
                BY <2>1, <2>2, <3>6, <3>7, <3>9, <4>1 DEF InnerAgree
            <4>4. OuterAgree(view', u, latestYaml', a, f)
                BY <1>4, <2>1, <2>2, <3>5, <3>6, <4>2 DEF OuterAgree
            <4>5. SentOn(view', u, latestYaml', a, f)
                BY <1>4, <2>1, <3>6, <4>2 DEF SentOn
            <4>6. QED BY <4>3, <4>4, <4>5
        <3>10. QED BY <3>1, <3>8, <3>9
    <2>5. CASE f \notin Accordion(n).holds
        <3>1. f \notin Written(n) /\ n # a /\ \A d \in Accordions : ~ Brings(u, d, f)
            BY <1>2, <1>3, <2>5, TreeFacts, SettledFacts
        <3>2. \A d \in Accordions : f \in Accordion(d).holds => view'[d] = view[d]
            <4> SUFFICES ASSUME NEW d \in Accordions, f \in Accordion(d).holds
                         PROVE  view'[d] = view[d]
                OBVIOUS
            <4>1. f \in Written(d)
                BY <1>2, SettledFacts
            <4>2. n \notin Around(d)
                BY <1>2, <2>5, <4>1, TreeFacts
            <4>3. QED BY <1>6, <2>5, <4>2
        <3>3. view'[a] = view[a] /\ \A p \in Around(a) : view'[p] = view[p]
            BY <1>2, <2>2, <3>2, SettledFacts
        <3>4. InnerAgree(view', u, a, f)
            <4> SUFFICES ASSUME NEW d \in HoldersIn(a, f), Displayed(d, view')
                         PROVE  view'[d][f] = view'[a][f]
                BY <2>2, <3>1 DEF InnerAgree
            <4>1. Displayed(d, view)
                BY <1>2, <3>3, InSight
            <4>2. view'[d] = view[d]
                BY <3>2 DEF HoldersIn
            <4>3. QED BY <2>1, <3>3, <4>1, <4>2
        <3>5. OuterAgree(view', u, latestYaml', a, f)
            BY <1>4, <2>1, <2>2, <3>1, <3>3 DEF OuterAgree
        <3>6. SentOn(view', u, latestYaml', a, f)
            BY <1>3, <1>4, <2>1, <3>1, <3>3 DEF SentOn
        <3>7. QED BY <3>4, <3>5, <3>6
    <2>6. QED BY <2>3, <2>4, <2>5
<1>10. QED BY <1>4, <1>8, <1>9 DEF EditsInv, Agree

(* The accordion around takes the field if the update has it, and has it        *)
(* otherwise: it is in sight, as all around the accordion that was changed.     *)
LEMMA OnUpdateEdits ==
    ASSUME Inv, CInv, EInv, OnUpdate
    PROVE  EditsInv(view', update', latestYaml')
<1> DEFINE e == update.at
           u == update'
<1>1. PICK taken, sent, kept : HandedOn(e, taken, sent, kept)
    BY OnUpdateFacts
<1>2. /\ form \in DOMAIN Forms /\ e \in Accordions /\ update # NoUpdate /\ UpdateFits(update)
      /\ ViewFits(view) /\ dialog = "form"
    <2>1. form \in DOMAIN Forms /\ e \in Accordions
        BY <1>1 DEF Inv, HandedOn
    <2>2. update # NoUpdate
        BY <2>1, TreeFacts DEF NoUpdate
    <2>3. QED BY <2>1, <2>2 DEF Inv, Idle
<1>3. e # "yaml" /\ update.by \in Accordions
    BY <1>2, TreeFacts DEF UpdateFits
<1>4. PICK d \in Branch(update.by) : e = Parent(d) /\ DOMAIN update.values = Written(d)
    BY <1>2 DEF CInv, ChoiceInv, Travels
<1>5. d \in Accordions /\ d # e /\ Depth(d) = Depth(e) + 1 /\ e \in Around(update.by)
    <2>1. d \in Accordions
        BY <1>2, <1>3, <1>4, OneBranch DEF Branch
    <2>2. e \in Around(d) /\ d # e
        BY <1>2, <1>3, <1>4, <2>1, BranchFacts
    <2>3. Around(d) \subseteq Around(update.by)
        BY <1>2, <1>3, <1>4, BranchFacts DEF Branch
    <2>4. QED BY <1>2, <1>3, <1>4, <2>1, <2>2, <2>3, TreeFacts
<1>6. /\ u # NoUpdate /\ u.by = update.by /\ u.at = Parent(e)
      /\ u.values = Sent(e, sent) /\ DOMAIN u.values = Written(e)
      /\ latestYaml' = latestYaml
      /\ \A n \in Accordions : view'[n] = IF n = e THEN kept ELSE view[n]
    BY <1>1 DEF HandedOn, Sent
<1>7. /\ \A f \in Accordion(e).holds :
           /\ taken[f] = IF f \in DOMAIN update.values THEN update.values[f] ELSE view[e][f]
           /\ sent[f] = IF f \in Accordion(e).late THEN view[e][f] ELSE taken[f]
           /\ kept[f] = IF f \in Erased(e, sent) THEN Absent ELSE taken[f]
    BY <1>1 DEF HandedOn
<1> HIDE DEF e, u
<1>8. ASSUME NEW m \in ChoicesIn(e)
      PROVE  sent[m] = view[e][m] /\ kept[m] = view[e][m]
    <2>1. m \notin Written(d)
        BY <1>2, <1>5, WrittenChoice
    <2>2. m \in Accordion(e).holds /\ m \notin Erased(e, sent)
        BY <1>2, ChoiceFacts
    <2>3. QED BY <1>4, <1>7, <2>1, <2>2
<1>9. ASSUME NEW n \in Accordions PROVE Displayed(n, view') <=> Displayed(n, view)
    <2>1. \A b \in Around(n) : \A m \in ChoicesIn(b) : view'[b][m] = view[b][m]
        BY <1>2, <1>6, <1>8, TreeFacts
    <2>2. QED BY <1>2, <2>1, SameSight
<1>10. Displayed(update.by, view) /\ Displayed(e, view)
    <2>1. Displayed(update.by, view)
        BY <1>2, <1>3 DEF EInv, EditsInv, BeginsInSight, e
    <2>2. QED BY <1>2, <1>3, <1>5, <2>1, AroundInSight
<1>11. BeginsInSight(view', u)
    BY <1>3, <1>6, <1>9, <1>10 DEF BeginsInSight
<1>12. \A n \in Accordions : \A f :
         /\ Brings(update, n, f) <=> f \in Written(d) /\ Depth(n) > Depth(e)
         /\ Brings(u, n, f) <=> f \in Written(e) /\ Depth(n) >= Depth(e)
    <2> SUFFICES ASSUME NEW n \in Accordions, NEW f
                 PROVE  /\ Brings(update, n, f) <=> f \in Written(d) /\ Depth(n) > Depth(e)
                        /\ Brings(u, n, f) <=> f \in Written(e) /\ Depth(n) >= Depth(e)
        OBVIOUS
    <2>1. Brings(update, n, f) <=> f \in Written(d) /\ Depth(n) > Depth(e)
        BY <1>2, <1>3, <1>4 DEF Brings, e
    <2>2. Depth(n) \in Nat /\ Depth(e) \in Nat
        BY <1>2, TreeFacts
    <2>3. CASE Parent(e) = "yaml"
        BY <1>2, <1>6, <2>1, <2>2, <2>3, TreeFacts DEF Brings
    <2>4. CASE Parent(e) # "yaml"
        <3>1. Parent(e) \in Accordions /\ Depth(e) = Depth(Parent(e)) + 1 /\ Depth(Parent(e)) \in Nat
            BY <1>2, <2>4, TreeFacts
        <3>2. QED BY <1>6, <2>1, <2>2, <2>4, <3>1 DEF Brings
    <2>5. QED BY <2>3, <2>4
<1>13. \A n : /\ Within(update, n) <=> n \in Branch(e)
              /\ Within(u, n) <=> n \in Around(e)
    <2>1. \A n : Within(update, n) <=> n \in Branch(e)
        BY <1>3 DEF Within, e
    <2>2. \A n : Within(u, n) <=> n \in Around(e)
        BY <1>2, <1>6, BranchFacts DEF Within, Branch
    <2>3. QED BY <2>1, <2>2
<1>14. ASSUME NEW a \in Accordions, NEW f \in Settled(a)
       PROVE  /\ InnerAgree(view', u, a, f)
              /\ OuterAgree(view', u, latestYaml', a, f)
              /\ SentOn(view', u, latestYaml', a, f)
    <2>1. /\ InnerAgree(view, update, a, f)
          /\ OuterAgree(view, update, latestYaml, a, f)
          /\ SentOn(view, update, latestYaml, a, f)
        BY <1>2 DEF EInv, EditsInv, Agree
    <2>2. /\ \A p \in Around(a) : p \in Accordions /\ Depth(p) \in Nat /\ Depth(p) < Depth(a)
          /\ Depth(a) \in Nat /\ Depth(e) \in Nat /\ e \notin Around(e)
          /\ \A x \in HoldersIn(a, f) : /\ x \in Accordions /\ x # a /\ Depth(x) \in Nat
                                        /\ Depth(a) < Depth(x) /\ f \in Accordion(x).holds
        <3>1. \A x \in Accordions : /\ Depth(x) \in Nat
                                    /\ \A p \in Around(x) : p \in Accordions /\ Depth(p) < Depth(x)
            BY <1>2, TreeFacts
        <3>2. e \notin Around(e)
            BY <1>2, BranchFacts
        <3>3. QED BY <1>2, <3>1, <3>2 DEF HoldersIn
    <2>3. f \in Accordion(e).holds => f \in Written(e) /\ f \notin Accordion(e).late
        BY <1>2, SettledFacts
    <2>4. f \in Written(d) => f \in Accordion(e).holds
        BY <1>2, <1>3, <1>4, <1>5, TreeFacts
    <2>5. CASE e = a
        <3>1. f \in Accordion(a).holds /\ f \in Written(a)
            BY <1>2, SettledFacts
        <3>2. sent[f] = taken[f]
            BY <1>7, <2>3, <2>5, <3>1
        <3>3. \A m \in ChoicesIn(a) \ Accordion(a).late : kept[m] = sent[m]
            BY <1>8, <2>5
        <3>4. kept[f] = IF f \in Erased(a, sent) THEN Absent ELSE sent[f]
            BY <1>7, <2>5, <3>1, <3>2
        <3>5. /\ Sent(a, kept)[f] = Sent(a, sent)[f]
              /\ f \in Erased(a, sent) =>
                   \A x \in HoldersIn(a, f) : \A g \in Written(x) : Unused(a, kept, g)
            BY <1>2, <3>3, <3>4, ErasedOutOfSight
        <3>6. view'[a] = kept
            BY <1>6, <2>5
        <3>7. Within(update, a) /\ ~ Within(u, a)
            BY <1>13, <2>2, <2>5 DEF Branch
        <3>8. SentOn(view', u, latestYaml', a, f)
            BY <1>6, <2>5, <3>1, <3>5, <3>6, <3>7 DEF SentOn
        <3>9. OuterAgree(view', u, latestYaml', a, f)
            <4> SUFFICES ASSUME NEW p \in Around(a)
                         PROVE  view'[p][f] = IF Brings(u, p, f) THEN u.values[f] ELSE latestYaml'[f]
                BY DEF OuterAgree
            <4>1. ~ Brings(u, p, f) /\ ~ Brings(update, p, f)
                BY <1>12, <2>2, <2>5
            <4>2. view'[p] = view[p]
                BY <1>6, <2>2, <2>5
            <4>3. QED BY <1>6, <2>1, <4>1, <4>2 DEF OuterAgree
        <3>10. InnerAgree(view', u, a, f)
            <4> SUFFICES ASSUME NEW x \in HoldersIn(a, f), Displayed(x, view')
                         PROVE  view'[x][f] = kept[f]
                BY <3>6, <3>7 DEF InnerAgree
            <4>1. Displayed(x, view) /\ view'[x] = view[x]
                BY <1>6, <1>9, <2>2, <2>5
            <4>2. view[x][f] = taken[f]
                <5>1. Brings(update, x, f) <=> f \in Written(d)
                    BY <1>12, <2>2, <2>5
                <5>2. view[x][f] = IF Brings(update, x, f) THEN update.values[f] ELSE view[a][f]
                    BY <2>1, <3>7, <4>1 DEF InnerAgree
                <5>3. QED BY <1>4, <1>7, <2>5, <3>1, <5>1, <5>2
            <4>3. f \notin Erased(a, sent)
                <5>1. \E g \in Written(x) : ~ Unused(a, kept, g)
                    BY <1>2, <3>6, InSight
                <5>2. QED BY <3>5, <5>1
            <4>4. QED BY <3>2, <3>4, <4>1, <4>2, <4>3
        <3>11. QED BY <3>8, <3>9, <3>10
    <2>6. CASE e # a /\ f \in Accordion(e).holds
        <3>1. /\ ChoicesIn(e) = {} /\ f \in Written(e) /\ (e \in Around(a) \/ a \in Around(e))
            BY <1>2, <2>6, SettledFacts
        <3>2. u.values[f] = taken[f] /\ kept[f] = taken[f]
            <4>1. /\ Accordion(e).late = {} /\ \A values : Erased(e, values) = {}
                  /\ \A values : Sent(e, values)[f] = values[f]
                BY <1>2, <2>6, <3>1, NoChoices
            <4>2. QED BY <1>6, <1>7, <2>6, <4>1
        <3>3. taken[f] = IF f \in Written(d) THEN update.values[f] ELSE view[e][f]
            BY <1>4, <1>7, <2>6
        <3>4. view'[a] = view[a] /\ view'[e] = kept
            BY <1>2, <1>6, <2>6
        <3>5. CASE a \in Around(e)
            <4>1. Within(update, a) /\ Within(u, a) /\ Depth(a) < Depth(e)
                BY <1>2, <1>13, <3>5, TreeFacts DEF Branch
            <4>2. e \in HoldersIn(a, f)
                BY <1>2, <2>6, <3>5 DEF HoldersIn
            <4>3. InnerAgree(view', u, a, f)
                <5> SUFFICES ASSUME NEW x \in HoldersIn(a, f), Displayed(x, view')
                             PROVE  view'[x][f] = IF Brings(u, x, f) THEN u.values[f] ELSE view[a][f]
                    BY <3>4, <4>1 DEF InnerAgree
                <5>1. view[x][f] = IF Brings(update, x, f) THEN update.values[f] ELSE view[a][f]
                    BY <1>9, <2>1, <2>2, <4>1 DEF InnerAgree
                <5>2. view[e][f] = view[a][f]
                    <6>1. ~ Brings(update, e, f)
                        BY <1>2, <1>12, <2>2
                    <6>2. QED BY <1>10, <2>1, <4>1, <4>2, <6>1 DEF InnerAgree
                <5>3. /\ Brings(update, x, f) <=> f \in Written(d) /\ Depth(x) > Depth(e)
                      /\ Brings(u, x, f) <=> Depth(x) >= Depth(e)
                    BY <1>12, <2>2, <3>1
                <5>4. CASE x = e
                    BY <2>2, <3>2, <3>4, <5>3, <5>4
                <5>5. CASE x # e
                    <6>1. Depth(x) # Depth(e) /\ view'[x] = view[x]
                        BY <1>2, <1>6, <2>2, <2>6, <5>5, SettledHolders
                    <6>2. CASE Depth(x) > Depth(e)
                        <7>1. Brings(u, x, f) /\ (Brings(update, x, f) <=> f \in Written(d))
                            BY <2>2, <5>3, <6>2
                        <7>2. QED BY <3>2, <3>3, <5>1, <5>2, <6>1, <7>1
                    <6>3. CASE ~ (Depth(x) > Depth(e))
                        <7>1. ~ Brings(u, x, f) /\ ~ Brings(update, x, f)
                            BY <2>2, <5>3, <6>1, <6>3
                        <7>2. QED BY <5>1, <6>1, <7>1
                    <6>4. QED BY <6>2, <6>3
                <5>6. QED BY <5>4, <5>5
            <4>4. OuterAgree(view', u, latestYaml', a, f)
                <5> SUFFICES ASSUME NEW p \in Around(a)
                             PROVE  view'[p][f] = IF Brings(u, p, f) THEN u.values[f] ELSE latestYaml'[f]
                    BY DEF OuterAgree
                <5>1. ~ Brings(u, p, f) /\ ~ Brings(update, p, f) /\ p # e
                    BY <1>12, <2>2, <4>1
                <5>2. QED BY <1>6, <2>1, <2>2, <5>1 DEF OuterAgree
            <4>5. SentOn(view', u, latestYaml', a, f)
                BY <1>6, <2>1, <3>4, <4>1 DEF SentOn
            <4>6. QED BY <4>3, <4>4, <4>5
        <3>6. CASE e \in Around(a)
            <4>1. ~ Within(update, a) /\ ~ Within(u, a)
                <5>1. a \notin Branch(e)
                    BY <1>2, <2>6, <3>6, TreeFacts DEF Branch
                <5>2. QED BY <1>13, <5>1 DEF Branch
            <4>2. taken[f] = Sent(a, view[a])[f]
                <5>1. f \notin Written(d) => view[e][f] = latestYaml[f]
                    BY <1>2, <1>12, <2>1, <3>6 DEF OuterAgree
                <5>2. Sent(a, view[a])[f] = IF f \in Written(d) THEN update.values[f] ELSE latestYaml[f]
                    BY <1>2, <1>4, <2>1, <4>1 DEF SentOn
                <5>3. QED BY <3>3, <5>1, <5>2
            <4>3. SentOn(view', u, latestYaml', a, f)
                BY <1>6, <3>1, <3>2, <3>4, <4>1, <4>2 DEF SentOn
            <4>4. OuterAgree(view', u, latestYaml', a, f)
                <5> SUFFICES ASSUME NEW p \in Around(a)
                             PROVE  view'[p][f] = IF Brings(u, p, f) THEN u.values[f] ELSE latestYaml'[f]
                    BY DEF OuterAgree
                <5>1. /\ view[p][f] = IF Brings(update, p, f) THEN update.values[f] ELSE latestYaml[f]
                      /\ view[e][f] = IF Brings(update, e, f) THEN update.values[f] ELSE latestYaml[f]
                    BY <2>1, <3>6 DEF OuterAgree
                <5>2. /\ Brings(update, p, f) <=> f \in Written(d) /\ Depth(p) > Depth(e)
                      /\ Brings(u, p, f) <=> Depth(p) >= Depth(e)
                      /\ ~ Brings(update, e, f)
                    BY <1>2, <1>12, <2>2, <3>1
                <5>3. CASE p = e
                    BY <2>2, <3>2, <3>4, <5>2, <5>3
                <5>4. CASE p # e
                    <6>1. Depth(p) # Depth(e) /\ view'[p] = view[p]
                        BY <1>2, <1>6, <2>2, <2>6, <5>4, SettledFacts, SettledHolders
                    <6>2. CASE Depth(p) > Depth(e)
                        <7>1. Brings(u, p, f) /\ (Brings(update, p, f) <=> f \in Written(d))
                            BY <2>2, <5>2, <6>2
                        <7>2. QED BY <3>2, <3>3, <5>1, <5>2, <6>1, <7>1
                    <6>3. CASE ~ (Depth(p) > Depth(e))
                        <7>1. ~ Brings(u, p, f) /\ ~ Brings(update, p, f)
                            BY <2>2, <5>2, <6>1, <6>3
                        <7>2. QED BY <1>6, <5>1, <6>1, <7>1
                    <6>4. QED BY <6>2, <6>3
                <5>5. QED BY <5>3, <5>4
            <4>5. InnerAgree(view', u, a, f)
                <5> SUFFICES ASSUME NEW x \in HoldersIn(a, f), Displayed(x, view')
                             PROVE  view'[x][f] = view[a][f]
                    BY <3>4, <4>1 DEF InnerAgree
                <5>1. view'[x] = view[x]
                    BY <1>6, <2>2, <3>6
                <5>2. QED BY <1>9, <2>1, <2>2, <4>1, <5>1 DEF InnerAgree
            <4>6. QED BY <4>3, <4>4, <4>5
        <3>7. QED BY <3>1, <3>5, <3>6
    <2>7. CASE f \notin Accordion(e).holds
        <3>1. /\ f \notin Written(d) /\ f \notin Written(e) /\ e # a
              /\ \A p \in Around(a) : p # e
              /\ \A x \in HoldersIn(a, f) : x # e
            BY <1>2, <2>2, <2>4, <2>7, TreeFacts, SettledFacts
        <3>2. \A x \in Accordions : ~ Brings(update, x, f) /\ ~ Brings(u, x, f)
            BY <1>12, <3>1
        <3>3. view'[a] = view[a]
            BY <1>6, <3>1
        <3>4. InnerAgree(view', u, a, f)
            <4> SUFFICES ASSUME NEW x \in HoldersIn(a, f), Displayed(x, view')
                         PROVE  view'[x][f] = view[a][f]
                BY <2>2, <3>2, <3>3 DEF InnerAgree
            <4>1. view'[x] = view[x] /\ Displayed(x, view) /\ ~ Brings(update, x, f)
                BY <1>6, <1>9, <2>2, <3>1, <3>2
            <4>2. QED BY <2>1, <4>1 DEF InnerAgree
        <3>5. OuterAgree(view', u, latestYaml', a, f)
            BY <1>6, <2>1, <2>2, <3>1, <3>2 DEF OuterAgree
        <3>6. SentOn(view', u, latestYaml', a, f)
            BY <1>4, <1>6, <2>1, <3>1, <3>3 DEF SentOn
        <3>7. QED BY <3>4, <3>5, <3>6
    <2>8. QED BY <2>5, <2>6, <2>7
<1>15. EditsInv(view', u, latestYaml')
    BY <1>11, <1>14 DEF EditsInv, Agree
<1>16. QED BY <1>15 DEF u

LEMMA WriteYamlEdits ==
    ASSUME Inv, EInv, WriteYaml
    PROVE  EditsInv(view', update', latestYaml')
<1>1. /\ update.at = "yaml" /\ update' = NoUpdate /\ view' = view
      /\ latestYaml' = [f \in DOMAIN latestYaml |->
                          IF f \in DOMAIN update.values THEN update.values[f] ELSE latestYaml[f]]
    BY DEF WriteYaml
<1>2. /\ form \in DOMAIN Forms /\ update # NoUpdate /\ dialog = "form" /\ DOMAIN latestYaml = Fields
    <2>1. update # NoUpdate
        BY <1>1 DEF NoUpdate
    <2>2. QED BY <2>1 DEF Inv, Idle
<1>3. ASSUME NEW a \in Accordions, NEW f \in Settled(a)
      PROVE  /\ InnerAgree(view', update', a, f)
             /\ OuterAgree(view', update', latestYaml', a, f)
             /\ SentOn(view', update', latestYaml', a, f)
    <2>1. /\ InnerAgree(view, update, a, f)
          /\ OuterAgree(view, update, latestYaml, a, f)
          /\ SentOn(view, update, latestYaml, a, f)
        BY <1>2 DEF EInv, EditsInv, Agree
    <2>2. latestYaml'[f] = IF f \in DOMAIN update.values THEN update.values[f] ELSE latestYaml[f]
        BY <1>1, <1>2, SettledFacts
    <2>3. /\ ~ Within(update, a)
          /\ \A n : /\ Brings(update, n, f) <=> f \in DOMAIN update.values
                    /\ ~ Brings(update', n, f)
        BY <1>1, <1>2 DEF Within, Brings, NoUpdate
    <2>4. InnerAgree(view', update', a, f)
        BY <1>1, <2>1, <2>3 DEF InnerAgree
    <2>5. OuterAgree(view', update', latestYaml', a, f)
        BY <1>1, <2>1, <2>2, <2>3 DEF OuterAgree
    <2>6. SentOn(view', update', latestYaml', a, f)
        BY <1>1, <1>2, <2>1, <2>2, <2>3 DEF SentOn
    <2>7. QED BY <2>4, <2>5, <2>6
<1>4. BeginsInSight(view', update')
    BY <1>1 DEF BeginsInSight
<1>5. QED BY <1>3, <1>4 DEF EditsInv, Agree

(* A form that is mounted agrees with the YAML it is mounted on.                *)
LEMMA MountEdits ==
    ASSUME form \in DOMAIN Forms, NEW yaml, DOMAIN yaml = Fields,
           \A n \in Accordions : \A m \in ChoicesIn(n) : OneOf(yaml, n, m)
    PROVE  EditsInv(ViewOn(yaml), MountedSends(yaml), yaml)
<1> DEFINE u == MountedSends(yaml)
           o == Outermost
           own == Mounted(Outermost, yaml)
           copies == ViewOn(yaml)
<1>1. o \in Accordions /\ Parent(o) = "yaml" /\ Around(o) = {}
    <2>1. Outermost \in Accordions /\ Accordion(Outermost).in = <<>>
        BY TreeFacts
    <2>2. Parent(Outermost) = "yaml"
        BY <2>1 DEF Parent
    <2>3. QED BY <2>1, <2>2, BranchFacts
<1>2. \A n \in Accordions : copies[n] = Mounted(n, yaml)
    BY DEF ViewOn
<1>3. own = copies[o]
    BY <1>1, <1>2
<1> HIDE DEF own, copies
<1>4. /\ u # NoUpdate /\ u.at = "yaml" /\ u.values = Sent(o, own)
      /\ DOMAIN u.values = Written(o)
    BY <1>1, SentFacts DEF MountedSends, own
<1> HIDE DEF u, o
<1>5. BeginsInSight(copies, u)
    BY <1>4 DEF BeginsInSight
<1>6. ASSUME NEW a \in Accordions, NEW f \in Settled(a)
      PROVE  /\ InnerAgree(copies, u, a, f)
             /\ OuterAgree(copies, u, yaml, a, f)
             /\ SentOn(copies, u, yaml, a, f)
    <2>1. \A d \in Accordions : f \in Accordion(d).holds /\ d # a => copies[d][f] = yaml[f]
        <3> SUFFICES ASSUME NEW d \in Accordions, f \in Accordion(d).holds, d # a
                     PROVE  copies[d][f] = yaml[f]
            OBVIOUS
        <3>1. ChoicesIn(d) = {}
            BY SettledFacts
        <3>2. QED BY <1>2, <3>1, NoChoices
    <2>2. ~ Within(u, a)
        BY <1>4 DEF Within
    <2>3. /\ Sent(a, copies[a])[f] = yaml[f]
          /\ \A d \in HoldersIn(a, f) : \A g \in Written(d) :
               ~ Unused(a, copies[a], g) => copies[a][f] = yaml[f]
        BY <1>2, MountSettled
    <2>4. f \in DOMAIN u.values => u.values[f] = yaml[f]
        <3> SUFFICES ASSUME f \in Written(o) PROVE u.values[f] = yaml[f]
            BY <1>4
        <3>1. f \in Accordion(o).holds
            BY <1>1, TreeFacts
        <3>2. CASE o = a
            BY <1>3, <1>4, <2>3, <3>2
        <3>3. CASE o # a
            <4>1. ChoicesIn(o) = {}
                BY <1>1, <3>1, <3>3, SettledFacts
            <4>2. Sent(o, own)[f] = own[f]
                BY <1>1, <3>1, <4>1, NoChoices
            <4>3. QED BY <1>1, <1>3, <1>4, <2>1, <3>1, <3>3, <4>2
        <3>4. QED BY <3>2, <3>3
    <2>5. InnerAgree(copies, u, a, f)
        <3> SUFFICES ASSUME NEW d \in HoldersIn(a, f), Displayed(d, copies)
                     PROVE  copies[d][f] = copies[a][f]
            BY <2>2 DEF InnerAgree
        <3>1. copies[a][f] = yaml[f]
            BY <2>3, InSight
        <3>2. d \in Accordions /\ d # a /\ f \in Accordion(d).holds
            BY BranchFacts DEF HoldersIn
        <3>3. QED BY <2>1, <3>1, <3>2
    <2>6. OuterAgree(copies, u, yaml, a, f)
        <3> SUFFICES ASSUME NEW p \in Around(a) PROVE copies[p][f] = yaml[f]
            BY <2>4 DEF OuterAgree, Brings
        <3>1. p \in Accordions /\ p # a /\ f \in Accordion(p).holds
            BY BranchFacts, SettledFacts
        <3>2. QED BY <2>1, <3>1
    <2>7. SentOn(copies, u, yaml, a, f)
        BY <2>3, <2>4 DEF SentOn
    <2>8. QED BY <2>5, <2>6, <2>7
<1>7. QED BY <1>5, <1>6 DEF EditsInv, Agree, u, copies

LEMMA InitEdits == FormInit => EInv
<1> SUFFICES ASSUME FormInit PROVE EInv
    OBVIOUS
<1>1. view = ViewOn(latestYaml) /\ update = MountedSends(latestYaml)
    BY DEF FormInit
<1>2. form \in DOMAIN Forms /\ DOMAIN latestYaml = Fields
    BY InitInv DEF Inv
<1>3. \A n \in Accordions : \A m \in ChoicesIn(n) : OneOf(latestYaml, n, m)
    BY InitChoices DEF CInv, ChoiceInv, OneSource
<1>4. QED BY <1>1, <1>2, <1>3, MountEdits DEF EInv

LEMMA NextEdits == Inv /\ CInv /\ EInv /\ [FormNext]_formVars => EInv'
<1> SUFFICES ASSUME Inv, CInv, EInv, [FormNext]_formVars PROVE EInv'
    OBVIOUS
<1>1. form' = form
    BY DEF FormNext, formVars, Type, Choose, Change, OnUpdate, WriteYaml, ShowYaml, ShowForm,
           Save, Cancel, Open, EditYaml
<1>2. CASE UNCHANGED formVars
    BY <1>1, <1>2, EditsInvOfNext DEF formVars, EInv
<1>3. ASSUME NEW n \in Accordions, NEW f \in Accordion(n).edits, Type(n, f) PROVE EInv'
    <2>1. form \in DOMAIN Forms
        BY DEF Inv
    <2>2. PICK v : MayChange /\ Change(n, f, v)
        BY <1>3 DEF Type
    <2>3. InUse(n, f)
        BY <2>2 DEF Change
    <2>4. f \in Written(n)
        <3>1. f \in Accordion(n).holds /\ f \notin Unwritten(n)
            BY <2>1, TreeFacts, ChoiceFacts
        <3>2. QED BY <3>1 DEF Written
    <2>5. Displayed(n, view)
        BY <2>3, <2>4 DEF InUse, Displayed
    <2>6. QED BY <1>1, <1>3, <2>2, <2>5, ChangeEdits, EditsInvOfNext
<1>4. ASSUME NEW n \in Accordions, NEW m \in ChoicesIn(n), Choose(n, m) PROVE EInv'
    <2>1. PICK v : MayChange /\ Displayed(n, view) /\ Change(n, m, v)
        BY <1>4 DEF Choose
    <2>2. QED BY <1>1, <1>4, <2>1, ChangeEdits, EditsInvOfNext
<1>5. CASE OnUpdate \/ WriteYaml
    BY <1>1, <1>5, OnUpdateEdits, WriteYamlEdits, EditsInvOfNext
<1>6. CASE ShowYaml \/ Save \/ Cancel \/ \E f \in Fields : EditYaml(f)
    <2>1. dialog' # "form"
        BY <1>6 DEF ShowYaml, Save, Cancel, EditYaml
    <2>2. QED BY <1>1, <2>1, EditsInvOfNext
<1>7. CASE ShowForm \/ Open
    <2>1. PICK yaml : /\ latestYaml' = yaml /\ yaml \in {latestYaml, resource}
                      /\ view' = ViewOn(yaml) /\ update' = MountedSends(yaml)
        BY <1>7 DEF ShowForm, Open, MountForm
    <2>2. /\ form \in DOMAIN Forms /\ DOMAIN yaml = Fields
          /\ \A n \in Accordions : \A m \in ChoicesIn(n) : OneOf(yaml, n, m)
        BY <2>1 DEF Inv, CInv, ChoiceInv, OneSource
    <2>3. EditsInv(view', update', latestYaml')
        BY <2>1, <2>2, MountEdits
    <2>4. QED BY <1>1, <2>3, EditsInvOfNext
<1>8. QED BY <1>2, <1>3, <1>4, <1>5, <1>6, <1>7 DEF FormNext

LEMMA EditsHold == FormSpec => [](Inv /\ EInv)
<1>1. FormInit => Inv /\ CInv /\ EInv
    BY InitInv, InitChoices, InitEdits
<1>2. Inv /\ CInv /\ EInv /\ [FormNext]_formVars => (Inv /\ CInv /\ EInv)'
    BY NextInv, NextChoices, NextEdits
<1>3. QED BY <1>1, <1>2, PTL DEF FormSpec

\* A field with a control that no choice decides on is a plain one.
LEMMA PlainEdits ==
    ASSUME form \in DOMAIN Forms, NEW n \in Accordions, NEW f \in Accordion(n).edits,
           \A a \in Accordions : \A m \in ChoicesIn(a) : f \notin Belongs(a, m)
    PROVE  f \in PlainFields
<1>1. f \in Accordion(n).holds /\ f \notin Unwritten(n)
    BY TreeFacts, ChoiceFacts
<1>2. f \in FieldsOf[form]
    BY <1>1, TreeFacts DEF Written, Fields
<1>3. ASSUME NEW d \in Accordions PROVE IsPlain(Accordion(d), f)
    <2>1. ChoicesAreLocal(Forms[form]) /\ HiddenTogether(Forms[form])
        BY ChoicesAssumption
    <2>2. f \notin ChoicesIn(d)
        BY <1>1, ChoiceFacts
    <2>3. f \notin Unwritten(d) /\ f \notin Accordion(d).late
        BY <2>2, ChoiceFacts
    <2>4. f \notin Accordion(d).blanks
        BY <2>1 DEF HiddenTogether, ChoicesAreLocal, Accordions, Accordion, Belongs, ChoicesIn
    <2>5. \A m \in DOMAIN Accordion(d).erases : \A c \in DOMAIN Accordion(d).erases[m] :
            f \notin Accordion(d).erases[m][c]
        BY <2>1 DEF ChoicesAreLocal, Accordions, Accordion, Belongs, ChoicesIn
    <2>6. \A g \in DOMAIN Accordion(d).rederives : f \notin Accordion(d).rederives[g]
        BY <2>3, ChoiceFacts DEF Rederived
    <2>7. QED BY <2>2, <2>3, <2>4, <2>5, <2>6 DEF IsPlain, Unwritten, ChoicesIn, Belongs
<1>4. QED BY <1>2, <1>3 DEF PlainFields, PlainFieldsOf, Accordions, Accordion

(* What was typed into a control of an option that is chosen is in the YAML     *)
(* once the calls have returned, whatever was chosen, typed or taken back       *)
(* before, in this accordion or another, and however often the form was left    *)
(* for the YAML: no accordion sends an older copy, or one of another option.    *)
THEOREM ChosenTextReachesYaml == FormSpec => []ChosenEditsReachYaml
<1>1. Inv /\ EInv => ChosenEditsReachYaml
    <2> SUFFICES ASSUME Inv, EInv, dialog = "form", Idle, NEW n \in Accordions,
                        NEW f \in Accordion(n).edits, InUse(n, f), ~ DependsOnLate(f)
                 PROVE  latestYaml[f] = view[n][f]
        BY DEF ChosenEditsReachYaml
    <2>1. form \in DOMAIN Forms /\ f \in Accordion(n).holds
        BY TreeFacts DEF Inv
    <2>2. CASE \A a \in Accordions : \A m \in ChoicesIn(a) : f \notin Belongs(a, m)
        <3>1. f \in PlainFields
            BY <2>1, <2>2, PlainEdits
        <3>2. QED BY <2>1, <3>1 DEF Inv, Idle, CopiesAgree, Brings
    <2>3. ASSUME NEW a \in Accordions, NEW m \in ChoicesIn(a), f \in Belongs(a, m)
          PROVE  latestYaml[f] = view[n][f]
        <3>1. f \in Settled(a)
            BY <2>1, <2>3, DecidedFacts DEF Settled
        <3>2. /\ InnerAgree(view, update, a, f)
              /\ SentOn(view, update, latestYaml, a, f)
            BY <3>1 DEF EInv, EditsInv, Agree
        <3>3. f \in Written(a) /\ f \in Written(n) /\ (n = a \/ a \in Around(n))
            BY <2>1, <3>1, SettledFacts
        <3>4. ~ Unused(a, view[a], f)
            BY <3>3 DEF InUse
        <3>5. latestYaml[f] = view[a][f]
            BY <3>2, <3>3, <3>4 DEF SentOn, Sent, Idle
        <3>6. a \in Around(n) => view[n][f] = view[a][f]
            <4>1. Displayed(n, view)
                BY <3>3 DEF InUse, Displayed
            <4>2. QED BY <2>1, <3>2, <4>1 DEF InnerAgree, HoldersIn, Brings, Idle
        <3>7. QED BY <3>3, <3>5, <3>6
    <2>4. QED BY <2>2, <2>3
<1>2. QED BY <1>1, EditsHold, PTL
=============================================================================
