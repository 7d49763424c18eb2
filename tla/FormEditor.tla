----------------------------- MODULE FormEditor -----------------------------
(***************************************************************************)
(* The dialog that edits one resource of a package, with the form editors  *)
(* of its kind (ResourceEditorDialog and FirstClassEditors).  A form is a  *)
(* tree of accordions.  Every accordion keeps a copy of the part of the    *)
(* resource it edits, taken when it is mounted; typing changes that copy   *)
(* and sends it to the accordion around it, which takes it into its own    *)
(* copy and sends that on, until the editor itself writes the YAML of the  *)
(* dialog.  These calls are nested and synchronous, so the user does       *)
(* nothing while an update is on its way.                                  *)
(*                                                                         *)
(* The data of the forms, which accordion edits what, is EditorForms; this *)
(* module is what they have in common.                                     *)
(***************************************************************************)
EXTENDS Naturals, Sequences

CONSTANTS Forms,   \* form name -> its accordions, name -> accordion
          Texts,   \* form name -> what the user may type as the i-th change
          Absent,  \* the value of a field the resource does not have
          Read,    \* the value a field has in the resource as it was read
          Blank    \* what some copies hold of a field the resource lacks

VARIABLES form,       \* the form the resource is edited with
          view,       \* accordion -> field -> value: the copies
          update,     \* the call of onUpdate that has not returned
          latestYaml, \* field -> value: the YAML of the dialog
          resource,   \* field -> value: the resource of the package
          dialog,     \* what is shown: the form, the YAML or nothing
          changes     \* the number of changes made so far

formVars == <<form, view, update, latestYaml, resource, dialog, changes>>

MaxChanges == Len(Texts[form])

Accordions == DOMAIN Forms[form]
Accordion(n) == Forms[form][n]
Around(n) == {Accordion(n).in[i] : i \in DOMAIN Accordion(n).in}
Outermost == CHOOSE n \in Accordions : Accordion(n).in = <<>>
\* the accordion, or the dialog, that gets what n sends
Parent(n) == IF Accordion(n).in = <<>> THEN "yaml"
             ELSE Accordion(n).in[Len(Accordion(n).in)]

\* Fields an accordion holds but never sends: which of several sources is
\* chosen, as far as the resource says so only by the source it has.
Unwritten(n) == DOMAIN Accordion(n).default
Written(n) == Accordion(n).holds \ Unwritten(n)
FieldsOf ==
  [f \in DOMAIN Forms |->
     UNION {Forms[f][n].holds \ DOMAIN Forms[f][n].default : n \in DOMAIN Forms[f]}]
Fields == FieldsOf[form]

\* The fields a choice decides on: those of one option of it at most are sent.
Decides(a, m) == UNION {a.choice[m][c] : c \in DOMAIN a.choice[m]}

\* Fields that depend on no choice and are sent as they are.
IsPlain(a, f) ==
  /\ f \notin a.late \cup DOMAIN a.choice \cup DOMAIN a.default \cup a.blanks
  /\ \A m \in DOMAIN a.choice : f \notin Decides(a, m)
  /\ \A m \in DOMAIN a.erases : \A c \in DOMAIN a.erases[m] : f \notin a.erases[m][c]
  /\ \A g \in DOMAIN a.rederives : f \notin a.rederives[g]
PlainFieldsOf ==
  [g \in DOMAIN Forms |-> {f \in FieldsOf[g] : \A n \in DOMAIN Forms[g] : IsPlain(Forms[g][n], f)}]
PlainFields == PlainFieldsOf[form]

Depth(n) == Len(Accordion(n).in)

(***************************************************************************)
(* What the forms have in common.  Their accordions are the nodes of a     *)
(* tree, and what one sends the ones around it hold.  A plain field is     *)
(* held once at each level of the tree at most, and typed into where it is *)
(* held deepest.                                                           *)
(***************************************************************************)
IsTree(accordions) ==
  /\ DOMAIN accordions \cap {"yaml", "none"} = {}
  /\ \E n \in DOMAIN accordions : accordions[n].in = <<>>
  /\ \A n \in DOMAIN accordions :
       LET path == accordions[n].in
       IN  /\ path \in Seq(DOMAIN accordions)
           /\ \A i \in DOMAIN path : accordions[path[i]].in = SubSeq(path, 1, i - 1)

HoldsWhatIsSent(accordions) ==
  \A n \in DOMAIN accordions :
    /\ accordions[n].edits \subseteq accordions[n].holds
    /\ \A i \in DOMAIN accordions[n].in :
         accordions[n].holds \ DOMAIN accordions[n].default \subseteq accordions[accordions[n].in[i]].holds

HeldOncePerLevel(accordions, f) ==
  LET holders == {n \in DOMAIN accordions : f \in accordions[n].holds}
      IsTyped(n, g) == g = f \/ (g \in DOMAIN accordions[n].sets /\ f \in accordions[n].sets[g])
  IN  /\ \A n, m \in holders : Len(accordions[n].in) = Len(accordions[m].in) => n = m
      /\ \A n \in DOMAIN accordions : \A g \in accordions[n].edits \cup DOMAIN accordions[n].choice :
           IsTyped(n, g) => /\ g \notin accordions[n].late
                            /\ \A m \in holders : Len(accordions[m].in) <= Len(accordions[n].in)

ASSUME FormsAssumption ==
  \A f \in DOMAIN Forms :
    /\ IsTree(Forms[f])
    /\ HoldsWhatIsSent(Forms[f])
    /\ \A x \in PlainFieldsOf[f] : HeldOncePerLevel(Forms[f], x)
    /\ Len(Texts[f]) \in Nat

(***************************************************************************)
(* Choices.  One accordion alone holds a choice, and only making it sets   *)
(* it.  The fields it decides on are held along one branch of the tree and *)
(* typed in no accordion around.  What a copy loses is not sent either.    *)
(***************************************************************************)
LiesIn(accordions, d, n) == \E i \in DOMAIN accordions[d].in : accordions[d].in[i] = n
Sets(a, f) == \E g \in DOMAIN a.sets : f \in a.sets[g]

ChoicesAreLocal(accordions) ==
  \A n \in DOMAIN accordions :
    LET a == accordions[n]
    IN  /\ DOMAIN a.default \subseteq DOMAIN a.choice
        /\ a.late \subseteq DOMAIN a.default
        /\ \A g \in DOMAIN a.rederives : g \notin a.late /\ a.rederives[g] \subseteq DOMAIN a.default
        /\ \A m \in DOMAIN a.choice :
             /\ DOMAIN a.choice[m] # {}
             /\ m \in a.holds \ a.edits /\ m \notin a.blanks /\ ~ Sets(a, m)
             /\ \A d \in DOMAIN accordions :
                  /\ m \in accordions[d].holds \cup DOMAIN accordions[d].choice => d = n
                  /\ \A k \in DOMAIN accordions[d].choice : m \notin Decides(accordions[d], k)
        /\ \A m \in DOMAIN a.default :
             /\ a.default[m] \in DOMAIN a.choice[m]
             /\ \A c, e \in DOMAIN a.choice[m] : c # e => a.choice[m][c] \cap a.choice[m][e] = {}
        /\ DOMAIN a.erases \subseteq DOMAIN a.choice
        /\ \A m \in DOMAIN a.erases : \A c \in DOMAIN a.erases[m] :
             /\ c \in DOMAIN a.choice[m]
             /\ a.erases[m][c] \subseteq Decides(a, m) \ a.choice[m][c]

DecidedOnOneBranch(accordions) ==
  \A n \in DOMAIN accordions : \A m \in DOMAIN accordions[n].choice :
    \A f \in Decides(accordions[n], m) :
      /\ f \in accordions[n].holds
      /\ \A d \in DOMAIN accordions : f \in accordions[d].holds =>
           d = n \/ LiesIn(accordions, n, d) \/ LiesIn(accordions, d, n)
      /\ \A d \in DOMAIN accordions : LiesIn(accordions, n, d) =>
           f \notin accordions[d].edits \cup accordions[d].blanks /\ ~ Sets(accordions[d], f)

\* Choices are nested only where the outer one is late, shows the accordion
\* with the inner ones, and is itself in none.
NestedInLateChoices(accordions) ==
  \A n, d \in DOMAIN accordions :
    LiesIn(accordions, n, d) /\ DOMAIN accordions[n].choice # {} /\ DOMAIN accordions[d].choice # {} =>
      /\ d = accordions[n].in[Len(accordions[n].in)]
      /\ accordions[n].late = {}
      /\ accordions[n].holds \ DOMAIN accordions[n].default
           \subseteq UNION {Decides(accordions[d], m) : m \in accordions[d].late}

\* What the accordions in n show of a field that n's copy loses, or holds as
\* Blank, goes out of sight with it.
HiddenTogether(accordions) ==
  \A n \in DOMAIN accordions :
    LET a == accordions[n]
        sentBy(d) == accordions[d].holds \ DOMAIN accordions[d].default
        inner(f) == {d \in DOMAIN accordions : LiesIn(accordions, d, n) /\ f \in accordions[d].holds}
    IN  /\ \A m \in DOMAIN a.erases : \A c \in DOMAIN a.erases[m] : \A f \in a.erases[m][c] :
             \A d \in inner(f) : sentBy(d) \subseteq Decides(a, m) \ a.choice[m][c]
        /\ \A f \in a.blanks :
             /\ \E m \in DOMAIN a.default :
                  /\ f \in Decides(a, m)
                  /\ \A c \in DOMAIN a.choice[m] :
                       f \in a.choice[m][c] => a.choice[m][c] = {f} /\ a.default[m] # c
             /\ \A d \in inner(f) : sentBy(d) = {f}

ASSUME ChoicesAssumption ==
  \A f \in DOMAIN Forms :
    /\ ChoicesAreLocal(Forms[f])
    /\ DecidedOnOneBranch(Forms[f])
    /\ NestedInLateChoices(Forms[f])
    /\ HiddenTogether(Forms[f])
    /\ \A n \in DOMAIN Forms[f] : \A m \in DOMAIN Forms[f][n].choice :
         \A x \in Decides(Forms[f][n], m) : HeldOncePerLevel(Forms[f], x)

-----------------------------------------------------------------------------
(* What an accordion makes of its fields: the ones that belong to another   *)
(* choice than the one made are left out.                                   *)

ChoicesIn(n) == DOMAIN Accordion(n).choice
Belongs(n, m) == Decides(Accordion(n), m)
Unused(n, values, f) ==
  \E m \in ChoicesIn(n) : f \in Belongs(n, m) \ Accordion(n).choice[m][values[m]]

InUse(n, f) == \A a \in Around(n) \cup {n} : ~ Unused(a, view[a], f)
Displayed(n, views) ==
  \E f \in Written(n) : \A a \in Around(n) : ~ Unused(a, views[a], f)

\* Mutants of Sent: the choices are sent, too; everything is sent whatever is
\* chosen; what is left out is what the choice made before leaves out.
SentWithChoices(n, values) ==
  [f \in Accordion(n).holds |-> IF Unused(n, values, f) THEN Absent ELSE values[f]]
SentUnnormalized(n, values) == [f \in Written(n) |-> values[f]]
SentByEarlierChoice(n, values) ==
  [f \in Written(n) |-> IF Unused(n, view[n], f) THEN Absent ELSE values[f]]

Sent(n, values) ==
  [f \in Written(n) |-> IF Unused(n, values, f) THEN Absent ELSE values[f]]

\* the normalisation works on objects the copy shares: they lose the field too
Erased(n, values) ==
  UNION {Accordion(n).erases[m][values[m]] :
           m \in {k \in DOMAIN Accordion(n).erases : values[k] \in DOMAIN Accordion(n).erases[k]}}

\* Mutant of ChoiceFor: it does not look at the resource.
ChoiceByDefault(n, m, values) == Accordion(n).default[m]

\* the source that is chosen when an accordion is mounted on values
ChoiceFor(n, m, values) ==
  LET present == {c \in DOMAIN Accordion(n).choice[m] :
                    \E f \in Accordion(n).choice[m][c] : values[f] # Absent}
  IN  IF present = {} THEN Accordion(n).default[m] ELSE CHOOSE c \in present : TRUE

Mounted(n, values) ==
  [f \in Accordion(n).holds |->
     IF f \in Unwritten(n) THEN ChoiceFor(n, f, values)
     ELSE IF f \in Accordion(n).blanks /\ values[f] = Absent THEN Blank
     ELSE values[f]]

-----------------------------------------------------------------------------
NoUpdate == [at |-> "none"]

ViewOn(values) == [n \in Accordions |-> Mounted(n, values)]

\* n sends its values because its field f was changed
SentBy(n, f, values) ==
  [at |-> Parent(n), values |-> Sent(n, values), by |-> n, field |-> f]

\* the effect of the editor runs when it is mounted, too
MountedSends(values) == SentBy(Outermost, "none", Mounted(Outermost, values))

MountForm(values) ==
  /\ view' = ViewOn(values)
  /\ update' = MountedSends(values)

\* A resource as it may be read: it has one of the sources of each choice,
\* and of one choice any of them.
ResourceOf(f, chosen) ==
  [x \in FieldsOf[f] |->
     IF x \in DOMAIN chosen THEN chosen[x]
     ELSE IF \E n \in DOMAIN Forms[f] : \E m \in DOMAIN Forms[f][n].choice :
               /\ x \in Decides(Forms[f][n], m)
               /\ x \notin Forms[f][n].choice[m][chosen[m]]
          THEN Absent ELSE Read]

ChoicesOf(f) == UNION {DOMAIN Forms[f][n].choice : n \in DOMAIN Forms[f]}
OptionsOf(f, m) == UNION {DOMAIN Forms[f][n].choice[m] :
                            n \in {k \in DOMAIN Forms[f] : m \in DOMAIN Forms[f][k].choice}}
Resources(f) ==
  LET first == [m \in ChoicesOf(f) |-> CHOOSE c \in OptionsOf(f, m) : TRUE]
  IN  {ResourceOf(f, first)}
        \cup UNION {{ResourceOf(f, [first EXCEPT ![m] = c]) : c \in OptionsOf(f, m)} :
                      m \in ChoicesOf(f)}

FormInit ==
  /\ form \in DOMAIN Forms
  /\ resource \in Resources(form)
  /\ latestYaml = resource
  /\ view = ViewOn(resource)
  /\ update = MountedSends(resource)
  /\ dialog = "form"
  /\ changes = 0

-----------------------------------------------------------------------------
Idle == update = NoUpdate

\* The accordions that come into sight with a choice are mounted then.
Remounted(n, views) ==
  [d \in Accordions |->
     IF n \in Around(d) /\ Displayed(d, views) /\ ~ Displayed(d, view)
     THEN Mounted(d, views[n]) ELSE views[d]]

\* what a control sets besides its own field
Follows(n, f) == IF f \in DOMAIN Accordion(n).sets THEN Accordion(n).sets[f] ELSE {}
Rederived(n, f) == IF f \in DOMAIN Accordion(n).rederives THEN Accordion(n).rederives[f] ELSE {}

\* Typing v into the control of f: what is sent is the copy as it is now, or
\* as it was before for a field kept with useState.
Change(n, f, v) ==
  LET typed == [g \in Accordion(n).holds |->
                  IF g = f \/ g \in Follows(n, f) THEN v
                  ELSE IF g \in Rederived(n, f) THEN ChoiceFor(n, g, view[n])
                  ELSE view[n][g]]
      sent == IF f \in Accordion(n).late THEN view[n] ELSE typed
      kept == [g \in Accordion(n).holds |-> IF g \in Erased(n, sent) THEN Absent ELSE typed[g]]
  IN  /\ InUse(n, f)
      /\ v # view[n][f]
      /\ view' = Remounted(n, [view EXCEPT ![n] = kept])
      /\ update' = SentBy(n, f, sent)
      /\ changes' = changes + 1
      /\ UNCHANGED <<form, latestYaml, resource, dialog>>

MayChange == dialog = "form" /\ Idle /\ changes < MaxChanges
Type(n, f) == MayChange /\ \E v \in Texts[form][changes + 1] : Change(n, f, v)
Choose(n, m) ==
  /\ MayChange /\ Displayed(n, view)
  /\ \E c \in DOMAIN Accordion(n).choice[m] : Change(n, m, c)

\* Mutant of OnUpdate: what is sent on is not kept.
OnUpdateNotKept ==
  LET n == update.at
      taken == [f \in Accordion(n).holds |->
                  IF f \in DOMAIN update.values THEN update.values[f] ELSE view[n][f]]
  IN  /\ update.at \in Accordions
      /\ update' = [update EXCEPT !.at = Parent(n), !.values = Sent(n, taken)]
      /\ UNCHANGED <<form, view, latestYaml, resource, dialog, changes>>

\* The accordion around takes what it is sent and sends its own copy on.
OnUpdate ==
  LET n == update.at
      taken == [f \in Accordion(n).holds |->
                  IF f \in DOMAIN update.values THEN update.values[f] ELSE view[n][f]]
      sent == [f \in Accordion(n).holds |->
                 IF f \in Accordion(n).late THEN view[n][f] ELSE taken[f]]
      kept == [f \in Accordion(n).holds |->
                 IF f \in Erased(n, sent) THEN Absent ELSE taken[f]]
  IN  /\ update.at \in Accordions
      /\ view' = [view EXCEPT ![n] = kept]
      /\ update' = [update EXCEPT !.at = Parent(n), !.values = Sent(n, sent)]
      /\ UNCHANGED <<form, latestYaml, resource, dialog, changes>>

\* the effect of the editor: it writes its state over the YAML it was given
WriteYaml ==
  /\ update.at = "yaml"
  /\ latestYaml' = [f \in DOMAIN latestYaml |->
                      IF f \in DOMAIN update.values THEN update.values[f] ELSE latestYaml[f]]
  /\ update' = NoUpdate
  /\ UNCHANGED <<form, view, resource, dialog, changes>>

-----------------------------------------------------------------------------
(* The dialog.  Its YAML view takes the place of the form, which is mounted *)
(* again on the YAML when the user returns to it.                           *)

ShowYaml ==
  /\ dialog = "form" /\ Idle
  /\ dialog' = "yaml"
  /\ UNCHANGED <<form, view, update, latestYaml, resource, changes>>

EditYaml(f) ==
  /\ dialog = "yaml" /\ changes < MaxChanges
  /\ f \notin ChoicesOf(form) /\ latestYaml[f] \notin {Absent, Blank}
  /\ \E v \in Texts[form][changes + 1] : latestYaml' = [latestYaml EXCEPT ![f] = v]
  /\ changes' = changes + 1
  /\ UNCHANGED <<form, view, update, resource, dialog>>

ShowForm ==
  /\ dialog = "yaml"
  /\ dialog' = "form"
  /\ MountForm(latestYaml)
  /\ UNCHANGED <<form, latestYaml, resource, changes>>

Save ==
  /\ dialog \in {"form", "yaml"} /\ Idle
  /\ resource' = latestYaml
  /\ dialog' = "closed"
  /\ UNCHANGED <<form, view, update, latestYaml, changes>>

Cancel ==
  /\ dialog \in {"form", "yaml"} /\ Idle
  /\ dialog' = "closed"
  /\ UNCHANGED <<form, view, update, latestYaml, resource, changes>>

\* the state of the dialog is reset before the form is mounted
Open ==
  /\ dialog = "closed"
  /\ dialog' = "form"
  /\ latestYaml' = resource
  /\ MountForm(resource)
  /\ UNCHANGED <<form, resource, changes>>

FormNext ==
  \/ \E n \in Accordions : \E f \in Accordion(n).edits : Type(n, f)
  \/ \E n \in Accordions : \E m \in ChoicesIn(n) : Choose(n, m)
  \/ OnUpdate \/ WriteYaml
  \/ ShowYaml \/ ShowForm \/ Save \/ Cancel \/ Open
  \/ \E f \in Fields : EditYaml(f)

FormSpec == FormInit /\ [][FormNext]_formVars

-----------------------------------------------------------------------------
(* Properties                                                               *)

\* The types of the variables.
FormTypeOK ==
  /\ form \in DOMAIN Forms
  /\ DOMAIN view = Accordions
  /\ \A n \in Accordions : DOMAIN view[n] = Accordion(n).holds
  /\ DOMAIN latestYaml = Fields
  /\ DOMAIN resource = Fields
  /\ dialog \in {"form", "yaml", "closed"}
  /\ changes \in 0 .. MaxChanges
  /\ \/ Idle
     \/ /\ dialog = "form"
        /\ update.by \in Accordions
        /\ update.at \in Accordions \cup {"yaml"}
        /\ DOMAIN update.values
             \subseteq IF update.at = "yaml" THEN Fields ELSE Accordion(update.at).holds

\* What was typed into a control is in the YAML once the calls have returned,
\* whatever was typed elsewhere since: no accordion sends an older copy of it.
PlainEditsReachYaml ==
  dialog = "form" /\ Idle =>
    \A n \in Accordions : \A f \in Accordion(n).edits \cap PlainFields :
      latestYaml[f] = view[n][f]

\* An update changes the field that was typed, and what the control sets with
\* it: the other fields stay as they are in the YAML.  Mounting a form changes
\* none.
OnlyTypedFieldsChange ==
  [][WriteYaml =>
       \A f \in PlainFields :
         \/ latestYaml'[f] = latestYaml[f]
         \/ f = update.field \/ f \in Follows(update.by, update.field)]_formVars

LateChoices(n) == ChoicesIn(n) \cap Accordion(n).late
DependsOnLate(f) == \E n \in Accordions : \E m \in LateChoices(n) : f \in Belongs(n, m)

\* The same of the fields of the options that are chosen, unless a choice is
\* sent with the next change only.
ChosenEditsReachYaml ==
  dialog = "form" /\ Idle =>
    \A n \in Accordions : \A f \in Accordion(n).edits :
      InUse(n, f) /\ ~ DependsOnLate(f) /\ f \notin Accordion(n).late
        => latestYaml[f] = view[n][f]

\* A choice that is late is sent with the next change made in its accordion or
\* in one it contains, together with that change.
LateChoicesFollow ==
  [][WriteYaml =>
       \A n \in Around(update.by) \cup {update.by} :
         LateChoices(n) # {} /\ update.field \notin LateChoices(n)
           => \A f \in Written(n) : latestYaml'[f] = Sent(n, view[n])[f]]_formVars

\* The YAML never holds the sources of two options at once.
OneSourceOnly ==
  \A n \in Accordions : \A m \in ChoicesIn(n) :
    \E c \in DOMAIN Accordion(n).choice[m] :
      \A f \in Belongs(n, m) \ Accordion(n).choice[m][c] : latestYaml[f] = Absent

\* Going to the YAML and back shows the choices as they were made, unless the
\* option chosen has nothing in the resource yet, or the choice is late.
ReturnShowsTheChoice ==
  dialog = "form" /\ Idle =>
    \A n \in Accordions : \A m \in Unwritten(n) \ Accordion(n).late :
      Displayed(n, view) =>
        \/ ChoiceFor(n, m, latestYaml) = view[n][m]
        \/ \A f \in Accordion(n).choice[m][view[n][m]] : latestYaml[f] = Absent
=============================================================================
