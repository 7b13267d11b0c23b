------------------------------ MODULE FieldHelp ------------------------------
(***************************************************************************)
(* field_help_editor: labels and tooltips of fields, changed for one       *)
(* language as translations over what the field ships with, with a row per *)
(* field and language that remembers what was there.                       *)
(*                                                                         *)
(* Each action is a request; two of them on one field are made one after   *)
(* the other, as they write the same rows.                                 *)
(***************************************************************************)
EXTENDS Integers

CONSTANTS
  Fields, Langs,
  Texts,        \* labels and tooltips
  None,         \* no text, no translation
  Translated,   \* fields that a language pack may translate
  MaxEdits

VARIABLES
  source,       \* [Fields -> [Keys -> a text]]: what the module ships
  translation,  \* [Fields -> [Langs -> [Keys -> a text or None]]]: ir.translation
  row,          \* [Fields -> [Langs -> a customization or NoRow]]
  own,          \* history: [Fields -> [Langs -> [Keys -> texts]]]: what was shown when
                \* there was last no customization, and what modules brought since
  edits

vars == <<source, translation, row, own, edits>>

Keys == {"label", "help"}
NoRow == [none |-> TRUE]
Values == [label : Texts, help : Texts \cup {None}]

\* what a reader sees: the core's reading of a translated column, and field_help_patch
Shown(f, l) ==
  [k \in Keys |-> IF translation[f][l][k] # None THEN translation[f][l][k] ELSE source[f][k]]

-----------------------------------------------------------------------------
(* write() *)

Editing == edits < MaxEdits /\ edits' = edits + 1

\* _fhe_apply_label_values: an empty tooltip voids the override
Applied(old, values) == [k \in Keys |-> IF k \in DOMAIN values THEN values[k] ELSE old[k]]

\* mutant: what is shown is remembered at every write
RememberedAnew(f, l) ==
  [original |-> Shown(f, l), custom |-> IF row[f][l] # NoRow THEN row[f][l].custom ELSE Shown(f, l)]

\* _fhe_capture_originals: at the first one
Remembered(f, l) ==
  IF row[f][l] # NoRow THEN row[f][l] ELSE [original |-> Shown(f, l), custom |-> Shown(f, l)]

\* _fhe_sync_customizations: back at the original, there is nothing to remember
Synced(r, values) ==
  LET new == [r EXCEPT !.custom = Applied(@, values)]
  IN  IF new.custom = new.original THEN NoRow ELSE new

\* a label may not be empty: the write is refused
Write(fs, l, values) ==
  /\ Editing
  /\ "label" \in DOMAIN values => values["label"] # None
  /\ translation' = [f \in Fields |-> IF f \notin fs THEN translation[f]
                       ELSE [translation[f] EXCEPT ![l] = Applied(@, values)]]
  /\ row' = [f \in Fields |-> IF f \notin fs THEN row[f]
               ELSE [row[f] EXCEPT ![l] = Synced(Remembered(f, l), values)]]
  /\ UNCHANGED <<source, own>>

-----------------------------------------------------------------------------
(* action_reset, action_reapply *)

\* mutant: every override is voided, those of language packs too
RestoredShipped(f, l) == [k \in Keys |-> None]

\* _fhe_restore_original: what ships is met by removing the override; what does not
\* is written, which an empty tooltip cannot be
Restored(f, l) ==
  [k \in Keys |-> IF source[f][k] = row[f][l].original[k] THEN None
                  ELSE row[f][l].original[k]]

\* of the customizations ticked, or of all languages of the fields ticked
Reset(fs, ls) ==
  LET on(f, l) == f \in fs /\ l \in ls /\ row[f][l] # NoRow
  IN  /\ Editing /\ \E f \in fs, l \in ls : on(f, l)
      /\ translation' = [f \in Fields |-> [l \in Langs |->
           IF on(f, l) THEN Restored(f, l) ELSE translation[f][l]]]
      /\ row' = [f \in Fields |-> [l \in Langs |-> IF on(f, l) THEN NoRow ELSE row[f][l]]]
      /\ UNCHANGED <<source, own>>

Reapply(fs, ls) ==
  LET on(f, l) == f \in fs /\ l \in ls /\ row[f][l] # NoRow
  IN  /\ Editing /\ \E f \in fs, l \in ls : on(f, l)
      /\ translation' = [f \in Fields |-> [l \in Langs |->
           IF on(f, l) THEN row[f][l].custom ELSE translation[f][l]]]
      /\ UNCHANGED <<source, row, own>>

-----------------------------------------------------------------------------
(* What happens beside *)

\* where nobody customized it, what is shown now is what there was; where somebody
\* did, what is brought may come to light again
Brought(texts) ==
  own' = [f \in Fields |-> [l \in Langs |-> [k \in Keys |->
            IF row[f][l] = NoRow THEN {Shown(f, l)'[k]} ELSE own[f][l][k] \cup texts[f][l][k]]]]

\* the module is upgraded and ships another text
Upgrade(f) ==
  /\ Editing
  /\ \E values \in Values : values # source[f] /\ source' = [source EXCEPT ![f] = values]
  /\ UNCHANGED <<translation, row>>
  /\ Brought([g \in Fields |-> [l \in Langs |-> [k \in Keys |-> {source'[g][k]}]]])

\* the terms of a language are loaded, and overwrite what is there
LoadTerms(l) ==
  /\ Editing
  /\ \E label \in Texts :
       /\ translation' = [f \in Fields |-> IF f \notin Translated THEN translation[f]
                            ELSE [translation[f] EXCEPT ![l].label = label]]
       /\ UNCHANGED <<source, row>>
       /\ Brought([f \in Fields |-> [m \in Langs |-> [k \in Keys |->
            IF f \in Translated /\ m = l /\ k = "label" THEN {label} ELSE {}]]])

-----------------------------------------------------------------------------
Init ==
  /\ source \in [Fields -> Values]
  /\ translation = [f \in Fields |-> [l \in Langs |-> [k \in Keys |-> None]]]
  /\ row = [f \in Fields |-> [l \in Langs |-> NoRow]]
  /\ own = [f \in Fields |-> [l \in Langs |-> [k \in Keys |-> {source[f][k]}]]]
  /\ edits = 0

Next ==
  \/ \E fs \in (SUBSET Fields) \ {{}}, l \in Langs, ks \in (SUBSET Keys) \ {{}} :
       \E values \in [ks -> Texts \cup {None}] : Write(fs, l, values)
  \/ \E fs \in (SUBSET Fields) \ {{}}, ls \in (SUBSET Langs) \ {{}} :
       Reset(fs, ls) \/ Reapply(fs, ls)
  \/ \E f \in Fields : Upgrade(f)
  \/ \E l \in Langs : LoadTerms(l)

Spec == Init /\ [][Next]_vars

-----------------------------------------------------------------------------
(* Properties *)

\* README: "Reset to the original, exactly".  A field nobody customizes any more, by
\* a reset or by typing the old text again, shows in every language what it showed
\* before it was first customized, or what its module or a language pack brought
\* since, and never a text that somebody typed; however often it was edited, and
\* though other languages stay customized.  A tooltip that was empty is what ships.
BackAsItWas ==
  \A f \in Fields, l \in Langs : row[f][l] = NoRow =>
    \A k \in Keys : Shown(f, l)[k] \in own[f][l][k]

-----------------------------------------------------------------------------
(* The inductive invariant *)

Proper == None \notin Texts

TextsOf == [Keys -> Texts \cup {None}]
Customizations == [original : TextsOf, custom : TextsOf]

TextsTyped ==
  /\ source \in [Fields -> TextsOf]
  /\ translation \in [Fields -> [Langs -> TextsOf]]
  /\ row \in [Fields -> [Langs -> {NoRow} \cup Customizations]]
  /\ own \in [Fields -> [Langs -> [Keys -> SUBSET (Texts \cup {None})]]]

\* where nothing was shown, what ships counts as what was there; what a row remembers
\* was there; and beside it nothing is shown but what was there or what the row says
RowHolds(f, l, k) ==
  LET texts == own[f][l][k]
      shown == Shown(f, l)[k]
  IN  /\ None \in texts => source[f][k] \in texts
      /\ IF row[f][l] = NoRow THEN shown \in texts
         ELSE /\ row[f][l].original[k] \in texts
              /\ \/ shown \in texts \/ shown = row[f][l].custom[k]
                 \/ row[f][l].custom[k] = None /\ translation[f][l][k] = None

IInv == TextsTyped /\ \A f \in Fields, l \in Langs, k \in Keys : RowHolds(f, l, k)
=============================================================================
