--------------------------- MODULE Cleanup_proofs ---------------------------
(***************************************************************************)
(* Theorems about AddOns: what its properties say of the components that   *)
(* find, archive, export and delete records holds for every value of their *)
(* constants, in a composition of any.                                     *)
(*                                                                         *)
(* Each component has a section: its inductive invariant is stated in its  *)
(* module, its variables are s1, s2, ... in the order they have there.     *)
(***************************************************************************)
EXTENDS AddOns, FiniteSetTheorems, TLAPS

-----------------------------------------------------------------------------
(* Behaviours stay in their component *)

LEMMA PartStays == ASSUME [Next]_vars PROVE part' = part
BY DEF Next, vars

-----------------------------------------------------------------------------
(* Numbers *)

\* A set of numbers has a least one.
LEMMA LeastIsThere ==
  ASSUME NEW S \in SUBSET Nat, S # {}
  PROVE  \E x \in S : \A y \in S : x <= y
<1> DEFINE R == {p \in Nat \X Nat : p[1] < p[2]}
<1>1. IsWellFoundedOn(R, Nat)
  BY NatLessThanWellFounded DEF OpToRel
<1>2. \A x \in S, y \in S : y < x => <<y, x>> \in R
  OBVIOUS
<1> HIDE DEF R
<1>3. PICK x \in S : \A y \in S : ~(<<y, x>> \in R)
  BY <1>1, WFMin
<1>4. \A y \in S : ~(y < x) /\ x \in Nat /\ y \in Nat
  BY <1>2, <1>3
<1> QED
  BY <1>4

-----------------------------------------------------------------------------
(* ExternalIds: the table and what points into it; no id comes back.       *)

LEMMA TableBegins ==
  ASSUME Xid!Proper, Xid!Init
  PROVE  Xid!TableTyped
<1> DEFINE entry == s1  rows == s3  Models == Identifiers.Models  NoModel == Identifiers.NoModel
           Ids == Identifiers.Ids
<1>1. ASSUME NEW e \in Xid!Live PROVE entry[e].model \in Models \cup {NoModel}
  BY DEF Xid!Init, Xid!Live
<1>2. rows = [m \in Models |-> rows[m]] /\ \A m \in Models : rows[m] \subseteq Ids
  BY DEF Xid!Init
<1> QED
  BY <1>1, <1>2 DEF Xid!Init, Xid!TableTyped

LEMMA TableStep ==
  ASSUME Xid!TableTyped, [Xid!Next]_(Xid!vars)
  PROVE  Xid!TableTyped'
<1> DEFINE entry == s1  installed == s2  rows == s3  Entries == Identifiers.Entries
           Models == Identifiers.Models  NoModel == Identifiers.NoModel  Ids == Identifiers.Ids
<1>1. ASSUME NEW e \in Entries, NEW m \in Models, NEW r \in Ids, Xid!Import(e, m, r)
      PROVE  Xid!TableTyped'
  <2>1. /\ entry' = [x \in Xid!Live \cup {e} |-> IF x = e THEN [model |-> m, res |-> r] ELSE entry[x]]
        /\ UNCHANGED <<installed, rows>>
    BY <1>1 DEF Xid!Import
  <2>2. \A x \in Xid!Live' : entry'[x].model \in Models \cup {NoModel}
    BY <2>1 DEF Xid!TableTyped, Xid!Live
  <2> QED
    BY <2>1, <2>2 DEF Xid!TableTyped
<1>2. ASSUME NEW m \in Models, NEW r \in Ids, Xid!CreateRecord(m, r) PROVE Xid!TableTyped'
  BY <1>2 DEF Xid!CreateRecord, Xid!TableTyped, Xid!Live
<1>3. ASSUME NEW m \in Models, NEW r \in Ids, Xid!DeleteRecord(m, r) PROVE Xid!TableTyped'
  <2>1. /\ rows' = [rows EXCEPT ![m] = @ \ {r}] /\ installed' = installed
        /\ \E named : entry' = [e \in Xid!Live \ named |-> entry[e]]
    BY <1>3 DEF Xid!DeleteRecord
  <2>2. \A x \in Xid!Live' : entry'[x].model \in Models \cup {NoModel}
    BY <2>1 DEF Xid!TableTyped, Xid!Live
  <2> QED
    BY <2>1, <2>2 DEF Xid!TableTyped
<1>4. ASSUME NEW m \in Models, Xid!Uninstall(m) PROVE Xid!TableTyped'
  BY <1>4 DEF Xid!Uninstall, Xid!TableTyped, Xid!Live
<1>5. CASE Xid!DeleteCommit
  BY <1>5 DEF Xid!DeleteCommit, Xid!TableTyped, Xid!Live
<1>6. CASE Xid!DeleteStart \/ Xid!DeleteFails \/ UNCHANGED Xid!vars
  BY <1>6 DEF Xid!DeleteStart, Xid!DeleteFails, Xid!vars, Xid!TableTyped, Xid!Live
<1> QED
  BY <1>1, <1>2, <1>3, <1>4, <1>5, <1>6 DEF Xid!Next

\* the sets of lines the filters look up are those with that badge
LEMMA BadgesCounted ==
  ASSUME Xid!Proper, Xid!TableTyped, NEW e \in Xid!Live
  PROVE  /\ Xid!Badge(s1, e) \in {"ok", "broken", "unknown_model"}
         /\ Xid!Badge(s1, e) = "broken" <=> e \in Xid!Broken
         /\ Xid!Badge(s1, e) = "unknown_model" <=> e \in Xid!Unknown
<1> DEFINE entry == s1  installed == s2  rows == s3  Models == Identifiers.Models
           NoModel == Identifiers.NoModel
<1> DEFINE m == entry[e].model
<1>1. m \in Models \cup {NoModel} /\ installed \subseteq Models /\ NoModel \notin Models
  BY DEF Xid!TableTyped, Xid!Proper
<1>2. CASE m \notin installed
  <2>1. Xid!Badge(entry, e) = "unknown_model"
    BY <1>2 DEF Xid!Badge
  <2> QED
    BY <1>1, <1>2, <2>1 DEF Xid!Broken, Xid!Unknown
<1>3. CASE m \in installed
  <2>1. Xid!Badge(entry, e) = IF entry[e].res \in rows[m] \ {0} THEN "ok" ELSE "broken"
    BY <1>3 DEF Xid!Badge
  <2>2. e \notin Xid!Unknown
    BY <1>1, <1>3 DEF Xid!Unknown
  <2> QED
    BY <1>3, <2>1, <2>2 DEF Xid!Broken
<1> QED
  BY <1>2, <1>3

LEMMA BadgesAgree ==
  ASSUME Xid!Proper, Xid!TableTyped
  PROVE  Xid!BadgeAgrees
<1> DEFINE entry == s1  installed == s2  rows == s3  Models == Identifiers.Models
           Ids == Identifiers.Ids  Name == Identifiers.Name
<1>1. ASSUME NEW values \in SUBSET {"ok", "broken", "unknown_model"}, NEW positive \in BOOLEAN
      PROVE  Xid!SearchStatus(values, positive) = {e \in Xid!Live : Xid!Badge(entry, e) \in values <=> positive}
  <2>1. Xid!Broken \subseteq Xid!Live /\ Xid!Unknown \subseteq Xid!Live
    BY DEF Xid!Broken, Xid!Unknown
  <2>2. Xid!SearchStatus(values, positive) \subseteq Xid!Live
    BY <2>1 DEF Xid!SearchStatus, Xid!In
  <2>3. ASSUME NEW e \in Xid!Live
        PROVE  e \in Xid!SearchStatus(values, positive) <=> (Xid!Badge(entry, e) \in values <=> positive)
    <3> DEFINE badge == Xid!Badge(entry, e)
    <3>1. /\ badge \in {"ok", "broken", "unknown_model"}
          /\ badge = "broken" <=> e \in Xid!Broken
          /\ badge = "unknown_model" <=> e \in Xid!Unknown
      BY BadgesCounted
    <3> HIDE DEF badge
    <3>2. e \in Xid!SearchStatus(values, positive) <=> (badge \in values <=> positive)
      <4>1. CASE "ok" \in values
        <5>1. e \in Xid!SearchStatus(values, positive)
                <=> (e \notin (IF "broken" \in values THEN {} ELSE Xid!Broken)
                              \cup (IF "unknown_model" \in values THEN {} ELSE Xid!Unknown) <=> positive)
          BY <4>1 DEF Xid!SearchStatus, Xid!In
        <5> QED
          BY <3>1, <4>1, <5>1
      <4>2. CASE "ok" \notin values
        <5>1. e \in Xid!SearchStatus(values, positive)
                <=> (e \in (IF "broken" \in values THEN Xid!Broken ELSE {})
                           \cup (IF "unknown_model" \in values THEN Xid!Unknown ELSE {}) <=> positive)
          BY <4>2 DEF Xid!SearchStatus, Xid!In
        <5> QED
          BY <3>1, <4>2, <5>1
      <4> QED
        BY <4>1, <4>2
    <3> QED
      BY <3>2 DEF badge
  <2> QED
    BY <2>2, <2>3
<1>2. ASSUME NEW values \in SUBSET BOOLEAN, NEW positive \in BOOLEAN
      PROVE  Xid!SearchBroken(values, positive) =
               {e \in Xid!Live : (\E v \in values : v <=> Xid!Badge(entry, e) = "broken") <=> positive}
  <2>1. Xid!Broken \subseteq Xid!Live
    BY DEF Xid!Broken
  <2>2. Xid!SearchBroken(values, positive) \subseteq Xid!Live
    BY <2>1 DEF Xid!SearchBroken, Xid!In
  <2>3. ASSUME NEW e \in Xid!Live
        PROVE  e \in Xid!SearchBroken(values, positive)
                 <=> ((\E v \in values : v <=> Xid!Badge(entry, e) = "broken") <=> positive)
    <3>1. Xid!Badge(entry, e) = "broken" <=> e \in Xid!Broken
      BY BadgesCounted
    <3>2. values \in {{}, {TRUE}, {FALSE}, {TRUE, FALSE}}
      OBVIOUS
    <3>3. CASE values = {TRUE}
      BY <2>1, <3>1, <3>3 DEF Xid!SearchBroken, Xid!In
    <3>4. CASE values = {FALSE}
      BY <2>1, <3>1, <3>4 DEF Xid!SearchBroken, Xid!In
    <3>5. CASE values = {}
      BY <3>1, <3>5 DEF Xid!SearchBroken, Xid!In
    <3>6. CASE values = {TRUE, FALSE}
      BY <3>1, <3>6 DEF Xid!SearchBroken, Xid!In
    <3> QED
      BY <3>2, <3>3, <3>4, <3>5, <3>6
  <2> QED
    BY <2>2, <2>3
<1>3. ASSUME NEW m \in Models, NEW r \in Ids, NEW e \in Xid!SearchName(Name[m][r], TRUE)
      PROVE  Xid!Badge(entry, e) = "ok" /\ Name[entry[e].model][entry[e].res] = Name[m][r]
  <2>1. /\ e \in Xid!Live /\ entry[e].model \in installed
        /\ entry[e].res \in Xid!Hits(entry[e].model, Name[m][r])
    BY <1>3 DEF Xid!SearchName, Xid!In, Xid!First
  <2>2. entry[e].res \in rows[entry[e].model] /\ Name[entry[e].model][entry[e].res] = Name[m][r]
    BY <2>1 DEF Xid!Hits, Xid!First
  <2>3. entry[e].res # 0
    BY <2>1, <2>2 DEF Xid!TableTyped, Xid!Proper
  <2> QED
    BY <2>1, <2>2, <2>3 DEF Xid!Badge
<1> QED
  BY <1>1, <1>2, <1>3 DEF Xid!BadgeAgrees

LEMMA BadgeIsOk ==
  ASSUME NEW e PROVE Xid!Badge(s1, e) = "ok" <=> s1[e].model \in s2
                                               /\ s1[e].res \in s3[s1[e].model] \ {0}
<1> DEFINE entry == s1  installed == s2  rows == s3
<1> DEFINE m == entry[e].model
<1>1. CASE m \notin installed
  BY <1>1 DEF Xid!Badge
<1>2. CASE m \in installed /\ entry[e].res \in rows[m] \ {0}
  BY <1>2 DEF Xid!Badge
<1>3. CASE m \in installed /\ entry[e].res \notin rows[m] \ {0}
  BY <1>3 DEF Xid!Badge
<1> QED
  BY <1>1, <1>2, <1>3

LEMMA IdsBegin == ASSUME Xid!Proper, Xid!Init PROVE Xid!IInv
<1> DEFINE entry == s1  rows == s3  gone == s4  request == s5  Models == Identifiers.Models
<1>1. gone = [m \in Models |-> gone[m]] /\ \A m \in Models : gone[m] \cap rows[m] = {}
  BY DEF Xid!Init
<1>2. ASSUME NEW e \in Xid!Live, entry[e].model \in Models
      PROVE  entry[e].res \in {0} \cup rows[entry[e].model] \cup gone[entry[e].model]
  BY <1>2 DEF Xid!Init, Xid!Live
<1>3. request.selected = {}
  BY DEF Xid!Init, Xid!NoRequest
<1> QED
  BY <1>1, <1>2, <1>3, TableBegins DEF Xid!IInv, Xid!IdsKnown, Xid!SelectedDead

\* An identifier that names nothing goes on naming nothing until it is written.
LEMMA DeadStays ==
  ASSUME Xid!Proper, Xid!TableTyped, Xid!IdsKnown, NEW e \in Xid!Live, e \in Xid!Live',
         s1'[e] = s1[e],
         s2' \subseteq s2,
         \A m \in Identifiers.Models : s3'[m] \subseteq Identifiers.Ids /\ s3'[m] \cap s4[m] = {},
         Xid!Badge(s1, e) # "ok"
  PROVE  Xid!Badge(s1, e)' # "ok"
<1> DEFINE entry == s1  installed == s2  rows == s3  gone == s4  Models == Identifiers.Models
<1> DEFINE m == entry[e].model
           res == entry[e].res
<1>1. m \notin installed \/ res \notin rows[m] \ {0}
  BY BadgeIsOk
<1>2. Xid!Badge(entry, e)' = "ok" <=> m \in installed' /\ res \in rows'[m] \ {0}
  <2>1. Xid!Badge(entry, e)' = "ok" <=> entry'[e].model \in installed'
                                   /\ entry'[e].res \in rows'[entry'[e].model] \ {0}
    <3> DEFINE k == entry'[e].model
    <3>1. CASE k \notin installed'
      BY <3>1 DEF Xid!Badge
    <3>2. CASE k \in installed' /\ entry'[e].res \in rows'[k] \ {0}
      BY <3>2 DEF Xid!Badge
    <3>3. CASE k \in installed' /\ entry'[e].res \notin rows'[k] \ {0}
      BY <3>3 DEF Xid!Badge
    <3> QED
      BY <3>1, <3>2, <3>3
  <2> QED
    BY <2>1
<1>3. CASE m \in installed'
  <2>1. m \in Models /\ res \in {0} \cup gone[m]
    BY <1>1, <1>3 DEF Xid!TableTyped, Xid!IdsKnown
  <2> QED
    BY <1>2, <2>1
<1> QED
  BY <1>2, <1>3

LEMMA MoreTouched ==
  ASSUME NEW selected, NEW touched, NEW more, NEW w, NEW v,
         w = [selected |-> selected, touched |-> touched], v = [w EXCEPT !.touched = more]
  PROVE  v = [selected |-> selected, touched |-> more]
OBVIOUS

\* What others do to the rows es is told to the request.
LEMMA SelectedStay ==
  ASSUME Xid!Proper, Xid!IInv, NEW es, s5' = Xid!Spoil(es),
         \A e \in Xid!Live \ es : e \in Xid!Live' /\ s1'[e] = s1[e],
         s2' \subseteq s2,
         \A m \in Identifiers.Models : s3'[m] \subseteq Identifiers.Ids /\ s3'[m] \cap s4[m] = {}
  PROVE  Xid!SelectedDead'
<1> DEFINE entry == s1  request == s5
<1>1. CASE request.selected = {}
  BY <1>1 DEF Xid!Spoil, Xid!SelectedDead
<1>2. CASE request.selected # {}
  <2>1. /\ request = [selected |-> request.selected, touched |-> request.touched]
        /\ request' = [request EXCEPT !.touched = request.touched \cup es]
    BY <1>2 DEF Xid!Spoil, Xid!IInv, Xid!SelectedDead
  <2>2. request' = [selected |-> request.selected, touched |-> request.touched \cup es]
    <3>1. PICK w, v, selected, touched, more :
            /\ w = request /\ v = request' /\ selected = request.selected
            /\ touched = request.touched /\ more = request.touched \cup es
      OBVIOUS
    <3>2. w = [selected |-> selected, touched |-> touched] /\ v = [w EXCEPT !.touched = more]
      BY <2>1, <3>1
    <3>3. v = [selected |-> selected, touched |-> more]
      BY ONLY <3>2, MoreTouched
    <3> QED
      BY <3>1, <3>3
  <2>3. request'.selected = request.selected /\ request'.touched = request.touched \cup es
    BY <2>2
  <2>4. ASSUME NEW e \in request'.selected \ request'.touched
        PROVE  e \in Xid!Live' /\ Xid!Badge(entry, e)' # "ok"
    <3>1. e \in Xid!Live \ es /\ Xid!Badge(entry, e) # "ok"
      BY <1>2, <2>3 DEF Xid!IInv, Xid!SelectedDead
    <3> QED
      BY <3>1, DeadStays DEF Xid!IInv
  <2> QED
    BY <2>2, <2>3, <2>4 DEF Xid!SelectedDead
<1> QED
  BY <1>1, <1>2

LEMMA IdsStep == ASSUME Xid!Proper, Xid!IInv, [Xid!Next]_(Xid!vars) PROVE Xid!IInv'
<1> DEFINE entry == s1  installed == s2  rows == s3  gone == s4  request == s5
           Entries == Identifiers.Entries  Models == Identifiers.Models  Ids == Identifiers.Ids
<1>1. Xid!TableTyped'
  BY TableStep DEF Xid!IInv
<1>2. ASSUME UNCHANGED request
      PROVE  request' = Xid!Spoil({})
  <2>1. CASE request.selected = {}
    BY <1>2, <2>1 DEF Xid!Spoil
  <2>2. CASE request.selected # {}
    <3>1. request = [selected |-> request.selected, touched |-> request.touched]
      BY <2>2 DEF Xid!IInv, Xid!SelectedDead
    <3>2. Xid!Spoil({}) = [request EXCEPT !.touched = request.touched \cup {}]
      BY <2>2 DEF Xid!Spoil
    <3>3. request.touched \cup {} = request.touched
      OBVIOUS
    <3>4. Xid!Spoil({}) = request
      <4>1. PICK w, selected, touched : w = request /\ selected = request.selected
                                        /\ touched = request.touched
        OBVIOUS
      <4>2. w = [selected |-> selected, touched |-> touched]
        BY <3>1, <4>1
      <4>3. [w EXCEPT !.touched = touched] = w
        BY ONLY <4>2
      <4> QED
        BY <3>2, <3>3, <4>1, <4>3
    <3> QED
      BY <1>2, <3>4
  <2> QED
    BY <2>1, <2>2
<1>3. \A m \in Models : rows[m] \subseteq Ids /\ rows[m] \cap gone[m] = {}
  BY DEF Xid!IInv, Xid!TableTyped, Xid!IdsKnown
<1>4. ASSUME NEW e \in Entries, NEW m \in Models, NEW r \in Ids, Xid!Import(e, m, r)
      PROVE  Xid!IdsKnown' /\ Xid!SelectedDead'
  <2>1. /\ entry' = [x \in Xid!Live \cup {e} |-> IF x = e THEN [model |-> m, res |-> r] ELSE entry[x]]
        /\ request' = Xid!Spoil({e}) /\ r \in rows[m] /\ UNCHANGED <<installed, rows, gone>>
    BY <1>4 DEF Xid!Import
  <2>2. Xid!Live' = Xid!Live \cup {e} /\ \A x \in Xid!Live \ {e} : entry'[x] = entry[x]
    BY <2>1 DEF Xid!Live
  <2>3. entry'[e].model = m /\ entry'[e].res = r
    BY <2>1
  <2>4. ASSUME NEW x \in Xid!Live', entry'[x].model \in Models
        PROVE  entry'[x].res \in {0} \cup rows'[entry'[x].model] \cup gone'[entry'[x].model]
    <3>1. CASE x = e
      BY <2>1, <2>3, <3>1
    <3>2. CASE x # e
      BY <2>1, <2>2, <2>4, <3>2 DEF Xid!IInv, Xid!IdsKnown
    <3> QED
      BY <3>1, <3>2
  <2>5. Xid!IdsKnown'
    BY <2>1, <2>4 DEF Xid!IInv, Xid!IdsKnown
  <2> QED
    BY <1>3, <2>1, <2>2, <2>5, SelectedStay
<1>5. ASSUME NEW m \in Models, NEW r \in Ids, Xid!CreateRecord(m, r)
      PROVE  Xid!IdsKnown' /\ Xid!SelectedDead'
  <2>1. /\ rows' = [rows EXCEPT ![m] = @ \cup {r}] /\ r \notin rows[m] \cup gone[m]
        /\ UNCHANGED <<entry, installed, gone, request>>
    BY <1>5 DEF Xid!CreateRecord
  <2>2. /\ rows'[m] = rows[m] \cup {r} /\ \A k \in Models \ {m} : rows'[k] = rows[k]
    BY <2>1 DEF Xid!IInv, Xid!TableTyped
  <2>3. Xid!IdsKnown'
    BY <2>1, <2>2 DEF Xid!IInv, Xid!IdsKnown, Xid!Live
  <2>4. \A k \in Models : rows'[k] \subseteq Ids /\ rows'[k] \cap gone[k] = {}
    BY <1>3, <2>1, <2>2
  <2> QED
    BY <1>2, <2>1, <2>3, <2>4, SelectedStay DEF Xid!Live
<1>6. ASSUME NEW m \in Models, NEW r \in Ids, Xid!DeleteRecord(m, r)
      PROVE  Xid!IdsKnown' /\ Xid!SelectedDead'
  <2>1. PICK named \in SUBSET Xid!Live :
          entry' = [e \in Xid!Live \ named |-> entry[e]] /\ request' = Xid!Spoil(named)
    BY <1>6 DEF Xid!DeleteRecord
  <2>2. /\ rows' = [rows EXCEPT ![m] = @ \ {r}] /\ gone' = [gone EXCEPT ![m] = @ \cup {r}]
        /\ installed' = installed
    BY <1>6 DEF Xid!DeleteRecord
  <2>3. /\ rows'[m] = rows[m] \ {r} /\ \A k \in Models \ {m} : rows'[k] = rows[k]
        /\ gone'[m] = gone[m] \cup {r} /\ \A k \in Models \ {m} : gone'[k] = gone[k]
        /\ gone' = [k \in Models |-> gone'[k]]
    BY <2>2 DEF Xid!IInv, Xid!TableTyped, Xid!IdsKnown
  <2>4. Xid!Live' = Xid!Live \ named /\ \A e \in Xid!Live' : entry'[e] = entry[e]
    BY <2>1 DEF Xid!Live
  <2>5. ASSUME NEW e \in Xid!Live', entry'[e].model \in Models
        PROVE  entry'[e].res \in {0} \cup rows'[entry'[e].model] \cup gone'[entry'[e].model]
    <3>1. entry[e].res \in {0} \cup rows[entry[e].model] \cup gone[entry[e].model]
          /\ entry[e].model \in Models /\ entry'[e] = entry[e]
      BY <2>4, <2>5 DEF Xid!IInv, Xid!IdsKnown
    <3> QED
      BY <2>3, <3>1
  <2>6. \A k \in Models : gone'[k] \cap rows'[k] = {}
    BY <1>3, <2>3
  <2>7. Xid!IdsKnown'
    BY <2>3, <2>5, <2>6 DEF Xid!IdsKnown
  <2>8. \A k \in Models : rows'[k] \subseteq Ids /\ rows'[k] \cap gone[k] = {}
    BY <1>3, <2>3
  <2> QED
    BY <2>1, <2>2, <2>4, <2>7, <2>8, SelectedStay
<1>7. ASSUME NEW m \in Models, Xid!Uninstall(m) PROVE Xid!IdsKnown' /\ Xid!SelectedDead'
  <2>1. installed' \subseteq installed /\ UNCHANGED <<entry, rows, gone, request>>
    BY <1>7 DEF Xid!Uninstall
  <2>2. Xid!IdsKnown'
    BY <2>1 DEF Xid!IInv, Xid!IdsKnown, Xid!Live
  <2> QED
    BY <1>2, <1>3, <2>1, <2>2, SelectedStay DEF Xid!Live
<1>8. CASE Xid!DeleteCommit \/ Xid!DeleteFails
  <2>1. /\ request' = Xid!NoRequest /\ UNCHANGED <<installed, rows, gone>>
        /\ Xid!Live' \subseteq Xid!Live /\ \A e \in Xid!Live' : entry'[e] = entry[e]
    BY <1>8 DEF Xid!DeleteCommit, Xid!DeleteFails, Xid!Live
  <2>2. Xid!IdsKnown'
    BY <2>1 DEF Xid!IInv, Xid!IdsKnown
  <2> QED
    BY <1>1, <2>1, <2>2 DEF Xid!SelectedDead, Xid!NoRequest, Xid!IInv
<1>9. CASE Xid!DeleteStart
  <2>1. PICK selected \in SUBSET Xid!Live :
          /\ Xid!Accepted(selected) /\ request' = [selected |-> selected, touched |-> {}]
    BY <1>9 DEF Xid!DeleteStart
  <2>2. UNCHANGED <<entry, installed, rows, gone>>
    BY <1>9 DEF Xid!DeleteStart
  <2>3. request'.selected = selected /\ request'.touched = {}
    BY <2>1
  <2>4. \A e \in selected : e \in Xid!Live' /\ Xid!Badge(entry, e)' # "ok"
    BY <2>1, <2>2 DEF Xid!Accepted, Xid!Live, Xid!Badge
  <2>5. Xid!IdsKnown'
    BY <2>2 DEF Xid!IInv, Xid!IdsKnown, Xid!Live
  <2> QED
    BY <1>1, <2>1, <2>3, <2>4, <2>5 DEF Xid!SelectedDead, Xid!IInv
<1>10. CASE UNCHANGED Xid!vars
  <2>1. UNCHANGED <<entry, installed, rows, gone, request>>
    BY <1>10 DEF Xid!vars
  <2>2. Xid!IdsKnown'
    BY <2>1 DEF Xid!IInv, Xid!IdsKnown, Xid!Live
  <2> QED
    <3>1. Xid!SelectedDead'
      BY <1>2, <1>3, <2>1, <2>2, SelectedStay DEF Xid!Live
    <3> QED
      BY <1>1, <2>2, <3>1 DEF Xid!IInv
<1> QED
  BY <1>1, <1>4, <1>5, <1>6, <1>7, <1>8, <1>9, <1>10 DEF Xid!Next, Xid!IInv

\* Nothing that was written since is among what goes, and the rest names nothing.
LEMMA LiveAreKept == ASSUME Xid!IInv PROVE Xid!LiveKept
BY DEF Xid!LiveKept, Xid!DeleteCommit, Xid!IInv, Xid!SelectedDead, Xid!Live
-----------------------------------------------------------------------------
(* DefaultValues: what a line shows is its own.                            *)

\* What a line shows does not depend on the lines it is computed with.
LEMMA StatusOfOne ==
  ASSUME NEW lines, NEW others, NEW d \in lines \cap others
  PROVE  Def!Status(lines, d) = Def!Status(others, d)
<1> DEFINE default == s1  Relational == Defaults.Relational  Comodel == Defaults.Comodel
<1> DEFINE f == default[d].field
           v == default[d].value
<1>1. f \in Relational => (v \notin Def!Existing(lines, Comodel[f]) <=> v \notin Def!Existing(others, Comodel[f]))
  BY DEF Def!Existing
<1> QED
  BY <1>1 DEF Def!Status

LEMMA FiltersFollow == Def!FiltersAgree
<1> DEFINE Admins == Defaults.Admins
<1> SUFFICES ASSUME NEW a \in Admins, NEW lines \in SUBSET Def!Live,
                    NEW d \in lines \cap Def!Shown(a),
                    NEW positive \in BOOLEAN
             PROVE  /\ \A s \in {"ok", "invalid_value", "missing_target"} \cup Def!Orphaned :
                         d \in Def!Search(a, {s}, positive) <=> (Def!Status(lines, d) = s <=> positive)
                    /\ \A value \in BOOLEAN :
                         d \in Def!SearchOrphaned(a, value, positive)
                           <=> ((Def!Status(lines, d) \in Def!Orphaned <=> value) <=> positive)
  BY DEF Def!FiltersAgree
<1>1. Def!Status(Def!Shown(a), d) = Def!Status(lines, d)
  BY StatusOfOne
<1>2. ASSUME NEW s
      PROVE  d \in Def!Search(a, {s}, positive) <=> (Def!Status(lines, d) = s <=> positive)
  BY <1>1 DEF Def!Search
<1>3. ASSUME NEW value \in BOOLEAN
      PROVE  d \in Def!SearchOrphaned(a, value, positive)
               <=> ((Def!Status(lines, d) \in Def!Orphaned <=> value) <=> positive)
  BY <1>1 DEF Def!Search, Def!SearchOrphaned
<1> QED
  BY <1>2, <1>3
-----------------------------------------------------------------------------
(* The filters of the screens over tables *)

\* A filter finds the lines whose badge or status it names, for any table and any
\* set of models, fields and records that are gone (_search_record_status,
\* _search_is_broken, _search_record_name, _search_entry_status).
THEOREM ListsAgreeWithFilters == Spec => []ListsAgree
<1>1. Init => (part = "ids" => Xid!TableTyped)
  BY TableBegins, AddOnsAssumption DEF Init
<1>2. (part = "ids" => Xid!TableTyped) /\ [Next]_vars => (part = "ids" => Xid!TableTyped)'
  <2> SUFFICES ASSUME part = "ids" => Xid!TableTyped, [Next]_vars, part' = "ids"
               PROVE  Xid!TableTyped'
    OBVIOUS
  <2>1. part = "ids" /\ [Xid!Next]_(Xid!vars)
    BY PartStays DEF Next, vars, Xid!vars
  <2> QED
    BY <2>1, TableStep
<1>3. (part = "ids" => Xid!TableTyped) => ListsAgree
  BY BadgesAgree, FiltersFollow, AddOnsAssumption DEF ListsAgree
<1> QED
  BY <1>1, <1>2, <1>3, PTL DEF Spec

-----------------------------------------------------------------------------
(* duplicate_attachment_cleaner: an open clean-up knows every row as it    *)
(* is, but for those written since.                                        *)

LEMMA CopiesCounted == \A S : Dup!Cardinality(S) = Cardinality(S)
  BY DEF Dup!Cardinality, Cardinality

LEMMA LeastCopy == ASSUME NEW S \in SUBSET Nat, S # {} PROVE Dup!Min(S) \in S
<1>1. \E x \in S : \A y \in S : x <= y
  BY LeastIsThere
<1> QED
  BY <1>1 DEF Dup!Min

LEMMA ScansBegin == ASSUME Dup!Init PROVE Dup!IInv
<1> DEFINE Scans == Duplicates.Scans
<1>1. \A s \in Scans : ~Dup!Cleaning(s)
  BY DEF Dup!Init, Dup!Cleaning, Dup!Draft
<1> QED
  BY <1>1 DEF Dup!Init, Dup!IInv, Dup!Live

\* What a scan or a clean-up leaves of a wizard that is not cleaning.
LEMMA ScanAlone ==
  ASSUME Dup!IInv, NEW s \in Duplicates.Scans, NEW w, s2' = [s2 EXCEPT ![s] = w], s1' = s1,
         w.state = "cleaning" => Dup!CleanupSees(w)
  PROVE  Dup!IInv'
<1> DEFINE scan == s2  Scans == Duplicates.Scans
<1>1. /\ scan'[s] = w /\ scan' = [t \in Scans |-> scan'[t]]
      /\ \A t \in Scans \ {s} : scan'[t] = scan[t]
  BY DEF Dup!IInv
<1>2. \A t \in Scans : Dup!Cleaning(t)' => Dup!CleanupSees(scan'[t])
  BY <1>1 DEF Dup!IInv, Dup!Cleaning
<1> QED
  BY <1>1, <1>2 DEF Dup!IInv, Dup!CleanupSees, Dup!Live

LEMMA TouchedWizard ==
  ASSUME NEW lines, NEW ticked, NEW seen, NEW touched, NEW more, NEW w, NEW v,
         w = [state |-> "cleaning", lines |-> lines, ticked |-> ticked, seen |-> seen,
              touched |-> touched],
         v = [w EXCEPT !.touched = more]
  PROVE  v = [state |-> "cleaning", lines |-> lines, ticked |-> ticked, seen |-> seen,
              touched |-> more]
  OBVIOUS

LEMMA SpoiledWizard ==
  ASSUME NEW w, NEW more, NEW v, v = [w EXCEPT !.touched = more],
         w = [state |-> "cleaning", lines |-> w.lines, ticked |-> w.ticked, seen |-> w.seen,
              touched |-> w.touched]
  PROVE  v = [state |-> "cleaning", lines |-> w.lines, ticked |-> w.ticked, seen |-> w.seen,
              touched |-> more]
<1>1. PICK lines, ticked, seen, touched :
        lines = w.lines /\ ticked = w.ticked /\ seen = w.seen /\ touched = w.touched
  OBVIOUS
<1>2. w = [state |-> "cleaning", lines |-> lines, ticked |-> ticked, seen |-> seen,
           touched |-> touched]
  BY <1>1
<1>3. v = [state |-> "cleaning", lines |-> lines, ticked |-> ticked, seen |-> seen,
           touched |-> more]
  BY <1>2, TouchedWizard
<1> QED
  BY <1>1, <1>3

\* What is deleted or moved is told to the clean-ups that are open.
LEMMA RowsSpoiled ==
  ASSUME Dup!IInv, NEW as, s2' = [t \in Duplicates.Scans |-> s2'[t]],
         \A t \in Duplicates.Scans : Dup!Cleaning(t)' => s2'[t] = Dup!Spoil(s2[t], as),
         Dup!Live' \subseteq Dup!Live,
         \A a \in Dup!Live \ as : a \in Dup!Live' /\ s1'[a] = s1[a]
  PROVE  Dup!IInv'
<1> DEFINE scan == s2  Scans == Duplicates.Scans
<1>1. ASSUME NEW t \in Scans, Dup!Cleaning(t)'
      PROVE  Dup!CleanupSees(scan[t])'
  <2>1. scan'[t] = Dup!Spoil(scan[t], as) /\ scan'[t].state = "cleaning"
    BY <1>1 DEF Dup!Cleaning
  <2>2. Dup!Cleaning(t) /\ scan'[t] = [scan[t] EXCEPT !.touched = scan[t].touched \cup as]
    BY <2>1 DEF Dup!Spoil, Dup!Cleaning
  <2>3. Dup!CleanupSees(scan[t])
    BY <2>2 DEF Dup!IInv
  <2>6. scan[t] = [state |-> "cleaning", lines |-> scan[t].lines, ticked |-> scan[t].ticked,
                   seen |-> scan[t].seen, touched |-> scan[t].touched]
    BY <2>3 DEF Dup!CleanupSees
  <2>4. scan'[t] = [state |-> "cleaning", lines |-> scan[t].lines, ticked |-> scan[t].ticked,
                    seen |-> scan[t].seen, touched |-> scan[t].touched \cup as]
    <3>1. PICK w, v : w = scan[t] /\ v = scan'[t]
      OBVIOUS
    <3> DEFINE more == w.touched \cup as
    <3>2. v = [w EXCEPT !.touched = more]
      BY <2>2, <3>1
    <3>3. w = [state |-> "cleaning", lines |-> w.lines, ticked |-> w.ticked, seen |-> w.seen,
               touched |-> w.touched]
      BY <2>6, <3>1
    <3> HIDE DEF more
    <3>4. v = [state |-> "cleaning", lines |-> w.lines, ticked |-> w.ticked, seen |-> w.seen,
               touched |-> more]
      BY ONLY <3>2, <3>3, SpoiledWizard
    <3> QED
      BY <3>1, <3>4 DEF more
  <2>5. /\ scan'[t].lines = scan[t].lines /\ scan'[t].ticked = scan[t].ticked
        /\ scan'[t].seen = scan[t].seen /\ scan'[t].touched = scan[t].touched \cup as
    BY <2>4
  <2> QED
    BY <2>3, <2>4, <2>5 DEF Dup!CleanupSees
<1> QED
  BY <1>1 DEF Dup!IInv

LEMMA ScansStep ==
  ASSUME Dup!IInv, [Dup!Next]_(Dup!vars)
  PROVE  Dup!IInv'
<1> DEFINE att == s1  scan == s2  Attachments == Duplicates.Attachments
           Places == Duplicates.Places  Scans == Duplicates.Scans
<1>1. ASSUME NEW s \in Scans, Dup!Scanned(s) PROVE Dup!IInv'
  <2>1. PICK w \in Dup!Results(s, att) : scan' = [scan EXCEPT ![s] = w]
    BY <1>1 DEF Dup!Scanned
  <2>2. att' = att /\ w.state # "cleaning"
    BY <1>1 DEF Dup!Scanned, Dup!Results
  <2> QED
    BY <2>1, <2>2, ScanAlone
<1>2. ASSUME NEW s \in Scans, Dup!CleanStart(s) PROVE Dup!IInv'
  <2>1. PICK ticked :
          scan' = [scan EXCEPT ![s] = [state |-> "cleaning", lines |-> scan[s].lines, ticked |-> ticked,
                                       seen |-> att, touched |-> {}]]
    BY <1>2 DEF Dup!CleanStart
  <2> DEFINE w == [state |-> "cleaning", lines |-> scan[s].lines, ticked |-> ticked,
                   seen |-> att, touched |-> {}]
  <2>2. Dup!CleanupSees(w)
    BY DEF Dup!CleanupSees, Dup!IInv, Dup!Live
  <2>3. scan' = [scan EXCEPT ![s] = w] /\ att' = att
    BY <1>2, <2>1 DEF Dup!CleanStart
  <2> HIDE DEF w
  <2> QED
    BY <2>2, <2>3, ScanAlone
<1>3. ASSUME NEW s \in Scans, Dup!CleanCommit(s) PROVE Dup!IInv'
  <2>1. PICK w \in Dup!Results(s, Dup!Without(scan[s].seen, Dup!Removed(s))) :
          scan' = [t \in Scans |-> IF t = s THEN w ELSE Dup!Spoil(scan[t], Dup!Removed(s))]
    BY <1>3 DEF Dup!CleanCommit
  <2>2. w.state # "cleaning" /\ att' = Dup!Without(att, Dup!Removed(s))
    BY <1>3 DEF Dup!CleanCommit, Dup!Results
  <2>3. /\ scan' = [t \in Scans |-> scan'[t]]
        /\ \A t \in Scans : Dup!Cleaning(t)' => scan'[t] = Dup!Spoil(scan[t], Dup!Removed(s))
    BY <2>1, <2>2 DEF Dup!Cleaning
  <2>4. Dup!Live' \subseteq Dup!Live /\ \A a \in Dup!Live \ Dup!Removed(s) : a \in Dup!Live' /\ att'[a] = att[a]
    BY <2>2 DEF Dup!Without, Dup!Live
  <2> QED
    BY <2>3, <2>4, RowsSpoiled
<1>4. ASSUME NEW s \in Scans, Dup!CleanFails(s) PROVE Dup!IInv'
  <2> DEFINE w == [state |-> "done", lines |-> scan[s].lines]
  <2>1. scan' = [scan EXCEPT ![s] = w] /\ att' = att /\ w.state # "cleaning"
    BY <1>4 DEF Dup!CleanFails
  <2> HIDE DEF w
  <2> QED
    BY <2>1, ScanAlone
<1>5. ASSUME NEW a \in Attachments, Dup!Delete(a) PROVE Dup!IInv'
  <2>1. att' = Dup!Without(att, {a}) /\ scan' = [t \in Scans |-> Dup!Spoil(scan[t], {a})]
    BY <1>5 DEF Dup!Delete
  <2>2. Dup!Live' \subseteq Dup!Live /\ \A b \in Dup!Live \ {a} : b \in Dup!Live' /\ att'[b] = att[b]
    BY <2>1 DEF Dup!Without, Dup!Live
  <2>3. scan' = [t \in Scans |-> scan'[t]] /\ \A t \in Scans : scan'[t] = Dup!Spoil(scan[t], {a})
    BY <2>1
  <2> QED
    BY <2>2, <2>3, RowsSpoiled
<1>6. ASSUME NEW a \in Attachments, NEW place \in Places, Dup!Move(a, place) PROVE Dup!IInv'
  <2>1. att' = [att EXCEPT ![a] = place] /\ scan' = [t \in Scans |-> Dup!Spoil(scan[t], {a})]
    BY <1>6 DEF Dup!Move
  <2>2. Dup!Live' \subseteq Dup!Live /\ \A b \in Dup!Live \ {a} : b \in Dup!Live' /\ att'[b] = att[b]
    BY <2>1 DEF Dup!Live
  <2>3. scan' = [t \in Scans |-> scan'[t]] /\ \A t \in Scans : scan'[t] = Dup!Spoil(scan[t], {a})
    BY <2>1
  <2> QED
    BY <2>2, <2>3, RowsSpoiled
<1>7. CASE UNCHANGED Dup!vars
  BY <1>7 DEF Dup!vars, Dup!IInv, Dup!CleanupSees, Dup!Live, Dup!Cleaning
<1> QED
  BY <1>1, <1>2, <1>3, <1>4, <1>5, <1>6, <1>7 DEF Dup!Next

\* The copy that is kept is none of those that go with another group, and is still
\* there when nobody touched it.
LEMMA CopyStays ==
  ASSUME Dup!Proper, Dup!IInv
  PROVE  Dup!OneCopyKept
<1> DEFINE att == s1  scan == s2  Attachments == Duplicates.Attachments
           InScope == Duplicates.InScope  Scans == Duplicates.Scans
<1> SUFFICES ASSUME NEW s \in Scans, Dup!CleanCommit(s), NEW key \in Dup!Cleaned(s),
                    Dup!Keeper(s, key) \notin scan[s].touched
             PROVE  Dup!Copies(s, att', key) # {}
  BY DEF Dup!OneCopyKept
<1> DEFINE seen == scan[s].seen
           copies == Dup!Copies(s, seen, key)
           keeper == Dup!Keeper(s, key)
<1>1. /\ DOMAIN seen \subseteq Attachments
      /\ \A a \in DOMAIN seen \ scan[s].touched : a \in Dup!Live /\ seen[a] = att[a]
  BY DEF Dup!CleanCommit, Dup!IInv, Dup!Cleaning, Dup!CleanupSees
<1>2. keeper \in copies
  <2>1. copies # {}
    BY FS_EmptySet, CopiesCounted DEF Dup!Cleaned
  <2>2. copies \in SUBSET Nat
    BY <1>1 DEF Dup!Copies, Dup!Proper
  <2> QED
    BY <2>1, <2>2, LeastCopy DEF Dup!Keeper, Dup!Oldest
<1>3. keeper \in DOMAIN seen \cap InScope /\ Dup!Key(s, seen, keeper) = key
  BY <1>2 DEF Dup!Copies
<1>4. keeper \notin Dup!Removed(s)
  <2> SUFFICES ASSUME NEW other \in Dup!Cleaned(s), keeper \in Dup!Doomed(s, other) PROVE FALSE
    BY DEF Dup!Removed
  <2>1. keeper \in Dup!Copies(s, seen, other) /\ keeper # Dup!Keeper(s, other)
    BY DEF Dup!Doomed
  <2>2. Dup!Key(s, seen, keeper) = other
    BY <2>1 DEF Dup!Copies
  <2> QED
    BY <1>3, <2>1, <2>2
<1>5. keeper \in Dup!Live /\ seen[keeper] = att[keeper]
  BY <1>1, <1>3
<1>6. att' = [a \in Dup!Live \ Dup!Removed(s) |-> att[a]]
  BY DEF Dup!CleanCommit, Dup!Without, Dup!Live
<1> HIDE DEF keeper, seen
<1>7. keeper \in DOMAIN att' /\ att'[keeper] = att[keeper]
  BY <1>4, <1>5, <1>6
<1>8. Dup!Key(s, att', keeper) = key
  BY <1>3, <1>5, <1>7 DEF Dup!Key
<1>9. keeper \in Dup!Copies(s, att', key)
  BY <1>3, <1>7, <1>8 DEF Dup!Copies
<1> QED
  BY <1>9

\* Of a group that is cleaned a copy is left, whatever was deleted or moved between the
\* scan and the clean-up and whatever another clean-up removes meanwhile, unless the
\* oldest copy itself was changed (_perform_cleanup).
THEOREM OneCopyIsKept == Spec => OneCopyKept
<1>1. Init => (part = "duplicates" => Dup!IInv)
  BY ScansBegin DEF Init
<1>2. (part = "duplicates" => Dup!IInv) /\ [Next]_vars => (part = "duplicates" => Dup!IInv)'
  <2> SUFFICES ASSUME part = "duplicates" => Dup!IInv, [Next]_vars, part' = "duplicates"
               PROVE  Dup!IInv'
    OBVIOUS
  <2>1. part = "duplicates" /\ [Dup!Next]_(Dup!vars)
    BY PartStays DEF Next, vars, Dup!vars
  <2> QED
    BY <2>1, ScansStep
<1>3. (part = "duplicates" => Dup!IInv) /\ [Next]_vars =>
        [part = "duplicates" => Dup!OneCopyKept]_vars
  BY CopyStays, AddOnsAssumption
<1> QED
  BY <1>1, <1>2, <1>3, PTL DEF Spec, OneCopyKept

-----------------------------------------------------------------------------
(* OrphanCleaner: what was listed and not edited since is an orphan still  *)
(* when it goes.                                                           *)

LEMMA OrphansBegin == ASSUME Orp!Init PROVE Orp!IInv
BY DEF Orp!Init, Orp!IInv

LEMMA LinesAreTicked ==
  ASSUME NEW lines, NEW confirmed, NEW fewer, NEW w, NEW v,
         w = [state |-> "listed", lines |-> lines, confirmed |-> confirmed],
         v = [w EXCEPT !.lines = fewer, !.confirmed = TRUE]
  PROVE  v = [state |-> "listed", lines |-> fewer, confirmed |-> TRUE]
<1>1. v = [[w EXCEPT !.lines = fewer] EXCEPT !.confirmed = TRUE]
  OBVIOUS
<1>2. [w EXCEPT !.lines = fewer] = [state |-> "listed", lines |-> fewer, confirmed |-> confirmed]
  OBVIOUS
<1> QED
  BY <1>1, <1>2

\* But for the model that is installed again, nothing brings back what an attachment
\* points at.
LEMMA OrphansStay ==
  ASSUME NEW row, Orp!IsOrphan(row), s3' \subseteq s3, s2' => s2
  PROVE  Orp!IsOrphan(row)'
BY DEF Orp!IsOrphan, Orp!Inspected

LEMMA OrphansStep == ASSUME Orp!IInv, [Orp!Next]_(Orp!vars) PROVE Orp!IInv'
<1> DEFINE att == s1  installed == s2  existing == s3  wizard == s4  moved == s5
           returned == s6  Attachments == Leftovers.Attachments  Records == Leftovers.Records
<1>1. CASE Orp!Scan
  <2>1. /\ wizard' = [state |-> "listed", lines |-> Orp!Orphans, confirmed |-> FALSE]
        /\ UNCHANGED <<att, installed, existing>>
    BY <1>1 DEF Orp!Scan
  <2>2. wizard'.lines = Orp!Orphans /\ wizard'.confirmed = FALSE
    BY <2>1
  <2> QED
    BY <2>1, <2>2 DEF Orp!IInv, Orp!Orphans, Orp!IsOrphan, Orp!Inspected
<1>2. CASE Orp!Confirm
  <2>1. PICK ticked \in SUBSET wizard.lines :
          wizard' = [wizard EXCEPT !.lines = ticked, !.confirmed = TRUE]
    BY <1>2 DEF Orp!Confirm
  <2>2. wizard = [state |-> "listed", lines |-> wizard.lines, confirmed |-> wizard.confirmed]
    BY <1>2 DEF Orp!Confirm, Orp!IInv
  <2>3. wizard' = [state |-> "listed", lines |-> ticked, confirmed |-> TRUE]
    <3>1. PICK w, v, lines, confirmed : w = wizard /\ v = wizard' /\ lines = wizard.lines
                                        /\ confirmed = wizard.confirmed
      OBVIOUS
    <3>2. w = [state |-> "listed", lines |-> lines, confirmed |-> confirmed]
      BY <2>2, <3>1
    <3>3. v = [w EXCEPT !.lines = ticked, !.confirmed = TRUE]
      BY <2>1, <3>1
    <3>4. v = [state |-> "listed", lines |-> ticked, confirmed |-> TRUE]
      BY ONLY <3>2, <3>3, LinesAreTicked
    <3> QED
      BY <3>1, <3>4
  <2>4. wizard'.lines = ticked /\ wizard'.confirmed = TRUE
    BY <2>3
  <2>5. wizard.state = "listed" /\ UNCHANGED <<att, installed, existing, moved, returned>>
    BY <1>2 DEF Orp!Confirm
  <2> QED
    BY <2>3, <2>4, <2>5 DEF Orp!IInv, Orp!IsOrphan, Orp!Inspected
<1>3. CASE Orp!Cleanup
  <2>1. /\ wizard'.state = "closed" /\ UNCHANGED <<installed, existing>>
        /\ DOMAIN att' \subseteq DOMAIN att /\ \A b \in DOMAIN att' : att'[b] = att[b]
    BY <1>3 DEF Orp!Cleanup, Orp!Without
  <2> QED
    BY <2>1 DEF Orp!IInv, Orp!Row, Orp!Targets
<1>4. ASSUME installed' => installed, existing' \subseteq existing, ~installed' => existing' = {},
             UNCHANGED <<att, wizard, moved, returned>>
      PROVE  Orp!IInv'
  BY <1>4, OrphansStay DEF Orp!IInv, Orp!Row, Orp!Targets
<1>5. CASE Orp!Uninstall
  BY <1>4, <1>5 DEF Orp!Uninstall
<1>6. CASE Orp!Reinstall
  <2>1. installed' /\ returned' /\ UNCHANGED <<att, wizard, moved>>
    BY <1>6 DEF Orp!Reinstall
  <2> QED
    BY <2>1 DEF Orp!IInv, Orp!Row, Orp!Targets
<1>7. ASSUME NEW a \in Attachments, Orp!Edit(a) PROVE Orp!IInv'
  <2>1. /\ moved' = moved \cup {a} /\ UNCHANGED <<installed, existing, wizard, returned>>
        /\ DOMAIN att' = DOMAIN att /\ \A b \in DOMAIN att \ {a} : att'[b] = att[b]
        /\ a \in DOMAIN att /\ att'[a] \in Orp!Row
    BY <1>7 DEF Orp!Edit
  <2>2. \A b \in DOMAIN att' : att'[b] \in Orp!Row
    BY <2>1 DEF Orp!IInv
  <2> QED
    BY <2>1, <2>2 DEF Orp!IInv, Orp!IsOrphan, Orp!Inspected, Orp!Row, Orp!Targets
<1>8. ASSUME NEW a \in Attachments, Orp!Delete(a) PROVE Orp!IInv'
  <2>1. /\ UNCHANGED <<installed, existing, wizard, moved, returned>>
        /\ DOMAIN att' = DOMAIN att \ {a} /\ \A b \in DOMAIN att \ {a} : att'[b] = att[b]
    BY <1>8 DEF Orp!Delete, Orp!Without
  <2> QED
    BY <2>1 DEF Orp!IInv, Orp!IsOrphan, Orp!Inspected, Orp!Row, Orp!Targets
<1>9. ASSUME NEW r \in Records, Orp!DeleteRecord(r) PROVE Orp!IInv'
  <2>1. /\ installed' = installed /\ existing' = existing \ {r}
        /\ UNCHANGED <<att, wizard, moved, returned>>
    BY <1>9 DEF Orp!DeleteRecord
  <2> QED
    BY <1>4, <2>1 DEF Orp!IInv
<1>10. CASE UNCHANGED Orp!vars
  BY <1>4, <1>10 DEF Orp!vars, Orp!IInv
<1> QED
  BY <1>1, <1>2, <1>3, <1>5, <1>6, <1>7, <1>8, <1>9, <1>10 DEF Orp!Next

\* What goes was listed, and what nobody edited since is an orphan.
LEMMA OrphansOnly == ASSUME Orp!IInv PROVE Orp!OnlyOrphansGo
<1> DEFINE att == s1  installed == s2  existing == s3  wizard == s4  moved == s5  returned == s6
           Assets == Leftovers.Assets  Nowhere == Leftovers.Nowhere
           Pending == Leftovers.Pending  Records == Leftovers.Records
<1> SUFFICES ASSUME Orp!Cleanup, NEW a \in DOMAIN att \ DOMAIN att'
             PROVE  /\ a \in wizard.lines
                    /\ att[a].target \notin Assets \cup {Nowhere} /\ ~att[a].field
                    /\ a \notin moved /\ ~returned =>
                         \/ att[a].target \in Records \ existing
                         \/ att[a].target = Pending /\ ~installed
  BY DEF Orp!OnlyOrphansGo
<1>1. /\ a \in wizard.lines \cap DOMAIN att /\ Orp!Inspected(att[a])
      /\ wizard.state = "listed"
  BY DEF Orp!Cleanup, Orp!Without, Orp!Removable
<1>2. att[a].target \notin Assets \cup {Nowhere} /\ ~att[a].field
  BY <1>1 DEF Orp!Inspected
<1>3. ASSUME a \notin moved, ~returned
      PROVE  \/ att[a].target \in Records \ existing
             \/ att[a].target = Pending /\ ~installed
  <2>1. Orp!IsOrphan(att[a]) /\ (~installed => existing = {})
    BY <1>1, <1>3 DEF Orp!IInv
  <2>2. att[a].target \in Records \cup Assets \cup {Nowhere, Pending}
    BY <1>1 DEF Orp!IInv, Orp!Row, Orp!Targets
  <2> QED
    BY <1>2, <2>1, <2>2 DEF Orp!IsOrphan
<1> QED
  BY <1>1, <1>2, <1>3
-----------------------------------------------------------------------------
(* LinkChecker: a clean-up knows the rows as they are, but for those that  *)
(* were written since, and every file it looked at was missing.            *)

LEMMA LookMoves ==
  ASSUME NEW seen, NEW targets, NEW left, NEW touched, NEW missed, NEW x, NEW d,
         d = [pc |-> "looking", seen |-> seen, targets |-> targets, left |-> left,
              touched |-> touched, missed |-> missed]
  PROVE  /\ [d EXCEPT !.left = x]
               = [pc |-> "looking", seen |-> seen, targets |-> targets, left |-> x,
                  touched |-> touched, missed |-> missed]
         /\ [d EXCEPT !.touched = x]
               = [pc |-> "looking", seen |-> seen, targets |-> targets, left |-> left,
                  touched |-> x, missed |-> missed]
         /\ [d EXCEPT !.missed = x]
               = [pc |-> "looking", seen |-> seen, targets |-> targets, left |-> left,
                  touched |-> touched, missed |-> x]
OBVIOUS

\* What is asked of a clean-up that is looking.
LEMMA LooksOn ==
  ASSUME NEW seen, NEW targets, NEW left, NEW touched, NEW missed,
         s4' = [pc |-> "looking", seen |-> seen, targets |-> targets, left |-> left,
                touched |-> touched, missed |-> missed],
         s3'.state = "done", targets \subseteq DOMAIN seen \cap DOMAIN s3'.lines,
         DOMAIN seen \subseteq Links.Attachments, \A a \in targets : s3'.lines[a] = "missing",
         Lnk!Gone' \subseteq missed, \A a \in targets \ left : seen[a] \in missed,
         \A a \in DOMAIN seen \ touched : a \in DOMAIN s1' /\ s1'[a] = seen[a]
  PROVE  Lnk!DeleteHolds' /\ s4'.pc = "looking"
<1>1. /\ s4'.pc = "looking" /\ s4'.seen = seen /\ s4'.targets = targets /\ s4'.left = left
      /\ s4'.touched = touched /\ s4'.missed = missed
  OBVIOUS
<1> QED
  BY <1>1 DEF Lnk!DeleteHolds

LEMMA LinksBegin == ASSUME Lnk!Init PROVE Lnk!RowsHold
BY DEF Lnk!Init, Lnk!RowsHold, Lnk!DeleteHolds, Lnk!NoDelete

LEMMA LinksStep == ASSUME Lnk!RowsHold, [Lnk!Next]_(Lnk!vars) PROVE Lnk!RowsHold'
<1> DEFINE att == s1  disk == s2  check == s3  delete == s4
           Attachments == Links.Attachments  Files == Links.Files
<1>1. DOMAIN att \subseteq Attachments /\ delete.pc \in {"none", "looking"} /\ Lnk!DeleteHolds
  BY DEF Lnk!RowsHold
<1>2. delete.pc = "looking" => check.state = "done"
  BY <1>1 DEF Lnk!DeleteHolds
<1>3. PICK seen, targets, left, touched, missed :
        /\ seen = delete.seen /\ targets = delete.targets /\ left = delete.left
        /\ touched = delete.touched /\ missed = delete.missed
  OBVIOUS
<1>4. ASSUME delete.pc = "looking"
      PROVE  /\ delete = [pc |-> "looking", seen |-> seen, targets |-> targets, left |-> left,
                          touched |-> touched, missed |-> missed]
             /\ check.state = "done" /\ targets \subseteq DOMAIN seen \cap DOMAIN check.lines
             /\ DOMAIN seen \subseteq Attachments
             /\ \A a \in targets : check.lines[a] = "missing"
             /\ Lnk!Gone \subseteq missed /\ \A a \in targets \ left : seen[a] \in missed
             /\ \A a \in DOMAIN seen \ touched : a \in DOMAIN att /\ att[a] = seen[a]
  BY <1>1, <1>3, <1>4 DEF Lnk!DeleteHolds
<1>5. ASSUME att' = att, disk' = disk, delete' = delete, delete.pc = "none" PROVE Lnk!RowsHold'
  BY <1>5 DEF Lnk!RowsHold, Lnk!DeleteHolds
<1>6. ASSUME delete' = Lnk!NoDelete, disk' = disk, DOMAIN att' \subseteq DOMAIN att
      PROVE  Lnk!RowsHold'
  <2>1. delete'.pc = "none"
    BY <1>6 DEF Lnk!NoDelete
  <2> QED
    BY <1>6, <2>1 DEF Lnk!RowsHold, Lnk!DeleteHolds
<1>7. CASE Lnk!Run \/ Lnk!ScanPage \/ Lnk!ScanEnds
  <2>1. att' = att /\ disk' = disk /\ delete' = delete
    BY <1>7 DEF Lnk!Run, Lnk!ScanPage, Lnk!ScanEnds
  <2>2. delete.pc = "none" \/ check.state = "scanning"
    BY <1>7 DEF Lnk!Run, Lnk!ScanPage, Lnk!ScanEnds
  <2> QED
    BY <1>1, <1>2, <1>5, <2>1, <2>2
<1>8. CASE Lnk!DeleteStart
  <2>1. /\ check.state = "done" /\ UNCHANGED <<att, disk, check>>
    BY <1>8 DEF Lnk!DeleteStart
  <2>2. PICK ticked \in SUBSET DOMAIN check.lines :
          /\ \A a \in ticked : check.lines[a] = "missing"
          /\ delete' = [pc |-> "looking", seen |-> att, targets |-> ticked \cap DOMAIN att,
                        left |-> ticked \cap DOMAIN att, touched |-> {}, missed |-> Lnk!Gone]
    BY <1>8 DEF Lnk!DeleteStart
  <2>3. Lnk!Gone' = Lnk!Gone
    BY <2>1 DEF Lnk!Gone
  <2>4. PICK as, rows, none, gone :
          as = ticked \cap DOMAIN att /\ rows = att /\ none = {} /\ gone = Lnk!Gone
    OBVIOUS
  <2>5. delete' = [pc |-> "looking", seen |-> rows, targets |-> as, left |-> as,
                   touched |-> none, missed |-> gone]
    BY <2>2, <2>4
  <2>6. Lnk!DeleteHolds' /\ delete'.pc = "looking"
    BY <1>1, <2>1, <2>2, <2>3, <2>4, <2>5, LooksOn
  <2> QED
    BY <2>1, <2>6 DEF Lnk!RowsHold
<1>9. ASSUME NEW a \in Attachments, Lnk!LookAgain(a) PROVE Lnk!RowsHold'
  <2>1. delete.pc = "looking" /\ UNCHANGED <<att, disk, check>>
    BY <1>9 DEF Lnk!LookAgain
  <2>2. CASE Lnk!StillMissing(a)
    <3>1. delete' = [delete EXCEPT !.left = left \ {a}]
      BY <1>3, <1>9, <2>2 DEF Lnk!LookAgain
    <3>2. delete' = [pc |-> "looking", seen |-> seen, targets |-> targets, left |-> left \ {a},
                     touched |-> touched, missed |-> missed]
      BY <1>4, <2>1, <3>1, LookMoves
    <3>3. seen[a] \in Lnk!Gone
      BY <1>3, <2>2 DEF Lnk!StillMissing, Lnk!Gone
    <3>4. Lnk!Gone' \subseteq missed /\ \A b \in targets \ (left \ {a}) : seen[b] \in missed
      BY <1>4, <2>1, <3>3 DEF Lnk!Gone
    <3>5. Lnk!DeleteHolds' /\ delete'.pc = "looking"
      BY <1>4, <2>1, <3>2, <3>4, LooksOn
    <3> QED
      BY <2>1, <3>5 DEF Lnk!RowsHold
  <2>3. CASE ~Lnk!StillMissing(a)
    <3>1. delete' = Lnk!NoDelete
      BY <1>9, <2>3 DEF Lnk!LookAgain
    <3> QED
      BY <1>6, <2>1, <3>1
  <2> QED
    BY <2>2, <2>3
<1>10. CASE Lnk!DeleteCommit
  <2>1. delete' = Lnk!NoDelete /\ disk' = disk /\ DOMAIN att' \subseteq DOMAIN att
    BY <1>10 DEF Lnk!DeleteCommit, Lnk!Kept
  <2> QED
    BY <1>6, <2>1
<1>11. CASE Lnk!DeleteFails
  <2>1. delete' = Lnk!NoDelete /\ disk' = disk /\ DOMAIN att' \subseteq DOMAIN att
    BY <1>11 DEF Lnk!DeleteFails
  <2> QED
    BY <1>6, <2>1
<1>12. ASSUME NEW a \in Attachments, Lnk!Replace(a) \/ Lnk!Delete(a) PROVE Lnk!RowsHold'
  <2>1. Lnk!Written(a) /\ DOMAIN att' \subseteq DOMAIN att
        /\ \A b \in DOMAIN att \ {a} : b \in DOMAIN att' /\ att'[b] = att[b]
    BY <1>12 DEF Lnk!Replace, Lnk!Delete, Lnk!Kept, Lnk!Written
  <2>2. UNCHANGED <<disk, check>>
    BY <2>1 DEF Lnk!Written
  <2>3. CASE delete.pc = "looking"
    <3>1. delete' = [delete EXCEPT !.touched = touched \cup {a}]
      BY <1>3, <2>1, <2>3 DEF Lnk!Written
    <3>2. delete' = [pc |-> "looking", seen |-> seen, targets |-> targets, left |-> left,
                     touched |-> touched \cup {a}, missed |-> missed]
      BY <1>4, <2>3, <3>1, LookMoves
    <3>3. \A b \in DOMAIN seen \ (touched \cup {a}) : b \in DOMAIN att' /\ att'[b] = seen[b]
      BY <1>4, <2>1, <2>3
    <3>4. Lnk!Gone' = Lnk!Gone
      BY <2>2 DEF Lnk!Gone
    <3>5. Lnk!DeleteHolds' /\ delete'.pc = "looking"
      BY <1>4, <2>2, <2>3, <3>2, <3>3, <3>4, LooksOn
    <3> QED
      BY <2>1, <2>2, <3>5 DEF Lnk!RowsHold
  <2>4. CASE delete.pc # "looking"
    <3>1. delete' = delete
      BY <2>1, <2>4 DEF Lnk!Written
    <3> QED
      BY <2>1, <2>2, <2>4, <3>1 DEF Lnk!RowsHold, Lnk!DeleteHolds
  <2> QED
    BY <2>3, <2>4
<1>13. ASSUME NEW f \in Files, Lnk!DiskChanges(f) PROVE Lnk!RowsHold'
  <2>1. /\ att' = att /\ check' = check /\ disk' = [g \in Files |-> disk'[g]]
        /\ \A g \in Files \ {f} : disk'[g] = disk[g]
    BY <1>13 DEF Lnk!DiskChanges, Lnk!RowsHold
  <2>2. CASE delete.pc = "looking"
    <3>1. PICK more : /\ missed \subseteq more /\ (disk'[f] = "missing" => f \in more)
                      /\ delete' = [pc |-> "looking", seen |-> seen, targets |-> targets,
                                    left |-> left, touched |-> touched, missed |-> more]
      <4>1. CASE disk'[f] = "missing"
        <5>1. delete' = [delete EXCEPT !.missed = missed \cup {f}]
          BY <1>3, <1>13, <2>2, <4>1 DEF Lnk!DiskChanges
        <5>2. PICK d, v, more : d = delete /\ v = delete' /\ more = missed \cup {f}
          OBVIOUS
        <5>3. d = [pc |-> "looking", seen |-> seen, targets |-> targets, left |-> left,
                   touched |-> touched, missed |-> missed]
          BY <1>4, <2>2, <5>2
        <5>4. v = [d EXCEPT !.missed = more]
          BY <5>1, <5>2
        <5>5. v = [pc |-> "looking", seen |-> seen, targets |-> targets, left |-> left,
                   touched |-> touched, missed |-> more]
          BY ONLY <5>3, <5>4, LookMoves
        <5> QED
          BY <5>2, <5>5
      <4>2. CASE disk'[f] # "missing"
        <5>1. delete' = delete
          BY <1>13, <2>2, <4>2 DEF Lnk!DiskChanges
        <5>2. delete' = [pc |-> "looking", seen |-> seen, targets |-> targets, left |-> left,
                         touched |-> touched, missed |-> missed]
          BY <1>4, <2>2, <5>1
        <5> QED
          BY <4>2, <5>2
      <4> QED
        BY <4>1, <4>2
    <3>2. Lnk!Gone' \subseteq more
      BY <1>4, <2>1, <2>2, <3>1 DEF Lnk!Gone
    <3>3. \A a \in targets \ left : seen[a] \in more
      BY <1>4, <2>2, <3>1
    <3>4. Lnk!DeleteHolds' /\ delete'.pc = "looking"
      BY <1>4, <2>1, <2>2, <3>1, <3>2, <3>3, LooksOn
    <3> QED
      BY <2>1, <3>4 DEF Lnk!RowsHold
  <2>3. CASE delete.pc # "looking"
    <3>1. delete' = delete
      BY <1>13, <2>3 DEF Lnk!DiskChanges
    <3> QED
      BY <2>1, <2>3, <3>1 DEF Lnk!RowsHold, Lnk!DeleteHolds
  <2> QED
    BY <2>2, <2>3
<1>14. CASE UNCHANGED Lnk!vars
  BY <1>14 DEF Lnk!vars, Lnk!RowsHold, Lnk!DeleteHolds, Lnk!Gone
<1> QED
  BY <1>7, <1>8, <1>9, <1>10, <1>11, <1>12, <1>13, <1>14 DEF Lnk!Next

\* The rows that go are those of the request, and each of them was looked at.
LEMMA DanglingOnly == ASSUME Lnk!RowsHold PROVE Lnk!OnlyDanglingGo
<1> DEFINE att == s1  check == s3  delete == s4
<1> SUFFICES ASSUME Lnk!DeleteCommit, NEW a \in DOMAIN att \ DOMAIN att'
             PROVE  /\ a \in DOMAIN check.lines /\ check.lines[a] = "missing"
                    /\ a \in DOMAIN delete.seen /\ att[a] = delete.seen[a]
                    /\ att[a] \in delete.missed
  BY DEF Lnk!OnlyDanglingGo
<1>1. a \in delete.targets \ delete.touched /\ delete.pc = "looking" /\ delete.left = {}
  BY DEF Lnk!DeleteCommit, Lnk!Kept, Lnk!Unlinked
<1> QED
  BY <1>1 DEF Lnk!RowsHold, Lnk!DeleteHolds
-----------------------------------------------------------------------------
(* What a clean-up deletes *)

\* A clean-up deletes attachments that were listed and are orphans still, unless somebody
\* edited them or their model was installed again since the scan; and rows that were
\* reported missing, that nobody wrote since the button was pressed, and whose file was
\* missing at some time since then (action_cleanup, action_delete_ticked).
THEOREM OnlyDeadAreDeleted == Spec => OnlyDeadGo
<1> DEFINE Inv == (part = "orphans" => Orp!IInv) /\ (part = "links" => Lnk!RowsHold)
<1>1. Init => Inv
  BY OrphansBegin, LinksBegin DEF Init
<1>2. Inv /\ [Next]_vars => Inv'
  <2> SUFFICES ASSUME Inv, [Next]_vars PROVE Inv'
    OBVIOUS
  <2>1. ASSUME part' = "orphans" PROVE Orp!IInv'
    <3>1. part = "orphans" /\ [Orp!Next]_(Orp!vars)
      BY <2>1, PartStays DEF Next, vars, Orp!vars
    <3> QED
      BY <3>1, OrphansStep
  <2>2. ASSUME part' = "links" PROVE Lnk!RowsHold'
    <3>1. part = "links" /\ [Lnk!Next]_(Lnk!vars)
      BY <2>2, PartStays DEF Next, vars, Lnk!vars
    <3> QED
      BY <3>1, LinksStep
  <2> QED
    BY <2>1, <2>2
<1>3. Inv /\ [Next]_vars =>
        [/\ part = "orphans" => Orp!OnlyOrphansGo
         /\ part = "links" => Lnk!OnlyDanglingGo]_vars
  BY OrphansOnly, DanglingOnly
<1> QED
  BY <1>1, <1>2, <1>3, PTL DEF Spec, OnlyDeadGo

-----------------------------------------------------------------------------
(* DefaultValues: what is being deleted is shown to who deletes it.        *)

LEMMA DialogsBegin == ASSUME Def!Init PROVE Def!IInv
<1> DEFINE wizard == s5  Admins == Defaults.Admins
<1>1. wizard = [a \in Admins |-> Def!Closed]
  BY DEF Def!Init
<1>2. \A a \in Admins : wizard[a].pc = "closed"
  BY <1>1 DEF Def!Closed
<1> QED
  BY <1>1, <1>2 DEF Def!IInv, Def!Fits

LEMMA SetTouched ==
  ASSUME NEW row, NEW same, NEW touched, NEW more, NEW w, NEW v,
         w = [pc |-> "set", row |-> row, same |-> same, touched |-> touched],
         v = [w EXCEPT !.touched = more]
  PROVE  v = [pc |-> "set", row |-> row, same |-> same, touched |-> more]
OBVIOUS

LEMMA DeleteTouched ==
  ASSUME NEW selected, NEW touched, NEW more, NEW w, NEW v,
         w = [pc |-> "delete", selected |-> selected, touched |-> touched],
         v = [w EXCEPT !.touched = more]
  PROVE  v = [pc |-> "delete", selected |-> selected, touched |-> more]
OBVIOUS

\* A dialog that is told of ds still fits when nothing else is hidden from its owner.
LEMMA SpoiledFits ==
  ASSUME NEW a, NEW w, NEW v, NEW ds, Def!Fits(w, a), Def!Shown(a) \ ds \subseteq Def!Shown(a)',
         v = IF w.pc \in {"set", "delete"} THEN [w EXCEPT !.touched = w.touched \cup ds] ELSE w
  PROVE  Def!Fits(v, a)'
<1>1. CASE w.pc = "set"
  <2>1. PICK row, same, touched, more : /\ row = w.row /\ same = w.same /\ touched = w.touched
                                        /\ more = w.touched \cup ds
    OBVIOUS
  <2>2. w = [pc |-> "set", row |-> row, same |-> same, touched |-> touched]
    BY <1>1, <2>1 DEF Def!Fits
  <2>3. v = [w EXCEPT !.touched = more]
    BY <1>1, <2>1
  <2>4. v = [pc |-> "set", row |-> row, same |-> same, touched |-> more]
    BY ONLY <2>2, <2>3, SetTouched
  <2>5. v.pc = "set" /\ v.row = row /\ v.same = same /\ v.touched = more
    BY <2>4
  <2> QED
    BY <2>4, <2>5 DEF Def!Fits
<1>2. CASE w.pc = "delete"
  <2>1. PICK selected, touched, more : /\ selected = w.selected /\ touched = w.touched
                                       /\ more = w.touched \cup ds
    OBVIOUS
  <2>2. w = [pc |-> "delete", selected |-> selected, touched |-> touched]
    BY <1>2, <2>1 DEF Def!Fits
  <2>3. v = [w EXCEPT !.touched = more]
    BY <1>2, <2>1
  <2>4. v = [pc |-> "delete", selected |-> selected, touched |-> more]
    BY ONLY <2>2, <2>3, DeleteTouched
  <2>5. v.pc = "delete" /\ v.selected = selected /\ v.touched = touched \cup ds
    BY <2>1, <2>4
  <2>6. selected \ touched \subseteq Def!Shown(a)
    BY <1>2, <2>1 DEF Def!Fits
  <2> QED
    BY <2>1, <2>4, <2>5, <2>6 DEF Def!Fits
<1>3. CASE w.pc \notin {"set", "delete"}
  BY <1>3 DEF Def!Fits
<1> QED
  BY <1>1, <1>2, <1>3

\* One dialog is replaced by w, the others are told of ds.
LEMMA DialogsFit ==
  ASSUME Def!IInv, NEW a \in Defaults.Admins, NEW w, NEW ds,
         s5' = Def!Spoil([s5 EXCEPT ![a] = w], ds),
         w.pc \in {"set", "delete"} => FALSE,
         \A b \in Defaults.Admins : Def!Shown(b) \ ds \subseteq Def!Shown(b)'
  PROVE  Def!IInv'
<1> DEFINE wizard == s5  Admins == Defaults.Admins
<1> DEFINE u == [wizard EXCEPT ![a] = w]
<1>1. /\ u[a] = w /\ \A b \in Admins \ {a} : u[b] = wizard[b]
  BY DEF Def!IInv
<1>2. ASSUME NEW b \in Admins PROVE Def!Fits(u[b], b)
  <2>1. CASE b = a
    BY <1>1, <2>1 DEF Def!Fits
  <2>2. CASE b # a
    BY <1>1, <2>2 DEF Def!IInv
  <2> QED
    BY <2>1, <2>2
<1> HIDE DEF u
<1>3. ASSUME NEW b \in Admins PROVE Def!Fits(wizard[b], b)'
  <2>1. wizard'[b] = IF u[b].pc \in {"set", "delete"}
                     THEN [u[b] EXCEPT !.touched = u[b].touched \cup ds] ELSE u[b]
    BY DEF Def!Spoil, u
  <2>2. PICK x, v : x = u[b] /\ v = wizard'[b]
    OBVIOUS
  <2>3. v = IF x.pc \in {"set", "delete"} THEN [x EXCEPT !.touched = x.touched \cup ds] ELSE x
    BY <2>1, <2>2
  <2>4. Def!Fits(x, b)
    BY <1>2, <2>2
  <2>5. Def!Fits(v, b)'
    BY <2>3, <2>4, SpoiledFits
  <2> QED
    BY <2>2, <2>5 DEF Def!Fits
<1>4. wizard' = [b \in Admins |-> wizard'[b]]
  BY DEF Def!Spoil
<1> QED
  BY <1>3, <1>4 DEF Def!IInv

\* One dialog is replaced by w, and the entries stay.
LEMMA DialogReplaced ==
  ASSUME Def!IInv, NEW a \in Defaults.Admins, NEW w, s5' = [s5 EXCEPT ![a] = w], Def!Fits(w, a),
         UNCHANGED s1
  PROVE  Def!IInv'
<1> DEFINE wizard == s5  Admins == Defaults.Admins
<1>1. /\ wizard'[a] = w /\ wizard' = [b \in Admins |-> wizard'[b]]
      /\ \A b \in Admins \ {a} : wizard'[b] = wizard[b]
  BY DEF Def!IInv
<1>2. \A b \in Admins : Def!Fits(wizard'[b], b)
  BY <1>1 DEF Def!IInv
<1> QED
  BY <1>1, <1>2 DEF Def!IInv, Def!Fits, Def!Shown, Def!Live

LEMMA DialogsStep == ASSUME Def!IInv, [Def!Next]_(Def!vars) PROVE Def!IInv'
<1> DEFINE default == s1  wizard == s5  Slots == Defaults.Slots  Admins == Defaults.Admins
<1>1. ASSUME NEW a \in Admins, Def!SetStart(a) PROVE Def!IInv'
  <2>1. PICK row, same : wizard' = [wizard EXCEPT ![a] =
                           [pc |-> "set", row |-> row, same |-> same, touched |-> {}]]
    BY <1>1 DEF Def!SetStart
  <2> DEFINE w == [pc |-> "set", row |-> row, same |-> same, touched |-> {}]
  <2>2. Def!Fits(w, a) /\ wizard' = [wizard EXCEPT ![a] = w] /\ UNCHANGED default
    BY <1>1, <2>1 DEF Def!Fits, Def!SetStart
  <2> HIDE DEF w
  <2> QED
    BY <2>2, DialogReplaced
<1>2. ASSUME NEW a \in Admins, Def!SetCommit(a) PROVE Def!IInv'
  <2>1. PICK d, row : /\ default' = [x \in Def!Live \cup {d} |-> IF x = d THEN row ELSE default[x]]
                      /\ wizard' = Def!Spoil([wizard EXCEPT ![a] = Def!Closed], {d})
    BY <1>2 DEF Def!SetCommit
  <2>2. \A b \in Admins : Def!Shown(b) \ {d} \subseteq Def!Shown(b)'
    BY <2>1 DEF Def!Shown, Def!Live
  <2>3. Def!Closed.pc = "closed"
    BY DEF Def!Closed
  <2> QED
    BY <2>1, <2>2, <2>3, DialogsFit
<1>3. ASSUME NEW a \in Admins, Def!OpenDelete(a) PROVE Def!IInv'
  <2>1. PICK selected : wizard' = [wizard EXCEPT ![a] = [pc |-> "dialog", selected |-> selected]]
    BY <1>3 DEF Def!OpenDelete
  <2> DEFINE w == [pc |-> "dialog", selected |-> selected]
  <2>2. Def!Fits(w, a) /\ wizard' = [wizard EXCEPT ![a] = w] /\ UNCHANGED default
    BY <1>3, <2>1 DEF Def!Fits, Def!OpenDelete
  <2> HIDE DEF w
  <2> QED
    BY <2>2, DialogReplaced
<1>4. ASSUME NEW a \in Admins, Def!DeleteStart(a) PROVE Def!IInv'
  <2> DEFINE ds == wizard[a].selected \cap Def!Live
             open == [pc |-> "delete", selected |-> ds, touched |-> {}]
             w == IF Def!MayDelete(a, ds) THEN open ELSE Def!Closed
  <2>1. wizard' = [wizard EXCEPT ![a] = w] /\ UNCHANGED default
    BY <1>4 DEF Def!DeleteStart
  <2>2. CASE Def!MayDelete(a, ds)
    <3>1. Def!Fits(open, a)
      BY <2>2 DEF Def!Fits, Def!MayDelete
    <3>2. wizard' = [wizard EXCEPT ![a] = open]
      BY <2>1, <2>2
    <3> HIDE DEF open, w, ds
    <3> QED
      BY <2>1, <3>1, <3>2, DialogReplaced
  <2>3. CASE ~Def!MayDelete(a, ds)
    <3>1. Def!Fits(Def!Closed, a)
      BY DEF Def!Fits, Def!Closed
    <3>2. wizard' = [wizard EXCEPT ![a] = Def!Closed]
      BY <2>1, <2>3
    <3> HIDE DEF open, w, ds
    <3> QED
      BY <2>1, <3>1, <3>2, DialogReplaced
  <2> QED
    BY <2>2, <2>3
<1>5. ASSUME NEW a \in Admins, Def!DeleteCommit(a) PROVE Def!IInv'
  <2>1. /\ default' = [d \in Def!Live \ wizard[a].selected |-> default[d]]
        /\ wizard' = Def!Spoil([wizard EXCEPT ![a] = Def!Closed], wizard[a].selected)
    BY <1>5 DEF Def!DeleteCommit
  <2>2. \A b \in Admins : Def!Shown(b) \ wizard[a].selected \subseteq Def!Shown(b)'
    BY <2>1 DEF Def!Shown, Def!Live
  <2>3. Def!Closed.pc = "closed"
    BY DEF Def!Closed
  <2> QED
    BY <2>1, <2>2, <2>3, DialogsFit
<1>6. ASSUME NEW a \in Admins, Def!Closes(a) PROVE Def!IInv'
  BY <1>6, DialogReplaced DEF Def!Closes, Def!Fits, Def!Closed
<1>7. ASSUME NEW d \in Slots, Def!Rewrite(d) PROVE Def!IInv'
  <2>1. wizard' = Def!Spoil(wizard, {d})
    BY <1>7 DEF Def!Rewrite
  <2>2. DOMAIN default' = Def!Live /\ \A x \in Def!Live \ {d} : default'[x] = default[x]
    BY <1>7 DEF Def!Rewrite, Def!Live
  <2>3. \A b \in Admins : Def!Shown(b) \ {d} \subseteq Def!Shown(b)'
    BY <2>2 DEF Def!Shown, Def!Live
  <2>4. ASSUME NEW b \in Admins PROVE Def!Fits(wizard[b], b)'
    <3>1. wizard'[b] = IF wizard[b].pc \in {"set", "delete"}
                       THEN [wizard[b] EXCEPT !.touched = wizard[b].touched \cup {d}] ELSE wizard[b]
      BY <2>1 DEF Def!Spoil
    <3>2. PICK x, v : x = wizard[b] /\ v = wizard'[b]
      OBVIOUS
    <3>3. v = IF x.pc \in {"set", "delete"} THEN [x EXCEPT !.touched = x.touched \cup {d}] ELSE x
      BY <3>1, <3>2
    <3>4. Def!Fits(x, b) /\ Def!Shown(b) \ {d} \subseteq Def!Shown(b)'
      BY <2>3, <3>2 DEF Def!IInv
    <3>5. Def!Fits(v, b)'
      BY <3>3, <3>4, SpoiledFits
    <3> QED
      BY <3>2, <3>5 DEF Def!Fits
  <2>5. wizard' = [b \in Admins |-> wizard'[b]]
    BY <2>1 DEF Def!Spoil
  <2> QED
    BY <2>4, <2>5 DEF Def!IInv
<1>8. CASE Def!Uninstall \/ UNCHANGED Def!vars
  <2>1. UNCHANGED <<default, wizard>>
    BY <1>8 DEF Def!Uninstall, Def!vars
  <2> QED
    BY <2>1 DEF Def!IInv, Def!Fits, Def!Shown, Def!Live
<1> QED
  BY <1>1, <1>2, <1>3, <1>4, <1>5, <1>6, <1>7, <1>8 DEF Def!Next

\* What goes is on the list of who deletes it: it was when the transaction began, and
\* was not written since.
LEMMA ShownOnly == ASSUME Def!IInv PROVE Def!OnlyShownGo
<1> DEFINE default == s1  wizard == s5  Admins == Defaults.Admins
<1> SUFFICES ASSUME NEW a \in Admins, Def!DeleteCommit(a)
             PROVE  Def!Live \ DOMAIN default' \subseteq Def!Shown(a)
  BY DEF Def!OnlyShownGo
<1>1. /\ wizard[a].selected \ wizard[a].touched \subseteq Def!Shown(a)
      /\ wizard[a].touched \cap wizard[a].selected = {}
  BY DEF Def!DeleteCommit, Def!IInv, Def!Fits
<1>2. Def!Live \ DOMAIN default' \subseteq wizard[a].selected
  BY DEF Def!DeleteCommit
<1> QED
  BY <1>1, <1>2
-----------------------------------------------------------------------------
(* ExportAudit: ids follow dates up to the time a request lasts.           *)

LEMMA LogBegins == ASSUME Exp!Proper, Exp!Init PROVE Exp!IInv
<1> DEFINE tx == s1  pending == s2  written == s3  serial == s7  setting == s8  now == s9
           Txs == Exports.Txs
<1>1. tx \in [Txs -> Exp!Transactions]
  BY DEF Exp!Init, Exp!NoTx, Exp!Transactions
<1>2. \A t \in Txs : tx[t].pc = "new" /\ DOMAIN pending[t] = {} /\ written[t] = {}
  BY DEF Exp!Init, Exp!NoTx, Exp!Nothing
<1>3. Exp!Rows = {}
  BY <1>2 DEF Exp!Init, Exp!Rows
<1>4. pending = [t \in Txs |-> pending[t]] /\ written = [t \in Txs |-> written[t]]
  BY DEF Exp!Init
<1>5. now \in Nat /\ serial \in Nat /\ setting \in Int
  BY DEF Exp!Init, Exp!Proper
<1> QED
  BY <1>1, <1>2, <1>3, <1>4, <1>5 DEF Exp!IInv, Exp!OpenTyped, Exp!IdsFollowDates, Exp!Open

\* Rows that were there keep what is said of them.
LEMMA RowsKept ==
  ASSUME Exp!IdsFollowDates, s9 \in Nat, s9' \in Nat, s9 <= s9', s7' = s7,
         Exp!Rows' \subseteq Exp!Rows
  PROVE  Exp!IdsFollowDates'
<1> DEFINE serial == s7  now == s9  MaxOpen == Exports.MaxOpen
<1>1. ASSUME NEW r \in Exp!Rows'
      PROVE  r.id \in Nat /\ r.id <= serial' /\ r.date \in Nat /\ r.date <= now'
  <2>1. r.id \in Nat /\ r.id <= serial /\ r.date \in Nat /\ r.date <= now
    BY DEF Exp!IdsFollowDates
  <2> QED
    BY <2>1
<1>2. \A r \in Exp!Rows' : \A e \in Exp!Rows' : r.id <= e.id => r.date <= e.date + MaxOpen
  BY DEF Exp!IdsFollowDates
<1> QED
  BY <1>1, <1>2 DEF Exp!IdsFollowDates

LEMMA ExportsCounted ==
  /\ \A S : Exp!Cardinality(S) = Cardinality(S)
  /\ \A S : Exp!IsFiniteSet(S) <=> IsFiniteSet(S)
<1>1. \A S : Exp!Cardinality(S) = Cardinality(S)
  BY DEF Exp!Cardinality, Exp!IsFiniteSet, Cardinality, IsFiniteSet
<1>2. \A S : Exp!IsFiniteSet(S) <=> IsFiniteSet(S)
  BY DEF Exp!IsFiniteSet, IsFiniteSet
<1> QED
  BY <1>1, <1>2

\* The rows a transaction writes take ids behind all others, and the date at which
\* it began, which is not long ago.
LEMMA RowsFlushed ==
  ASSUME Exp!Proper, Exp!IInv, NEW t \in Exports.Txs, Exp!Open(t), NEW failed,
         Exp!Flushed(t, failed),
         s6' = s6, s9' = s9
  PROVE  /\ s3' = [u \in Exports.Txs |-> s3'[u]]
         /\ s7' \in Nat /\ Exp!IdsFollowDates'
<1> DEFINE tx == s1  pending == s2  written == s3  serial == s7  now == s9  Txs == Exports.Txs
           Keys == Exports.Keys  MaxOpen == Exports.MaxOpen
<1> DEFINE kept == DOMAIN pending[t] \ failed
           fresh(id) == {[tx |-> t, key |-> k, count |-> pending[t][k], id |-> id[k],
                          date |-> tx[t].start] : k \in kept}
<1>1. PICK id \in [kept -> (serial + 1)..(serial + Exp!Cardinality(kept))] :
        /\ written' = [written EXCEPT ![t] = written[t] \cup fresh(id)]
        /\ serial' = serial + Exp!Cardinality(kept)
  BY DEF Exp!Flushed
<1>2. Exp!Cardinality(kept) \in Nat
  <2>1. kept \subseteq Keys
    BY DEF Exp!IInv, Exp!OpenTyped
  <2>2. Exp!IsFiniteSet(kept)
    BY <2>1, FS_Subset, ExportsCounted DEF Exp!Proper
  <2> QED
    BY <2>2, FS_CardinalityType, ExportsCounted
<1>3. /\ serial \in Nat /\ now \in Nat /\ tx[t].start \in Nat /\ MaxOpen \in Nat
      /\ tx[t].start <= now /\ now <= tx[t].start + MaxOpen
  BY DEF Exp!IInv, Exp!OpenTyped, Exp!Proper, Exp!Open, Exp!Transactions
<1>4. \A r \in fresh(id) : r.id \in Nat /\ r.id > serial /\ r.id <= serial' /\ r.date = tx[t].start
  <2> SUFFICES ASSUME NEW k \in kept
               PROVE  id[k] \in Nat /\ id[k] > serial /\ id[k] <= serial'
    OBVIOUS
  <2>1. id[k] \in (serial + 1)..(serial + Exp!Cardinality(kept))
    OBVIOUS
  <2> HIDE DEF kept
  <2> QED
    BY <1>1, <1>2, <1>3, <2>1
<1> HIDE DEF fresh, kept
<1>5. /\ written' = [u \in Txs |-> written'[u]]
      /\ written'[t] = written[t] \cup fresh(id)
      /\ \A u \in Txs \ {t} : written'[u] = written[u]
  BY <1>1 DEF Exp!IInv, Exp!OpenTyped
<1>6. Exp!Rows' \subseteq Exp!Rows \cup fresh(id)
  BY <1>5 DEF Exp!Rows
<1>7. \A r \in Exp!Rows : r.id \in Nat /\ r.id <= serial /\ r.date \in Nat /\ r.date <= now
  BY DEF Exp!IInv, Exp!IdsFollowDates
<1>8. serial' \in Nat /\ serial <= serial'
  BY <1>1, <1>2, <1>3
<1>9. \A r \in Exp!Rows' : r.id \in Nat /\ r.id <= serial' /\ r.date \in Nat /\ r.date <= now'
  <2> SUFFICES ASSUME NEW r \in Exp!Rows'
               PROVE  r.id \in Nat /\ r.id <= serial' /\ r.date \in Nat /\ r.date <= now'
    OBVIOUS
  <2>1. CASE r \in Exp!Rows
    BY <1>3, <1>7, <1>8, <2>1
  <2>2. CASE r \in fresh(id)
    BY <1>3, <1>4, <2>2
  <2> QED
    BY <1>6, <2>1, <2>2
<1>10. ASSUME NEW r \in Exp!Rows', NEW e \in Exp!Rows', r.id <= e.id
       PROVE  r.date <= e.date + MaxOpen
  <2>1. CASE r \in Exp!Rows /\ e \in Exp!Rows
    BY <1>10, <2>1 DEF Exp!IInv, Exp!IdsFollowDates
  <2>2. CASE e \in fresh(id)
    <3>1. r.date \in Nat /\ r.date <= now /\ e.date = tx[t].start
      BY <1>4, <1>9, <2>2
    <3> QED
      BY <1>3, <3>1
  <2>3. CASE r \in fresh(id) /\ e \in Exp!Rows /\ e \notin fresh(id)
    <3>1. r.id \in Nat /\ e.id \in Nat /\ r.id > serial /\ e.id <= serial
      BY <1>4, <1>7, <2>3
    <3> QED
      BY <1>3, <1>10, <3>1
  <2> QED
    BY <1>6, <2>1, <2>2, <2>3
<1> QED
  BY <1>5, <1>8, <1>9, <1>10 DEF Exp!IdsFollowDates

\* A step of one transaction that is open, or begins, or ends.
LEMMA TxChanges ==
  ASSUME Exp!IInv, NEW t \in Exports.Txs, NEW v \in Exp!Transactions, s1' = [s1 EXCEPT ![t] = v],
         v.pc \in {"open", "closing"} => v.start <= s9 /\ s9 <= v.start + Exports.MaxOpen,
         NEW p, s2' = [s2 EXCEPT ![t] = p], DOMAIN p \subseteq Exports.Keys,
         s3' = [u \in Exports.Txs |-> s3'[u]], s7' \in Nat, UNCHANGED <<s9, s8>>
  PROVE  Exp!OpenTyped'
<1> DEFINE tx == s1  pending == s2  now == s9  Txs == Exports.Txs  Keys == Exports.Keys
           MaxOpen == Exports.MaxOpen
<1>1. /\ tx' \in [Txs -> Exp!Transactions] /\ tx'[t] = v
      /\ \A u \in Txs \ {t} : tx'[u] = tx[u]
  BY DEF Exp!IInv, Exp!OpenTyped
<1>2. /\ pending' = [u \in Txs |-> pending'[u]] /\ pending'[t] = p
      /\ \A u \in Txs \ {t} : pending'[u] = pending[u]
  BY DEF Exp!IInv, Exp!OpenTyped
<1>3. \A u \in Txs : DOMAIN pending'[u] \subseteq Keys
  BY <1>2 DEF Exp!IInv, Exp!OpenTyped
<1>4. ASSUME NEW u \in Txs, Exp!Open(u)'
      PROVE  tx'[u].start <= now' /\ now' <= tx'[u].start + MaxOpen
  <2>1. CASE u = t
    BY <1>1, <1>4, <2>1 DEF Exp!Open
  <2>2. CASE u # t
    BY <1>1, <1>4, <2>2 DEF Exp!Open, Exp!IInv, Exp!OpenTyped
  <2> QED
    BY <2>1, <2>2
<1> QED
  BY <1>1, <1>2, <1>3, <1>4 DEF Exp!IInv, Exp!OpenTyped

\* The transaction as it is, and what it has counted.
LEMMA TxAsItIs ==
  ASSUME Exp!IInv, NEW t \in Exports.Txs
  PROVE  /\ s1[t] \in Exp!Transactions /\ DOMAIN s2[t] \subseteq Exports.Keys
         /\ s2 = [s2 EXCEPT ![t] = s2[t]]
         /\ s3 = [u \in Exports.Txs |-> s3[u]]
         /\ s1[t].pc \in {"open", "closing"} => s1[t].start <= s9 /\ s9 <= s1[t].start + Exports.MaxOpen
<1> DEFINE pending == s2
<1>1. pending = [pending EXCEPT ![t] = pending[t]]
  BY DEF Exp!IInv, Exp!OpenTyped
<1> QED
  BY <1>1 DEF Exp!IInv, Exp!OpenTyped, Exp!Open

\* A transaction drops its rows, or hands them to the log.
LEMMA RowsHandedOver ==
  ASSUME Exp!IInv, NEW t \in Exports.Txs, s3' = [s3 EXCEPT ![t] = {}],
         s6' \subseteq s6 \cup s3[t], s7' = s7, s9' = s9
  PROVE  s3' = [u \in Exports.Txs |-> s3'[u]] /\ s7' \in Nat /\ Exp!IdsFollowDates'
<1> DEFINE written == s3  Txs == Exports.Txs
<1>1. /\ written' = [u \in Txs |-> written'[u]] /\ written'[t] = {}
      /\ \A u \in Txs \ {t} : written'[u] = written[u]
  BY DEF Exp!IInv, Exp!OpenTyped
<1>2. Exp!Rows' \subseteq Exp!Rows
  BY <1>1 DEF Exp!Rows
<1> QED
  BY <1>1, <1>2, RowsKept DEF Exp!IInv, Exp!OpenTyped

LEMMA TxRepeated ==
  ASSUME NEW w \in Exp!Transactions, NEW start \in Nat, NEW v,
         v = [w EXCEPT !.pc = "open", !.start = start, !.again = TRUE]
  PROVE  v \in Exp!Transactions /\ v.pc = "open" /\ v.start = start
BY DEF Exp!Transactions

LEMMA TxEnded ==
  ASSUME NEW pc \in {"new", "open", "closing", "done", "failed"}, NEW w \in Exp!Transactions, NEW v,
         v = [w EXCEPT !.pc = pc]
  PROVE  v \in Exp!Transactions /\ v.pc = pc
BY DEF Exp!Transactions

LEMMA LogStep == ASSUME Exp!Proper, Exp!IInv, [Exp!Next]_(Exp!vars) PROVE Exp!IInv'
<1> DEFINE tx == s1  pending == s2  written == s3  log == s6  serial == s7  setting == s8
           now == s9  Txs == Exports.Txs  Keys == Exports.Keys  Sizes == Exports.Sizes
           MaxOpen == Exports.MaxOpen  Settings == Exports.Settings
           DefaultDays == Exports.DefaultDays
<1>1. ASSUME NEW t \in Txs, NEW k \in Keys, NEW n \in Sizes,
             Exp!Export(t, k, n) \/ Exp!ExportUnrecorded(t, k, n)
      PROVE  Exp!IInv'
  <2> DEFINE counts == IF Exp!Export(t, k, n) THEN Exp!Added(pending[t], k, n) ELSE pending[t]
             hooked == IF Exp!Export(t, k, n) THEN tx[t].hook \/ pending[t] = Exp!Nothing ELSE tx[t].hook
             more == tx[t].chunks + 1
             v == [tx[t] EXCEPT !.chunks = more, !.hook = hooked]
  <2>1. tx[t].pc = "open" /\ UNCHANGED <<written, log, serial, setting, now>>
    BY <1>1 DEF Exp!Export, Exp!ExportUnrecorded
  <2>2. tx[t] \in Exp!Transactions /\ hooked \in BOOLEAN /\ more \in Int
    <3>1. tx[t] \in Exp!Transactions
      BY TxAsItIs
    <3>2. tx[t].hook \in BOOLEAN /\ tx[t].chunks \in Int
      BY <3>1 DEF Exp!Transactions
    <3>3. more \in Int
      BY <3>2
    <3>4. hooked \in BOOLEAN
      <4>1. CASE Exp!Export(t, k, n)
        BY <4>1
      <4>2. CASE ~Exp!Export(t, k, n)
        BY <3>2, <4>2
      <4> QED
        BY <4>1, <4>2
    <3> QED
      BY <3>1, <3>3, <3>4
  <2> HIDE DEF hooked, more
  <2>3. v \in Exp!Transactions /\ v.pc = "open" /\ v.start = tx[t].start
    BY <2>1, <2>2 DEF Exp!Transactions
  <2>4. tx' = [tx EXCEPT ![t] = v]
    <3>1. CASE Exp!Export(t, k, n)
      <4>1. tx' = [tx EXCEPT ![t].chunks = @ + 1, ![t].hook = @ \/ pending[t] = Exp!Nothing]
        BY <3>1 DEF Exp!Export
      <4>2. hooked <=> (tx[t].hook \/ pending[t] = Exp!Nothing)
        BY <3>1 DEF hooked
      <4> QED
        BY <2>2, <4>1, <4>2 DEF Exp!IInv, Exp!OpenTyped, Exp!Transactions, more
    <3>2. CASE ~Exp!Export(t, k, n)
      <4>1. tx' = [tx EXCEPT ![t].chunks = @ + 1]
        BY <1>1, <3>2 DEF Exp!ExportUnrecorded
      <4>2. hooked = tx[t].hook
        BY <3>2 DEF hooked
      <4> QED
        BY <2>2, <4>1, <4>2 DEF Exp!IInv, Exp!OpenTyped, Exp!Transactions, more
    <3> QED
      BY <3>1, <3>2
  <2>5. pending' = [pending EXCEPT ![t] = counts]
    BY <1>1, TxAsItIs DEF Exp!Export, Exp!ExportUnrecorded
  <2>6. DOMAIN counts \subseteq Keys
    BY TxAsItIs DEF Exp!Added
  <2> HIDE DEF counts, v
  <2>7. Exp!OpenTyped'
    BY <2>1, <2>3, <2>4, <2>5, <2>6, TxAsItIs, TxChanges DEF Exp!IInv, Exp!OpenTyped
  <2>8. Exp!Rows' = Exp!Rows
    BY <2>1 DEF Exp!Rows
  <2> QED
    BY <2>1, <2>7, <2>8, RowsKept DEF Exp!IInv, Exp!OpenTyped
<1>2. ASSUME NEW t \in Txs, Exp!FlushEarly(t) \/ Exp!Precommit(t) PROVE Exp!IInv'
  <2>1. PICK failed : Exp!Flushed(t, failed)
    BY <1>2 DEF Exp!FlushEarly, Exp!Precommit
  <2>2. /\ tx[t].pc = "open" /\ UNCHANGED <<log, setting, now>>
        /\ pending' = [pending EXCEPT ![t] = Exp!Nothing]
    BY <1>2 DEF Exp!FlushEarly, Exp!Precommit
  <2>3. /\ written' = [u \in Txs |-> written'[u]] /\ serial' \in Nat /\ Exp!IdsFollowDates'
    BY <2>1, <2>2, RowsFlushed DEF Exp!Open
  <2>4. PICK v \in Exp!Transactions :
          /\ tx' = [tx EXCEPT ![t] = v] /\ v.pc \in {"open", "closing"} /\ v.start = tx[t].start
    <3>1. CASE Exp!FlushEarly(t)
      <4> DEFINE v == [tx[t] EXCEPT !.hook = FALSE, !.split = TRUE]
      <4>1. tx' = [tx EXCEPT ![t].hook = FALSE, ![t].split = TRUE]
        BY <3>1 DEF Exp!FlushEarly
      <4>2. tx[t] \in Exp!Transactions
        BY TxAsItIs
      <4>3. v \in Exp!Transactions /\ v.pc = "open" /\ v.start = tx[t].start
        BY <2>2, <4>2 DEF Exp!Transactions
      <4>4. tx' = [tx EXCEPT ![t] = v]
        BY <4>1, <4>2 DEF Exp!IInv, Exp!OpenTyped, Exp!Transactions
      <4> QED
        BY <4>3, <4>4
    <3>2. CASE Exp!Precommit(t)
      <4> DEFINE v == [tx[t] EXCEPT !.hook = FALSE, !.pc = "closing"]
      <4>1. tx' = [tx EXCEPT ![t].hook = FALSE, ![t].pc = "closing"]
        BY <3>2 DEF Exp!Precommit
      <4>2. tx[t] \in Exp!Transactions
        BY TxAsItIs
      <4>3. v \in Exp!Transactions /\ v.pc = "closing" /\ v.start = tx[t].start
        BY <4>2 DEF Exp!Transactions
      <4>4. tx' = [tx EXCEPT ![t] = v]
        BY <4>1, <4>2 DEF Exp!IInv, Exp!OpenTyped, Exp!Transactions
      <4> QED
        BY <4>3, <4>4
    <3> QED
      BY <1>2, <3>1, <3>2
  <2>5. DOMAIN Exp!Nothing \subseteq Keys
    BY DEF Exp!Nothing
  <2>6. Exp!OpenTyped'
    BY <2>2, <2>3, <2>4, <2>5, TxAsItIs, TxChanges
  <2> QED
    BY <2>3, <2>6 DEF Exp!IInv
<1>3. ASSUME NEW t \in Txs, Exp!Commit(t) \/ Exp!Fail(t) PROVE Exp!IInv'
  <2>1. /\ pending' = [pending EXCEPT ![t] = Exp!Nothing] /\ written' = [written EXCEPT ![t] = {}]
        /\ log' \subseteq log \cup written[t] /\ UNCHANGED <<serial, setting, now>>
    BY <1>3 DEF Exp!Commit, Exp!Fail, Exp!Closed
  <2>2. PICK v \in Exp!Transactions : tx' = [tx EXCEPT ![t] = v] /\ v.pc \in {"done", "failed"}
    <3>1. Exp!NoTx \in Exp!Transactions
      BY DEF Exp!NoTx, Exp!Transactions
    <3>2. \A pc \in {"done", "failed"} :
            [Exp!NoTx EXCEPT !.pc = pc] \in Exp!Transactions /\ [Exp!NoTx EXCEPT !.pc = pc].pc = pc
      BY <3>1, TxEnded
    <3> QED
      BY <1>3, <3>1, <3>2 DEF Exp!Commit, Exp!Fail
  <2>3. written' = [u \in Txs |-> written'[u]] /\ serial' \in Nat /\ Exp!IdsFollowDates'
    BY <2>1, RowsHandedOver
  <2>4. DOMAIN Exp!Nothing \subseteq Keys
    BY DEF Exp!Nothing
  <2>5. Exp!OpenTyped'
    BY <2>1, <2>2, <2>3, <2>4, TxChanges
  <2> QED
    BY <2>3, <2>5 DEF Exp!IInv
<1>4. ASSUME NEW t \in Txs, Exp!Begin(t) PROVE Exp!IInv'
  <2> DEFINE v == [tx[t] EXCEPT !.pc = "open", !.start = now]
  <2>1. /\ tx' = [tx EXCEPT ![t].pc = "open", ![t].start = now]
        /\ UNCHANGED <<pending, written, log, serial, setting, now>>
    BY <1>4 DEF Exp!Begin
  <2>2. tx[t] \in Exp!Transactions /\ now \in Nat /\ MaxOpen \in Nat
    BY TxAsItIs DEF Exp!IInv, Exp!OpenTyped, Exp!Proper
  <2>3. v \in Exp!Transactions /\ v.pc = "open" /\ v.start = now
    BY <2>2 DEF Exp!Transactions
  <2>4. tx' = [tx EXCEPT ![t] = v]
    BY <2>1, <2>2 DEF Exp!IInv, Exp!OpenTyped, Exp!Transactions
  <2> HIDE DEF v
  <2>7. /\ written' = [u \in Txs |-> written'[u]] /\ serial' \in Nat
        /\ pending' = [pending EXCEPT ![t] = pending[t]] /\ DOMAIN pending[t] \subseteq Keys
    BY <2>1, TxAsItIs DEF Exp!IInv, Exp!OpenTyped
  <2>8. v.start <= now /\ now <= v.start + MaxOpen
    BY <2>2, <2>3
  <2>5. Exp!OpenTyped'
    BY <2>1, <2>3, <2>4, <2>7, <2>8, TxChanges
  <2>6. Exp!Rows' = Exp!Rows
    BY <2>1 DEF Exp!Rows
  <2> QED
    BY <2>1, <2>2, <2>5, <2>6, RowsKept DEF Exp!IInv
<1>5. ASSUME NEW t \in Txs, Exp!Again(t) PROVE Exp!IInv'
  <2> DEFINE v == [Exp!NoTx EXCEPT !.pc = "open", !.start = now, !.again = TRUE]
  <2>1. /\ tx' = [tx EXCEPT ![t] = v] /\ written' = [written EXCEPT ![t] = {}]
        /\ UNCHANGED <<pending, log, serial, setting, now>>
    BY <1>5 DEF Exp!Again
  <2>2. tx[t] \in Exp!Transactions /\ now \in Nat /\ MaxOpen \in Nat
    BY TxAsItIs DEF Exp!IInv, Exp!OpenTyped, Exp!Proper
  <2>3. v \in Exp!Transactions /\ v.pc = "open" /\ v.start = now
    <3>1. Exp!NoTx \in Exp!Transactions
      BY DEF Exp!NoTx, Exp!Transactions
    <3> QED
      BY <2>2, <3>1, TxRepeated
  <2> HIDE DEF v
  <2>4. written' = [u \in Txs |-> written'[u]] /\ serial' \in Nat /\ Exp!IdsFollowDates'
    BY <2>1, RowsHandedOver
  <2>6. /\ v.start <= now /\ now <= v.start + MaxOpen
        /\ pending' = [pending EXCEPT ![t] = pending[t]] /\ DOMAIN pending[t] \subseteq Keys
    BY <2>1, <2>2, <2>3, TxAsItIs
  <2>5. Exp!OpenTyped'
    BY <2>1, <2>3, <2>4, <2>6, TxChanges
  <2> QED
    BY <2>4, <2>5 DEF Exp!IInv
<1>6. CASE Exp!Tick
  <2>1. /\ now' = now + 1 /\ UNCHANGED <<tx, pending, written, log, serial, setting>>
        /\ \A t \in Txs : tx[t].pc \in {"open", "closing"} => now' - tx[t].start <= MaxOpen
    BY <1>6 DEF Exp!Tick
  <2>2. now \in Nat /\ now' \in Nat /\ now <= now'
    BY <2>1 DEF Exp!IInv, Exp!OpenTyped
  <2>3. ASSUME NEW t \in Txs, Exp!Open(t)'
        PROVE  tx'[t].start <= now' /\ now' <= tx'[t].start + MaxOpen
    <3>1. tx[t].start \in Nat /\ tx[t].start <= now /\ now' - tx[t].start <= MaxOpen
      BY <2>1, <2>3 DEF Exp!IInv, Exp!OpenTyped, Exp!Open, Exp!Transactions
    <3> QED
      BY <2>1, <2>2, <3>1 DEF Exp!Proper
  <2>4. Exp!OpenTyped'
    BY <2>1, <2>2, <2>3 DEF Exp!IInv, Exp!OpenTyped
  <2>5. Exp!Rows' = Exp!Rows
    BY <2>1 DEF Exp!Rows
  <2> QED
    BY <2>1, <2>2, <2>4, <2>5, RowsKept DEF Exp!IInv
<1>7. CASE Exp!Purge \/ (\E value \in Settings, screen \in BOOLEAN : Exp!Configure(value, screen))
           \/ (\E r \in log : Exp!Delete(r)) \/ UNCHANGED Exp!vars
  <2>1. /\ UNCHANGED <<tx, pending, written, serial, now>> /\ log' \subseteq log
        /\ setting' = setting \/ setting' \in Settings \cup {DefaultDays}
    BY <1>7 DEF Exp!Purge, Exp!Configure, Exp!Delete, Exp!vars
  <2>2. setting' \in Int
    BY <2>1 DEF Exp!IInv, Exp!OpenTyped, Exp!Proper
  <2>3. Exp!OpenTyped'
    BY <2>1, <2>2 DEF Exp!IInv, Exp!OpenTyped, Exp!Open
  <2>4. Exp!Rows' \subseteq Exp!Rows
    BY <2>1 DEF Exp!Rows
  <2> QED
    BY <2>1, <2>3, <2>4, RowsKept DEF Exp!IInv, Exp!OpenTyped
<1> QED
  BY <1>1, <1>2, <1>3, <1>4, <1>5, <1>6, <1>7 DEF Exp!Next

\* A row that goes with an older id is not much younger, whatever the request it came from.
LEMMA PurgeIsNearlyExact == ASSUME Exp!Proper, Exp!IInv PROVE Exp!PurgeNearlyExact
<1> DEFINE log == s6  setting == s8  now == s9  MaxOpen == Exports.MaxOpen
           DefaultDays == Exports.DefaultDays
<1> DEFINE days == IF setting < 0 THEN DefaultDays ELSE setting
           expired == {r \in log : r.date < now - Exp!Retention}
           gone == {r \in log : \E e \in expired : r.id <= e.id}
<1> SUFFICES ASSUME Exp!Purge
             PROVE  /\ setting # 0
                    /\ \A r \in log \ log' : r.date < now - days + MaxOpen
                    /\ \A r \in log' : r.date >= now - days
  BY DEF Exp!PurgeNearlyExact
<1>1. Exp!Retention = days /\ Exp!Retention # 0 /\ log' = log \ gone
  BY DEF Exp!Purge, Exp!Retention
<1>2. setting \in Int /\ now \in Nat /\ days \in Int /\ MaxOpen \in Nat
  BY DEF Exp!IInv, Exp!OpenTyped, Exp!Proper
<1>3. setting # 0
  BY <1>1, <1>2
<1>4. log \subseteq Exp!Rows
  BY DEF Exp!Rows
<1>5. ASSUME NEW r \in log \ log' PROVE r.date < now - days + MaxOpen
  <2>1. PICK e \in log : e.date < now - days /\ r.id <= e.id
    BY <1>1
  <2>2. r \in Exp!Rows /\ e \in Exp!Rows
    BY <1>4
  <2>3. r.date \in Nat /\ e.date \in Nat /\ r.date <= e.date + MaxOpen
    BY <2>1, <2>2 DEF Exp!IInv, Exp!IdsFollowDates
  <2> QED
    BY <1>2, <2>1, <2>3
<1>6. ASSUME NEW r \in log' PROVE r.date >= now - days
  <2>1. r.date \in Nat /\ r.id \in Nat /\ r \in log
    BY <1>1, <1>4 DEF Exp!IInv, Exp!IdsFollowDates
  <2>2. r \notin gone
    BY <1>1
  <2>3. r.id <= r.id
    BY <2>1
  <2>4. r \notin expired
    BY <2>1, <2>2, <2>3
  <2> QED
    BY <1>1, <1>2, <2>1, <2>4
<1> QED
  BY <1>3, <1>5, <1>6
-----------------------------------------------------------------------------
(* What a deletion is about *)

OnlyMeant ==
  /\ part = "ids" => Xid!IInv
  /\ part = "defaults" => Def!IInv
  /\ part = "exports" => Exp!IInv

LEMMA OnlyMeantStep == ASSUME OnlyMeant, [Next]_vars PROVE OnlyMeant'
<1>1. part' = part
  BY PartStays
<1>2. ASSUME part = "ids" PROVE Xid!IInv'
  <2>1. [Xid!Next]_(Xid!vars)
    BY <1>2 DEF Next, vars, Xid!vars
  <2> QED
    BY <1>2, <2>1, IdsStep, AddOnsAssumption DEF OnlyMeant
<1>3. ASSUME part = "defaults" PROVE Def!IInv'
  <2>1. [Def!Next]_(Def!vars)
    BY <1>3 DEF Next, vars, Def!vars
  <2> QED
    BY <1>3, <2>1, DialogsStep DEF OnlyMeant
<1>4. ASSUME part = "exports" PROVE Exp!IInv'
  <2>1. [Exp!Next]_(Exp!vars)
    BY <1>4 DEF Next, vars, Exp!vars
  <2> QED
    BY <1>4, <2>1, LogStep, AddOnsAssumption DEF OnlyMeant
<1> QED
  BY <1>1, <1>2, <1>3, <1>4 DEF OnlyMeant

\* A deletion takes no identifier of a record that lives, whatever was imported while it
\* ran; no default its administrator is not shown; and no row of the log of exports that
\* is younger than the retention less the time a request lasts (action_delete_broken,
\* action_delete_defaults, _purge_old_logs).
THEOREM OnlyMeantAreDeleted == Spec => OnlyMeantGo
<1>1. Init => OnlyMeant
  BY IdsBegin, DialogsBegin, LogBegins, AddOnsAssumption DEF Init, OnlyMeant
<1>2. OnlyMeant /\ [Next]_vars => OnlyMeant'
  BY OnlyMeantStep
<1>3. OnlyMeant /\ [Next]_vars =>
        [/\ part = "ids" => Xid!LiveKept
         /\ part = "defaults" => Def!OnlyShownGo
         /\ part = "exports" => Exp!PurgeNearlyExact]_vars
  BY LiveAreKept, ShownOnly, PurgeIsNearlyExact, AddOnsAssumption DEF OnlyMeant
<1> QED
  BY <1>1, <1>2, <1>3, PTL DEF Spec, OnlyMeantGo

-----------------------------------------------------------------------------
(* Archiving: a run knows every record as it is, but for those written     *)
(* since; the log has one open entry of a record at most; and what a run   *)
(* archives is built rule by rule.                                         *)

LEMMA ArchivesCounted ==
  /\ \A S : Arc!Cardinality(S) = Cardinality(S)
  /\ \A S : Arc!IsFiniteSet(S) <=> IsFiniteSet(S)
<1>1. \A S : Arc!Cardinality(S) = Cardinality(S)
  BY DEF Arc!Cardinality, Arc!IsFiniteSet, Cardinality, IsFiniteSet
<1>2. \A S : Arc!IsFiniteSet(S) <=> IsFiniteSet(S)
  BY DEF Arc!IsFiniteSet, IsFiniteSet
<1> QED
  BY <1>1, <1>2

\* Progress is the function its recursive definition describes.
LEMMA ProgressUnfolds ==
  ASSUME NEW t, Arc!Len(Archives.Rules) \in Nat
  PROVE  \A n \in 0..Arc!Len(Archives.Rules) :
           Arc!Progress(t)[n] = IF n = 0 THEN Arc!NoneYet ELSE Arc!Apply(t, Arc!Progress(t)[n - 1], Archives.Rules[n])
<1> DEFINE Rules == Archives.Rules
<1> DEFINE B == Arc!Len(Rules)
           Is(f, k) == f = [n \in 0..k |-> IF n = 0 THEN Arc!NoneYet ELSE Arc!Apply(t, f[n - 1], Rules[n])]
           Missing == {k \in 0..B : ~ \E f : Is(f, k)}
<1>1. \E f : Is(f, 0)
  <2> DEFINE f == [n \in 0..0 |-> Arc!NoneYet]
  <2>1. Is(f, 0)
    OBVIOUS
  <2> QED
    BY <2>1
<1>2. ASSUME NEW k \in Nat, \E f : Is(f, k) PROVE \E f : Is(f, k + 1)
  <2>1. PICK f : Is(f, k)
    BY <1>2
  <2> DEFINE g == [n \in 0..(k + 1) |-> IF n = k + 1 THEN Arc!Apply(t, f[k], Rules[n]) ELSE f[n]]
  <2>2. \A n \in 0..(k + 1) :
          g[n] = IF n = 0 THEN Arc!NoneYet ELSE Arc!Apply(t, g[n - 1], Rules[n])
    <3> SUFFICES ASSUME NEW n \in 0..(k + 1)
                 PROVE  g[n] = IF n = 0 THEN Arc!NoneYet ELSE Arc!Apply(t, g[n - 1], Rules[n])
      OBVIOUS
    <3>1. CASE n = k + 1
      <4>1. /\ g[n] = Arc!Apply(t, f[k], Rules[n]) /\ n - 1 = k /\ n # 0
            /\ k # k + 1 /\ k \in 0..(k + 1)
        BY <3>1
      <4>2. g[k] = f[k]
        BY <4>1
      <4> QED
        BY <4>1, <4>2
    <3>2. CASE n = 0
      <4>1. f[n] = Arc!NoneYet
        BY <2>1, <3>2
      <4> QED
        BY <3>2, <4>1
    <3>3. CASE n \in 1..k
      <4>1. n \in 0..k /\ n # 0 /\ n # k + 1 /\ n - 1 \in 0..(k + 1) /\ n - 1 # k + 1
        BY <3>3
      <4>2. f[n] = Arc!Apply(t, f[n - 1], Rules[n])
        BY <2>1, <4>1
      <4>3. g[n] = f[n] /\ g[n - 1] = f[n - 1]
        BY <4>1
      <4> QED
        BY <4>1, <4>2, <4>3
    <3> QED
      BY <3>1, <3>2, <3>3
  <2>3. g = [n \in 0..(k + 1) |-> g[n]]
    OBVIOUS
  <2> HIDE DEF g
  <2>4. Is(g, k + 1)
    BY <2>2, <2>3
  <2> QED
    BY <2>4
<1>3. \E f : Is(f, B)
  <2> SUFFICES ASSUME ~ \E f : Is(f, B) PROVE FALSE
    OBVIOUS
  <2>1. B \in Missing /\ Missing \subseteq Nat
    OBVIOUS
  <2>2. PICK k \in Missing : \A j \in Missing : k <= j
    BY <2>1, LeastIsThere
  <2>3. k # 0 /\ k \in 0..B
    BY <1>1, <2>2
  <2>4. k - 1 \in Nat /\ k - 1 \in 0..B /\ ~(k <= k - 1)
    BY <2>3
  <2>5. \E f : Is(f, k - 1)
    BY <2>2, <2>4
  <2> HIDE DEF Is
  <2>6. \E f : Is(f, (k - 1) + 1)
    BY <1>2, <2>4, <2>5
  <2>7. (k - 1) + 1 = k
    BY <2>3
  <2> QED
    BY <2>2, <2>6, <2>7
<1>4. Arc!Progress(t) = CHOOSE f : Is(f, B)
  BY DEF Arc!Progress, Arc!NoneYet
<1>5. Is(Arc!Progress(t), B)
  BY <1>3, <1>4
<1> QED
  BY <1>5

\* A record of the first batch that is still there is in the batch: those before it are fewer.
LEMMA BatchStays ==
  ASSUME Arc!Proper, NEW t, DOMAIN t.seen \subseteq Archives.Records, NEW ru, NEW gone,
         NEW r \in Arc!Batch(ru, t, <<>>), r \notin DOMAIN gone
  PROVE  r \in Arc!Batch(ru, t, gone)
<1> DEFINE Records == Archives.Records  BatchLimit == Archives.BatchLimit
<1> DEFINE all == Arc!Targets(ru, t, <<>>)
           left == Arc!Targets(ru, t, gone)
           before == {s \in all : Arc!Before(t, s, r)}
           leftBefore == {s \in left : Arc!Before(t, s, r)}
<1>1. left \subseteq all /\ all \subseteq Records /\ r \in all
  BY DEF Arc!Targets, Arc!Batch
<1>2. r \in left
  BY DEF Arc!Targets, Arc!Batch
<1>3. leftBefore \subseteq before /\ Arc!IsFiniteSet(before)
  <2>1. before \subseteq Records
    BY <1>1
  <2>2. Arc!IsFiniteSet(before)
    BY <2>1, FS_Subset, ArchivesCounted DEF Arc!Proper
  <2> QED
    BY <1>1, <2>2
<1>4. Arc!Cardinality(before) < BatchLimit
  BY DEF Arc!Batch
<1>5. Arc!Cardinality(leftBefore) <= Arc!Cardinality(before)
  BY <1>3, FS_Subset, ArchivesCounted
<1>6. Arc!Cardinality(leftBefore) \in Nat /\ Arc!Cardinality(before) \in Nat
  BY <1>3, FS_Subset, FS_CardinalityType, ArchivesCounted
<1> HIDE DEF leftBefore, before
<1>7. Arc!Cardinality(leftBefore) < BatchLimit
  BY <1>4, <1>5, <1>6 DEF Arc!Proper
<1> QED
  BY <1>2, <1>7 DEF Arc!Batch, leftBefore

LEMMA NoneYetExact ==
  ASSUME Arc!IInv, NEW t PROVE Arc!Exact(t, Arc!NoneYet, 0)
<1> DEFINE rule == s3
<1>1. Arc!NoneYet.gone = <<>> /\ Arc!NoneYet.total = [ru \in Arc!RuleSet |-> rule[ru].total]
  BY DEF Arc!NoneYet
<1>2. DOMAIN Arc!NoneYet.gone = {}
  BY <1>1
<1>3. \A ru \in Arc!RuleSet : rule[ru].total \in Nat
  BY DEF Arc!IInv, Arc!Typed, Arc!Rule
<1>4. \A ru \in Arc!RuleSet : Arc!Cardinality({r \in DOMAIN Arc!NoneYet.gone : Arc!NoneYet.gone[r] = ru}) = 0
  <2>1. \A ru \in Arc!RuleSet : {r \in DOMAIN Arc!NoneYet.gone : Arc!NoneYet.gone[r] = ru} = {}
    BY <1>2
  <2> QED
    BY <2>1, FS_EmptySet, ArchivesCounted
<1> QED
  BY <1>1, <1>2, <1>3, <1>4 DEF Arc!Exact

LEMMA ApplyExact ==
  ASSUME Arc!Proper, Arc!IInv, NEW t, DOMAIN t.seen \subseteq Archives.Records,
         NEW n \in 1..Arc!Len(Archives.Rules), NEW acc,
         Arc!Exact(t, acc, n - 1)
  PROVE  Arc!Exact(t, Arc!Apply(t, acc, Archives.Rules[n]), n)
<1> DEFINE rule == s3  now == s6  Records == Archives.Records  Protected == Archives.Protected
           Stubborn == Archives.Stubborn  Rules == Archives.Rules
<1> DEFINE ru == Rules[n]
           done == Arc!Taken(Arc!Batch(ru, t, acc.gone), Stubborn \cup t.touched)
           more == Arc!Cardinality(done)
           gone == [r \in done \cup DOMAIN acc.gone |-> IF r \in done THEN ru ELSE acc.gone[r]]
           total == [acc.total EXCEPT ![ru] = @ + more]
<1>1. ru \in Arc!RuleSet /\ Arc!Len(Rules) \in Nat
  BY DEF Arc!Proper
<1>2. CASE ~Arc!Runs(t, ru)
  <2>1. Arc!Apply(t, acc, Rules[n]) = acc
    BY <1>2 DEF Arc!Apply
  <2>2. \A m \in 1..n : m \in 1..(n - 1) \/ m = n
    BY <1>1
  <2> QED
    BY <1>2, <2>1, <2>2 DEF Arc!Exact
<1>3. CASE Arc!Runs(t, ru)
  <2> DEFINE next == Arc!Apply(t, acc, Rules[n])
  <2>1. next.gone = gone /\ next.total = total
    BY <1>3 DEF Arc!Apply, Arc!Count
  <2>2. done = Arc!Batch(ru, t, acc.gone) \ (Stubborn \cup t.touched)
    BY DEF Arc!Taken
  <2>3. /\ done \subseteq DOMAIN t.seen \ (Protected \cup Stubborn \cup t.touched)
        /\ done \cap DOMAIN acc.gone = {}
        /\ \A r \in done : t.seen[r] < now - Arc!Effective(ru)
    BY <2>2 DEF Arc!Batch, Arc!Targets
  <2> HIDE DEF done, next
  <2>4. DOMAIN gone = done \cup DOMAIN acc.gone
    OBVIOUS
  <2>5. DOMAIN gone \subseteq DOMAIN t.seen \ (Protected \cup Stubborn \cup t.touched)
    BY <2>3, <2>4 DEF Arc!Exact
  <2>6. \A r \in DOMAIN gone : \E u \in Arc!RuleSet : t.seen[r] < now - Arc!Effective(u)
    BY <1>1, <2>3, <2>4 DEF Arc!Exact
  <2>7. ASSUME NEW m \in 1..n, Arc!Runs(t, Rules[m]),
               NEW r \in Arc!Batch(Rules[m], t, <<>>) \ (Stubborn \cup t.touched)
        PROVE  r \in DOMAIN gone
    <3>1. CASE m \in 1..(n - 1)
      BY <2>4, <2>7, <3>1 DEF Arc!Exact
    <3>2. CASE m = n
      BY <2>2, <2>4, <2>7, <3>2, BatchStays
    <3> QED
      BY <1>1, <3>1, <3>2
  <2>8. Arc!IsFiniteSet(done) /\ more \in Nat
    <3>1. done \subseteq Records
      BY <2>3
    <3> QED
      BY <3>1, FS_Subset, FS_CardinalityType, ArchivesCounted DEF Arc!Proper
  <2> HIDE DEF more
  <2>9. /\ total \in [Arc!RuleSet -> Nat] /\ total[ru] = acc.total[ru] + more
        /\ \A u \in Arc!RuleSet \ {ru} : total[u] = acc.total[u]
    BY <1>1, <2>8 DEF Arc!Exact
  <2>10. ASSUME NEW u \in Arc!RuleSet
         PROVE  total[u] = rule[u].total + Arc!Cardinality({r \in DOMAIN gone : gone[r] = u})
    <3> DEFINE old == {r \in DOMAIN acc.gone : acc.gone[r] = u}
               new == {r \in DOMAIN gone : gone[r] = u}
    <3>1. /\ Arc!IsFiniteSet(old) /\ Arc!Cardinality(old) \in Nat
          /\ acc.total[u] = rule[u].total + Arc!Cardinality(old) /\ rule[u].total \in Nat
      <4>1. old \subseteq Records
        BY DEF Arc!Exact
      <4> QED
        BY <4>1, FS_Subset, FS_CardinalityType, ArchivesCounted DEF Arc!Proper, Arc!Exact,
           Arc!IInv, Arc!Typed, Arc!Rule
    <3>2. CASE u = ru
      <4>1. new = old \cup done /\ old \cap done = {}
        BY <2>3, <2>4, <3>2
      <4>2. Arc!Cardinality(old \cup done) = Arc!Cardinality(old) + Arc!Cardinality(done) - Arc!Cardinality(old \cap done)
        BY <2>8, <3>1, FS_Union, ArchivesCounted
      <4>3. Arc!Cardinality(old \cap done) = 0
        BY <4>1, FS_EmptySet, ArchivesCounted
      <4> HIDE DEF old, new
      <4>4. Arc!Cardinality(new) = Arc!Cardinality(old) + more
        BY <2>8, <3>1, <4>1, <4>2, <4>3 DEF more
      <4> HIDE DEF total
      <4>5. total[u] = rule[u].total + Arc!Cardinality(new)
        BY <2>8, <2>9, <3>1, <3>2, <4>4
      <4> QED
        BY <4>5 DEF new
    <3>3. CASE u # ru
      <4>1. new = old
        BY <2>3, <2>4, <3>3
      <4>2. total[u] = acc.total[u]
        BY <2>9, <3>3
      <4> QED
        BY <3>1, <4>1, <4>2
    <3> QED
      BY <3>2, <3>3
  <2> HIDE DEF gone, total
  <2> QED
    BY <2>1, <2>5, <2>6, <2>7, <2>9, <2>10 DEF Arc!Exact, next
<1> QED
  BY <1>2, <1>3

\* What a run does when it commits.
LEMMA AppliedExact ==
  ASSUME Arc!Proper, Arc!IInv, NEW t, DOMAIN t.seen \subseteq Archives.Records
  PROVE  Arc!Exact(t, Arc!Applied(t), Arc!Len(Archives.Rules))
<1> DEFINE Rules == Archives.Rules
<1> DEFINE Wrong == {k \in 0..Arc!Len(Rules) : ~Arc!Exact(t, Arc!Progress(t)[k], k)}
<1>1. Arc!Len(Rules) \in Nat
  BY DEF Arc!Proper
<1> SUFFICES ASSUME ~Arc!Exact(t, Arc!Applied(t), Arc!Len(Rules)) PROVE FALSE
  OBVIOUS
<1>2. Arc!Len(Rules) \in Wrong /\ Wrong \subseteq Nat
  BY <1>1 DEF Arc!Applied
<1>3. PICK k \in Wrong : \A j \in Wrong : k <= j
  BY <1>2, LeastIsThere
<1>4. CASE k = 0
  BY <1>1, <1>3, <1>4, ProgressUnfolds, NoneYetExact
<1>5. CASE k # 0
  <2>1. k \in 1..Arc!Len(Rules) /\ k - 1 \in 0..Arc!Len(Rules) /\ ~(k <= k - 1)
    BY <1>1, <1>3, <1>5
  <2>2. Arc!Exact(t, Arc!Progress(t)[k - 1], k - 1)
    BY <1>3, <2>1
  <2>3. Arc!Progress(t)[k] = Arc!Apply(t, Arc!Progress(t)[k - 1], Rules[k])
    BY <1>1, <1>3, <1>5, ProgressUnfolds
  <2>4. Arc!Exact(t, Arc!Progress(t)[k], k)
    BY <2>1, <2>2, <2>3, ApplyExact
  <2> QED
    BY <1>3, <2>4
<1> QED
  BY <1>4, <1>5

LEMMA ArchivesBegin == ASSUME Arc!Proper, Arc!Init PROVE Arc!IInv
<1> DEFINE run == s4  wizard == s5  Records == Archives.Records  NoReason == Archives.NoReason
           Runners == Archives.Runners
<1>1. Arc!Typed
  <2>1. [active |-> TRUE, written |-> 0, reason |-> NoReason] \in Arc!Row
    BY DEF Arc!Row
  <2>2. <<>> \in Arc!Seq(Arc!Entry)
    OBVIOUS
  <2>3. [enabled |-> FALSE, broken |-> FALSE, total |-> 0] \in Arc!Rule
    BY DEF Arc!Rule
  <2> QED
    BY <2>1, <2>2, <2>3 DEF Arc!Init, Arc!Typed
<1>2. \A p \in Runners : run[p].pc = "idle"
  BY DEF Arc!Init, Arc!NoRun
<1>3. wizard.pc = "idle"
  BY DEF Arc!Init, Arc!NoWizard
<1>4. \A r \in Records : Arc!Open(r) = {}
  BY DEF Arc!Init, Arc!Open
<1>5. Arc!CountTells
  BY DEF Arc!Init, Arc!CountTells
<1> QED
  BY <1>1, <1>2, <1>3, <1>4, <1>5 DEF Arc!IInv, Arc!RunHolds, Arc!WizardHolds, Arc!LogHolds

LEMMA RunSpoilt ==
  ASSUME NEW pc, NEW todo, NEW touched, NEW lost, NEW seen, NEW w, NEW v, NEW a, NEW b,
         w = [pc |-> pc, todo |-> todo, touched |-> touched, lost |-> lost, seen |-> seen],
         v = [w EXCEPT !.touched = a, !.lost = b]
  PROVE  v = [pc |-> pc, todo |-> todo, touched |-> a, lost |-> b, seen |-> seen]
<1>1. v = [[w EXCEPT !.touched = a] EXCEPT !.lost = b]
  OBVIOUS
<1>2. [w EXCEPT !.touched = a]
        = [pc |-> pc, todo |-> todo, touched |-> a, lost |-> lost, seen |-> seen]
  OBVIOUS
<1> QED
  BY <1>1, <1>2

LEMMA WizardSpoilt ==
  ASSUME NEW pc, NEW todo, NEW reason, NEW touched, NEW w, NEW v, NEW a,
         w = [pc |-> pc, todo |-> todo, reason |-> reason, touched |-> touched],
         v = [w EXCEPT !.touched = a]
  PROVE  v = [pc |-> pc, todo |-> todo, reason |-> reason, touched |-> a]
OBVIOUS

\* A commit that writes rs leaves every other run with what it may rely on.
LEMMA RunsNotice ==
  ASSUME Arc!IInv, NEW rs, NEW rus, NEW q \in Archives.Runners,
         s4'[q] = Arc!SpoilRun(s4[q], rs, rus),
         \A r \in Archives.Records \ rs : s1'[r] = s1[r]
  PROVE  Arc!RunHolds(q)'
<1> DEFINE record == s1  run == s4  Records == Archives.Records
<1>1. CASE run[q].pc = "idle"
  BY <1>1 DEF Arc!SpoilRun, Arc!RunHolds
<1>2. CASE run[q].pc # "idle"
  <2> DEFINE t == run[q]
             touched == t.touched \cup (rs \cap DOMAIN t.seen)
             lost == t.lost \cup (rus \cap t.todo)
  <2>1. /\ t = [pc |-> "running", todo |-> t.todo, touched |-> t.touched, lost |-> t.lost,
                seen |-> t.seen]
        /\ DOMAIN t.seen \subseteq Records
        /\ \A r \in DOMAIN t.seen \ t.touched :
             record[r].active /\ record[r].written = t.seen[r]
    BY <1>2 DEF Arc!IInv, Arc!RunHolds
  <2>2. run'[q] = [t EXCEPT !.touched = touched, !.lost = lost]
    BY <1>2 DEF Arc!SpoilRun
  <2>3. run'[q] = [pc |-> "running", todo |-> t.todo, touched |-> touched, lost |-> lost,
                   seen |-> t.seen]
    <3>1. PICK w, v, a, b, todo, was, missing, seen :
            /\ w = t /\ v = run'[q] /\ a = touched /\ b = lost
            /\ todo = t.todo /\ was = t.touched /\ missing = t.lost /\ seen = t.seen
      OBVIOUS
    <3>2. w = [pc |-> "running", todo |-> todo, touched |-> was, lost |-> missing, seen |-> seen]
      BY <2>1, <3>1
    <3>3. v = [w EXCEPT !.touched = a, !.lost = b]
      BY <2>2, <3>1
    <3>4. v = [pc |-> "running", todo |-> todo, touched |-> a, lost |-> b, seen |-> seen]
      BY ONLY <3>2, <3>3, RunSpoilt
    <3> QED
      BY <3>1, <3>4
  <2> HIDE DEF touched, lost
  <2>4. /\ run'[q].pc = "running" /\ run'[q].todo = t.todo /\ run'[q].touched = touched
        /\ run'[q].lost = lost /\ run'[q].seen = t.seen
    BY <2>3
  <2>5. \A r \in DOMAIN t.seen \ touched : record'[r].active /\ record'[r].written = t.seen[r]
    BY <2>1 DEF touched
  <2> QED
    BY <2>1, <2>3, <2>4, <2>5 DEF Arc!RunHolds
<1> QED
  BY <1>1, <1>2

LEMMA WizardNotices ==
  ASSUME Arc!IInv, NEW rs, s5' = Arc!SpoilWizard(s5, rs),
         \A r \in Archives.Records \ rs : s1'[r] = s1[r]
  PROVE  Arc!WizardHolds'
<1> DEFINE record == s1  wizard == s5  Records == Archives.Records  Reasons == Archives.Reasons
<1>1. CASE wizard.pc = "idle"
  BY <1>1 DEF Arc!SpoilWizard, Arc!WizardHolds
<1>2. CASE wizard.pc # "idle"
  <2> DEFINE touched == wizard.touched \cup (rs \cap wizard.todo)
  <2>1. /\ wizard = [pc |-> "running", todo |-> wizard.todo, reason |-> wizard.reason,
                     touched |-> wizard.touched]
        /\ wizard.reason \in Reasons /\ wizard.todo \subseteq Records
        /\ \A r \in wizard.todo \ wizard.touched : record[r].active
    BY <1>2 DEF Arc!IInv, Arc!WizardHolds
  <2>2. wizard' = [wizard EXCEPT !.touched = touched]
    BY <1>2 DEF Arc!SpoilWizard
  <2>3. wizard' = [pc |-> "running", todo |-> wizard.todo, reason |-> wizard.reason,
                   touched |-> touched]
    <3>1. PICK w, v, a, todo, reason, was :
            /\ w = wizard /\ v = wizard' /\ a = touched
            /\ todo = wizard.todo /\ reason = wizard.reason /\ was = wizard.touched
      OBVIOUS
    <3>2. w = [pc |-> "running", todo |-> todo, reason |-> reason, touched |-> was]
      BY <2>1, <3>1
    <3>3. v = [w EXCEPT !.touched = a]
      BY <2>2, <3>1
    <3>4. v = [pc |-> "running", todo |-> todo, reason |-> reason, touched |-> a]
      BY ONLY <3>2, <3>3, WizardSpoilt
    <3> QED
      BY <3>1, <3>4
  <2> HIDE DEF touched
  <2>4. /\ wizard'.pc = "running" /\ wizard'.todo = wizard.todo
        /\ wizard'.reason = wizard.reason /\ wizard'.touched = touched
    BY <2>3
  <2>5. \A r \in wizard.todo \ touched : record'[r].active
    BY <2>1 DEF touched
  <2> QED
    BY <2>1, <2>3, <2>4, <2>5 DEF Arc!WizardHolds
<1> QED
  BY <1>1, <1>2

\* Everybody learns of what people write.
LEMMA TouchNotices ==
  ASSUME Arc!IInv, NEW rs, NEW rus, Arc!Touch(rs, rus),
         \A r \in Archives.Records \ rs : s1'[r] = s1[r]
  PROVE  /\ s4' = [p \in Archives.Runners |-> s4'[p]]
         /\ \A p \in Archives.Runners : Arc!RunHolds(p)'
         /\ Arc!WizardHolds'
<1> DEFINE run == s4  wizard == s5  Runners == Archives.Runners
<1>1. /\ run' = [p \in Runners |-> Arc!SpoilRun(run[p], rs, rus)]
      /\ wizard' = Arc!SpoilWizard(wizard, rs)
  BY DEF Arc!Touch
<1>2. run' = [p \in Runners |-> run'[p]] /\ \A p \in Runners : run'[p] = Arc!SpoilRun(run[p], rs, rus)
  BY <1>1
<1> QED
  BY <1>1, <1>2, RunsNotice, WizardNotices

\* An archived row is a row.
LEMMA ArchivedRow ==
  ASSUME NEW row \in Arc!Row, NEW reason \in Archives.Reasons \cup {Archives.NoReason}, s6 \in Nat
  PROVE  Arc!Archived(row, reason) \in Arc!Row /\ ~Arc!Archived(row, reason).active
BY DEF Arc!Row, Arc!Archived

\* Nobody's entries are opened, and who has one stays archived.
LEMMA LogStays ==
  ASSUME Arc!IInv, s2' = s2, s8' = s8, \A r \in Archives.Records : s1'[r].active => s1[r].active
  PROVE  Arc!LogHolds'
BY DEF Arc!IInv, Arc!LogHolds, Arc!Open

\* What nobody writes stays as it is.
LEMMA RecordsStay ==
  ASSUME Arc!IInv, UNCHANGED <<s1, s2, s8, s3, s7>>
  PROVE  /\ s1' \in [Archives.Records -> Arc!Row] /\ s2' \in [Archives.Records -> Arc!Seq(Arc!Entry)]
         /\ s3' \in [Arc!RuleSet -> Arc!Rule] /\ Arc!LogHolds' /\ Arc!CountTells'
BY DEF Arc!IInv, Arc!Typed, Arc!LogHolds, Arc!Open, Arc!CountTells

LEMMA RunCommits == ASSUME Arc!Proper, Arc!IInv, NEW p \in Archives.Runners, Arc!RunCommit(p) PROVE Arc!IInv'
<1> DEFINE record == s1  log == s2  rule == s3  run == s4  wizard == s5  now == s6  credit == s7
           missed == s8  Records == Archives.Records  Rules == Archives.Rules
           Reasons == Archives.Reasons  NoReason == Archives.NoReason  Runners == Archives.Runners
<1> DEFINE t == run[p]
           all == Arc!Applied(t)
           gone == DOMAIN all.gone
<1>1. /\ run[p].pc = "running" /\ UNCHANGED <<log, now, missed>>
      /\ record' = [r \in Records |->
           IF r \in gone THEN Arc!Archived(record[r], record[r].reason) ELSE record[r]]
      /\ rule' = [ru \in Arc!RuleSet |-> [rule[ru] EXCEPT !.total = all.total[ru]]]
      /\ credit' = [ru \in Arc!RuleSet |-> credit[ru] + Arc!Cardinality({r \in gone : all.gone[r] = ru})]
      /\ run' = [q \in Runners |-> IF q = p THEN Arc!NoRun ELSE Arc!SpoilRun(run[q], gone, all.ran)]
      /\ wizard' = Arc!SpoilWizard(wizard, gone)
  BY DEF Arc!RunCommit
<1>2. DOMAIN t.seen \subseteq Records
  BY <1>1 DEF Arc!IInv, Arc!RunHolds
<1>3. Arc!Exact(t, all, Arc!Len(Rules))
  BY <1>2, AppliedExact
<1> HIDE DEF all
<1>4. /\ all.total \in [Arc!RuleSet -> Nat]
      /\ \A ru \in Arc!RuleSet : all.total[ru] = rule[ru].total + Arc!Cardinality({r \in gone : all.gone[r] = ru})
  BY <1>3 DEF Arc!Exact
<1> HIDE DEF gone
<1>5. now \in Nat /\ record \in [Records -> Arc!Row] /\ rule \in [Arc!RuleSet -> Arc!Rule]
  BY DEF Arc!IInv, Arc!Typed
<1>6. \A r \in Records : Arc!Archived(record[r], record[r].reason) \in Arc!Row
                         /\ ~Arc!Archived(record[r], record[r].reason).active
  <2> SUFFICES ASSUME NEW r \in Records
               PROVE  /\ Arc!Archived(record[r], record[r].reason) \in Arc!Row
                      /\ ~Arc!Archived(record[r], record[r].reason).active
    OBVIOUS
  <2>1. record[r] \in Arc!Row /\ record[r].reason \in Reasons \cup {NoReason}
    BY <1>5 DEF Arc!Row
  <2> QED
    BY <1>5, <2>1, ArchivedRow
<1>7. record' \in [Records -> Arc!Row] /\ \A r \in Records : record'[r].active => record[r].active
  BY <1>1, <1>5, <1>6
<1>8. /\ rule' \in [Arc!RuleSet -> Arc!Rule]
      /\ \A ru \in Arc!RuleSet : rule'[ru].total = all.total[ru]
  <2>1. \A ru \in Arc!RuleSet : [rule[ru] EXCEPT !.total = all.total[ru]] \in Arc!Rule
                            /\ [rule[ru] EXCEPT !.total = all.total[ru]].total = all.total[ru]
    BY <1>4, <1>5 DEF Arc!Rule
  <2> QED
    BY <1>1, <2>1
<1>9. run' = [q \in Runners |-> run'[q]] /\ \A q \in Runners : Arc!RunHolds(q)'
  <2>1. run' = [q \in Runners |-> run'[q]]
    BY <1>1
  <2>2. run'[p].pc = "idle"
    BY <1>1 DEF Arc!NoRun
  <2>3. \A q \in Runners \ {p} : run'[q] = Arc!SpoilRun(run[q], gone, all.ran)
    BY <1>1
  <2>4. \A r \in Records \ gone : record'[r] = record[r]
    BY <1>1
  <2>5. Arc!RunHolds(p)'
    BY <2>2 DEF Arc!RunHolds
  <2> QED
    BY <2>1, <2>3, <2>4, <2>5, RunsNotice
<1>10. Arc!WizardHolds'
  <2>1. \A r \in Records \ gone : record'[r] = record[r]
    BY <1>1
  <2> QED
    BY <1>1, <2>1, WizardNotices
<1>11. Arc!CountTells'
  BY <1>1, <1>4, <1>8 DEF Arc!IInv, Arc!CountTells
<1>12. Arc!LogHolds'
  BY <1>1, <1>7, LogStays
<1> QED
  BY <1>1, <1>5, <1>7, <1>8, <1>9, <1>10, <1>11, <1>12 DEF Arc!IInv, Arc!Typed

\* What the wizard archives was active: it has no open entry but the one it gets now.
LEMMA WizardCommits == ASSUME Arc!IInv, Arc!WizardCommit PROVE Arc!IInv'
<1> DEFINE record == s1  log == s2  rule == s3  run == s4  wizard == s5  now == s6  credit == s7
           missed == s8  Records == Archives.Records  Stubborn == Archives.Stubborn
           Reasons == Archives.Reasons  Runners == Archives.Runners
<1> DEFINE done == wizard.todo \ (Stubborn \cup wizard.touched)
           entry == [reason |-> wizard.reason, open |-> TRUE]
<1>1. /\ UNCHANGED <<rule, now, credit, missed>> /\ wizard' = Arc!NoWizard
      /\ record' = [r \in Records |->
           IF r \in done THEN Arc!Archived(record[r], wizard.reason) ELSE record[r]]
      /\ log' = [r \in Records |-> IF r \in done THEN Arc!Append(log[r], entry) ELSE log[r]]
      /\ run' = [p \in Runners |-> Arc!SpoilRun(run[p], done, {})]
  BY DEF Arc!WizardCommit
<1>2. now \in Nat /\ record \in [Records -> Arc!Row] /\ log \in [Records -> Arc!Seq(Arc!Entry)]
  BY DEF Arc!IInv, Arc!Typed
<1>3. /\ wizard.reason \in Reasons
      /\ \A r \in done : record[r].active
  BY DEF Arc!WizardCommit, Arc!IInv, Arc!WizardHolds
<1>4. entry \in Arc!Entry /\ entry.open
  BY <1>3 DEF Arc!Entry
<1> HIDE DEF entry
<1>5. /\ record' \in [Records -> Arc!Row]
      /\ \A r \in Records \ done : record'[r] = record[r]
      /\ \A r \in Records \cap done : ~record'[r].active
  <2>1. \A r \in Records : Arc!Archived(record[r], wizard.reason) \in Arc!Row
                           /\ ~Arc!Archived(record[r], wizard.reason).active
    BY <1>2, <1>3, ArchivedRow
  <2> QED
    BY <1>1, <1>2, <2>1
<1>6. log' \in [Records -> Arc!Seq(Arc!Entry)]
  <2>1. \A r \in Records : Arc!Append(log[r], entry) \in Arc!Seq(Arc!Entry)
    BY <1>2, <1>4
  <2> QED
    BY <1>1, <1>2, <2>1
<1>7. run' = [p \in Runners |-> run'[p]] /\ \A p \in Runners : Arc!RunHolds(p)'
  <2>1. run' = [p \in Runners |-> run'[p]]
        /\ \A p \in Runners : run'[p] = Arc!SpoilRun(run[p], done, {})
    BY <1>1
  <2> QED
    BY <1>5, <2>1, RunsNotice
<1>8. Arc!WizardHolds'
  BY <1>1 DEF Arc!NoWizard, Arc!WizardHolds
<1>9. Arc!LogHolds'
  <2> SUFFICES ASSUME NEW r \in Records \ missed
               PROVE  /\ \A i \in Arc!Open(r)' : \A j \in Arc!Open(r)' : i = j
                      /\ Arc!Open(r)' # {} => ~record'[r].active
    BY <1>1 DEF Arc!LogHolds
  <2>1. CASE r \in done
    <3>1. Arc!Open(r) = {}
      BY <1>3, <2>1 DEF Arc!IInv, Arc!LogHolds
    <3>2. log'[r] = Arc!Append(log[r], entry) /\ log[r] \in Arc!Seq(Arc!Entry)
      BY <1>1, <1>2, <2>1
    <3>3. DOMAIN log'[r] = 1..(Arc!Len(log[r]) + 1) /\ Arc!Len(log[r]) \in Nat
          /\ \A i \in 1..Arc!Len(log[r]) : log'[r][i] = log[r][i]
      BY <1>4, <3>2
    <3>4. \A i \in Arc!Open(r)' : i = Arc!Len(log[r]) + 1
      <4> SUFFICES ASSUME NEW i \in Arc!Open(r)', i # Arc!Len(log[r]) + 1 PROVE FALSE
        OBVIOUS
      <4>1. i \in DOMAIN log'[r] /\ log'[r][i].open
        BY DEF Arc!Open
      <4>2. i \in 1..Arc!Len(log[r])
        BY <3>3, <4>1
      <4>3. i \in DOMAIN log[r] /\ log[r][i].open
        BY <3>2, <3>3, <4>1, <4>2
      <4> QED
        BY <3>1, <4>3 DEF Arc!Open
    <3> QED
      BY <1>5, <2>1, <3>4
  <2>2. CASE r \notin done
    <3>1. log'[r] = log[r] /\ record'[r] = record[r]
      BY <1>1, <2>2
    <3> QED
      BY <3>1 DEF Arc!IInv, Arc!LogHolds, Arc!Open
  <2> QED
    BY <2>1, <2>2
<1>10. Arc!CountTells' /\ rule' \in [Arc!RuleSet -> Arc!Rule]
  BY <1>1 DEF Arc!IInv, Arc!Typed, Arc!CountTells
<1> QED
  BY <1>1, <1>2, <1>5, <1>6, <1>7, <1>8, <1>9, <1>10 DEF Arc!IInv, Arc!Typed

LEMMA PeopleEdit ==
  ASSUME Arc!IInv, NEW r \in Archives.Records,
         Arc!Restore(r) \/ Arc!ArchiveByHand(r) \/ Arc!EditRecord(r)
  PROVE  Arc!IInv'
<1> DEFINE record == s1  log == s2  rule == s3  run == s4  now == s6  credit == s7  missed == s8
           Records == Archives.Records  Reasons == Archives.Reasons  NoReason == Archives.NoReason
           Runners == Archives.Runners
<1>1. Arc!Touch({r}, {}) /\ UNCHANGED <<rule, now, credit>>
  BY DEF Arc!Restore, Arc!ArchiveByHand, Arc!EditRecord
<1>2. now \in Nat /\ record \in [Records -> Arc!Row] /\ log \in [Records -> Arc!Seq(Arc!Entry)]
  BY DEF Arc!IInv, Arc!Typed
<1>3. record[r] \in Arc!Row
  BY <1>2
<1>4. PICK row \in Arc!Row :
        /\ record' = [record EXCEPT ![r] = row]
        /\ ~Arc!Restore(r) /\ row.active => record[r].active
  <2>1. CASE Arc!Restore(r)
    <3>1. PICK kept \in BOOLEAN :
            record' = [record EXCEPT ![r].active = TRUE, ![r].written = now,
                         ![r].reason = IF kept THEN NoReason ELSE @]
      BY <2>1 DEF Arc!Restore
    <3> DEFINE reason == IF kept THEN NoReason ELSE record[r].reason
               row == [record[r] EXCEPT !.active = TRUE, !.written = now, !.reason = reason]
    <3>2. row \in Arc!Row
      BY <1>2, <1>3 DEF Arc!Row
    <3>3. record' = [record EXCEPT ![r] = row]
      BY <1>2, <3>1
    <3> QED
      BY <2>1, <3>2, <3>3
  <2>2. CASE Arc!ArchiveByHand(r)
    <3>1. record' = [record EXCEPT ![r] = Arc!Archived(record[r], record[r].reason)]
      BY <1>2, <2>2 DEF Arc!ArchiveByHand
    <3>2. record[r].reason \in Reasons \cup {NoReason}
      BY <1>3 DEF Arc!Row
    <3>3. Arc!Archived(record[r], record[r].reason) \in Arc!Row
          /\ ~Arc!Archived(record[r], record[r].reason).active
      BY <1>2, <1>3, <3>2, ArchivedRow
    <3> QED
      BY <3>1, <3>3
  <2>3. CASE Arc!EditRecord(r)
    <3>1. PICK reason \in {record[r].reason, NoReason} :
            record' = [record EXCEPT ![r].written = now, ![r].reason = reason]
      BY <2>3 DEF Arc!EditRecord
    <3> DEFINE row == [record[r] EXCEPT !.written = now, !.reason = reason]
    <3>2. row \in Arc!Row /\ row.active = record[r].active
      BY <1>2, <1>3 DEF Arc!Row
    <3>3. record' = [record EXCEPT ![r] = row]
      BY <1>2, <3>1
    <3> QED
      BY <3>2, <3>3
  <2> QED
    BY <2>1, <2>2, <2>3
<1>5. /\ record' \in [Records -> Arc!Row] /\ record'[r] = row
      /\ \A s \in Records \ {r} : record'[s] = record[s]
  <2>1. record' = [record EXCEPT ![r] = row]
    BY <1>4
  <2> QED
    BY <1>2, <2>1
<1>6. /\ run' = [p \in Runners |-> run'[p]] /\ \A p \in Runners : Arc!RunHolds(p)'
      /\ Arc!WizardHolds'
  BY <1>1, <1>5, TouchNotices
<1>7. Arc!CountTells' /\ rule' \in [Arc!RuleSet -> Arc!Rule]
  BY <1>1 DEF Arc!IInv, Arc!Typed, Arc!CountTells
<1>8. log' \in [Records -> Arc!Seq(Arc!Entry)] /\ Arc!LogHolds'
  <2>1. CASE ~Arc!Restore(r)
    <3>1. log' = log /\ missed' = missed
      BY <2>1 DEF Arc!ArchiveByHand, Arc!EditRecord
    <3>2. row.active => record[r].active
      BY <1>4, <2>1
    <3>3. \A s \in Records : record'[s].active => record[s].active
      BY <1>5, <3>2
    <3> QED
      BY <1>2, <3>1, <3>3, LogStays
  <2>2. CASE Arc!Restore(r)
    <3>1. PICK kept \in BOOLEAN :
            /\ log' = IF kept THEN [log EXCEPT ![r] = Arc!Closed(r, log[r])] ELSE log
            /\ missed' = IF kept THEN missed \ {r} ELSE missed \cup {r}
      BY <1>2, <2>2 DEF Arc!Restore
    <3>2. /\ Arc!Closed(r, log[r]) \in Arc!Seq(Arc!Entry)
          /\ \A i \in DOMAIN Arc!Closed(r, log[r]) : ~Arc!Closed(r, log[r])[i].open
      <4>1. log[r] \in Arc!Seq(Arc!Entry)
        BY <1>2
      <4>2. \A i \in DOMAIN log[r] : log[r][i] \in Arc!Entry
        BY <4>1
      <4>3. \A i \in DOMAIN log[r] : [log[r][i] EXCEPT !.open = FALSE] \in Arc!Entry
                                     /\ ~[log[r][i] EXCEPT !.open = FALSE].open
        BY <4>2 DEF Arc!Entry
      <4>4. DOMAIN log[r] = 1..Arc!Len(log[r]) /\ Arc!Len(log[r]) \in Nat
        BY <4>1
      <4> QED
        BY <4>3, <4>4 DEF Arc!Closed
    <3>3. log' \in [Records -> Arc!Seq(Arc!Entry)]
      BY <1>2, <3>1, <3>2
    <3>4. ASSUME NEW s \in Records \ missed'
          PROVE  /\ \A i \in Arc!Open(s)' : \A j \in Arc!Open(s)' : i = j
                 /\ Arc!Open(s)' # {} => ~record'[s].active
      <4>1. CASE s = r
        <5>1. kept
          BY <3>1, <3>4, <4>1
        <5>2. log'[s] = Arc!Closed(r, log[r])
          BY <1>2, <3>1, <4>1, <5>1
        <5>3. Arc!Open(s)' = {}
          BY <3>2, <5>2 DEF Arc!Open
        <5> QED
          BY <5>3
      <4>2. CASE s # r
        <5>1. log'[s] = log[s] /\ record'[s] = record[s] /\ s \notin missed
          BY <1>2, <1>5, <3>1, <3>4, <4>2
        <5> QED
          BY <5>1 DEF Arc!IInv, Arc!LogHolds, Arc!Open
      <4> QED
        BY <4>1, <4>2
    <3> QED
      BY <3>3, <3>4 DEF Arc!LogHolds
  <2> QED
    BY <2>1, <2>2
<1> QED
  BY <1>1, <1>2, <1>5, <1>6, <1>7, <1>8 DEF Arc!IInv, Arc!Typed

LEMMA ArchivesStep == ASSUME Arc!Proper, Arc!IInv, [Arc!Next]_(Arc!vars) PROVE Arc!IInv'
<1> DEFINE record == s1  log == s2  rule == s3  run == s4  wizard == s5  now == s6  credit == s7
           missed == s8  Records == Archives.Records  Reasons == Archives.Reasons
           Runners == Archives.Runners
<1>1. ASSUME NEW p \in Runners, NEW rus, Arc!RunStart(p, rus) PROVE Arc!IInv'
  <2> DEFINE active == {s \in Records : record[s].active}
             seen == [r \in active |-> record[r].written]
             t == [pc |-> "running", todo |-> rus, touched |-> {}, lost |-> {}, seen |-> seen]
  <2>1. run' = [run EXCEPT ![p] = t]
        /\ UNCHANGED <<record, log, rule, wizard, now, credit, missed>>
    BY <1>1 DEF Arc!RunStart
  <2>2. /\ run' = [q \in Runners |-> run'[q]] /\ run'[p] = t
        /\ \A q \in Runners \ {p} : run'[q] = run[q]
    BY <2>1 DEF Arc!IInv, Arc!Typed
  <2>3. /\ t.pc = "running" /\ t.todo = rus /\ t.touched = {} /\ t.lost = {} /\ t.seen = seen
        /\ DOMAIN seen = active /\ active \subseteq Records
        /\ \A r \in active : record[r].active /\ record[r].written = seen[r]
    OBVIOUS
  <2>4. t = [pc |-> "running", todo |-> t.todo, touched |-> t.touched, lost |-> t.lost,
             seen |-> t.seen]
    OBVIOUS
  <2> HIDE DEF t, seen, active
  <2>5. Arc!RunHolds(p)'
    BY <2>1, <2>2, <2>3, <2>4 DEF Arc!RunHolds
  <2>6. \A q \in Runners : Arc!RunHolds(q)'
    BY <2>1, <2>2, <2>5 DEF Arc!IInv, Arc!RunHolds
  <2>7. Arc!WizardHolds'
    BY <2>1 DEF Arc!IInv, Arc!WizardHolds
  <2> QED
    BY <2>1, <2>2, <2>6, <2>7, RecordsStay DEF Arc!IInv, Arc!Typed
<1>2. ASSUME NEW p \in Runners, Arc!RunCommit(p) PROVE Arc!IInv'
  BY <1>2, RunCommits
<1>3. ASSUME NEW p \in Runners, Arc!RunCrash(p) PROVE Arc!IInv'
  <2>1. run' = [run EXCEPT ![p] = Arc!NoRun]
        /\ UNCHANGED <<record, log, rule, wizard, now, credit, missed>>
    BY <1>3 DEF Arc!RunCrash
  <2>2. /\ run' = [q \in Runners |-> run'[q]] /\ run'[p].pc = "idle"
        /\ \A q \in Runners \ {p} : run'[q] = run[q]
    BY <2>1 DEF Arc!IInv, Arc!Typed, Arc!NoRun
  <2>3. \A q \in Runners : Arc!RunHolds(q)'
    BY <2>1, <2>2 DEF Arc!IInv, Arc!RunHolds
  <2>4. Arc!WizardHolds'
    BY <2>1 DEF Arc!IInv, Arc!WizardHolds
  <2> QED
    BY <2>1, <2>2, <2>3, <2>4, RecordsStay DEF Arc!IInv, Arc!Typed
<1>4. CASE Arc!WizardStart
  <2>1. PICK selection \in SUBSET Records, reason \in Reasons, explained \in BOOLEAN :
          wizard' = [pc |-> "running", todo |-> Arc!ToArchive(selection), reason |-> reason, touched |-> {}]
    BY <1>4 DEF Arc!WizardStart
  <2>2. UNCHANGED <<record, log, rule, run, now, credit, missed>>
        /\ Arc!ToArchive(selection) \subseteq Records
        /\ \A r \in Arc!ToArchive(selection) : record[r].active
    BY <1>4 DEF Arc!WizardStart, Arc!ToArchive
  <2>3. /\ wizard'.todo = Arc!ToArchive(selection) /\ wizard'.reason = reason /\ wizard'.touched = {}
    BY <2>1
  <2>4. Arc!WizardHolds'
    BY <2>1, <2>2, <2>3 DEF Arc!WizardHolds
  <2>5. \A p \in Runners : Arc!RunHolds(p)'
    BY <2>2 DEF Arc!IInv, Arc!RunHolds
  <2> QED
    BY <2>2, <2>4, <2>5, RecordsStay DEF Arc!IInv, Arc!Typed
<1>5. CASE Arc!WizardCommit
  BY <1>5, WizardCommits
<1>6. ASSUME NEW r \in Records, Arc!Restore(r) \/ Arc!ArchiveByHand(r) \/ Arc!EditRecord(r)
      PROVE  Arc!IInv'
  BY <1>6, PeopleEdit
<1>7. ASSUME NEW ru \in Arc!RuleSet, Arc!EditRule(ru) \/ Arc!Uninstall(ru) PROVE Arc!IInv'
  <2>1. UNCHANGED <<record, log, now, credit, missed>> /\ (Arc!Touch({}, {ru}) \/ UNCHANGED <<run, wizard>>)
    BY <1>7 DEF Arc!EditRule, Arc!Uninstall
  <2>2. /\ run' = [p \in Runners |-> run'[p]] /\ \A p \in Runners : Arc!RunHolds(p)'
        /\ Arc!WizardHolds'
    <3>1. CASE Arc!Touch({}, {ru})
      BY <2>1, <3>1, TouchNotices
    <3>2. CASE UNCHANGED <<run, wizard>>
      <4>1. run' = [p \in Runners |-> run'[p]]
        BY <3>2 DEF Arc!IInv, Arc!Typed
      <4>2. \A p \in Runners : Arc!RunHolds(p)'
        BY <2>1, <3>2 DEF Arc!IInv, Arc!RunHolds
      <4>3. Arc!WizardHolds'
        BY <2>1, <3>2 DEF Arc!IInv, Arc!WizardHolds
      <4> QED
        BY <4>1, <4>2, <4>3
    <3> QED
      BY <2>1, <3>1, <3>2
  <2>3. /\ rule' \in [Arc!RuleSet -> Arc!Rule]
        /\ \A u \in Arc!RuleSet : rule'[u].total = rule[u].total
    <3>1. rule[ru] \in Arc!Rule /\ rule \in [Arc!RuleSet -> Arc!Rule]
      BY DEF Arc!IInv, Arc!Typed
    <3>2. PICK row :
            /\ rule' = [rule EXCEPT ![ru] = row]
            /\ \/ row = [rule[ru] EXCEPT !.enabled = ~rule[ru].enabled]
               \/ row = [rule[ru] EXCEPT !.broken = ~rule[ru].broken]
      BY <1>7, <3>1 DEF Arc!EditRule, Arc!Uninstall
    <3>3. row \in Arc!Rule /\ row.total = rule[ru].total
      BY <3>1, <3>2 DEF Arc!Rule
    <3> QED
      BY <3>1, <3>2, <3>3
  <2>4. Arc!CountTells'
    BY <2>1, <2>3 DEF Arc!IInv, Arc!CountTells
  <2>5. Arc!LogHolds'
    BY <2>1 DEF Arc!IInv, Arc!LogHolds, Arc!Open
  <2> QED
    BY <2>1, <2>2, <2>3, <2>4, <2>5 DEF Arc!IInv, Arc!Typed
<1>8. CASE Arc!Tick \/ UNCHANGED Arc!vars
  <2>1. UNCHANGED <<record, log, rule, run, wizard, credit, missed>> /\ (now' = now \/ now' = now + 1)
    BY <1>8 DEF Arc!Tick, Arc!vars
  <2>2. now' \in Nat
    BY <2>1 DEF Arc!IInv, Arc!Typed
  <2>3. (\A p \in Runners : Arc!RunHolds(p)') /\ Arc!WizardHolds'
    BY <2>1 DEF Arc!IInv, Arc!RunHolds, Arc!WizardHolds
  <2> QED
    BY <2>1, <2>2, <2>3, RecordsStay DEF Arc!IInv, Arc!Typed
<1>9. Arc!Next \/ UNCHANGED Arc!vars
  OBVIOUS
<1>10. CASE Arc!CronStart \/ \E ru \in Arc!RuleSet : Arc!RunNow(ru)
  <2>1. \E p \in Runners : \E rus \in SUBSET Arc!RuleSet : Arc!RunStart(p, rus)
    BY <1>10 DEF Arc!CronStart, Arc!RunNow, Arc!Proper
  <2> QED
    BY <1>1, <2>1
<1> QED
  BY <1>2, <1>3, <1>4, <1>5, <1>6, <1>7, <1>8, <1>9, <1>10 DEF Arc!Next, Arc!Automatic, Arc!People

\* "Nothing younger than this many days is ever archived", however the days were typed.
LEMMA OldArchived == ASSUME Arc!Proper, Arc!IInv PROVE Arc!OldOnly
<1> DEFINE record == s1  run == s4  now == s6  Records == Archives.Records
           Protected == Archives.Protected  Rules == Archives.Rules  Floor == Archives.Floor
           Runners == Archives.Runners
<1> SUFFICES ASSUME NEW p \in Runners, Arc!RunCommit(p), NEW r \in Records,
                    record[r].active, ~record'[r].active
             PROVE  r \notin Protected /\ record[r].written + Floor < now
  BY DEF Arc!OldOnly
<1> DEFINE t == run[p]
           all == Arc!Applied(t)
<1>1. /\ run[p].pc = "running"
      /\ record' = [s \in Records |->
           IF s \in DOMAIN all.gone THEN Arc!Archived(record[s], record[s].reason) ELSE record[s]]
  BY DEF Arc!RunCommit
<1>2. DOMAIN t.seen \subseteq Records
  BY <1>1 DEF Arc!IInv, Arc!RunHolds
<1>3. Arc!Exact(t, all, Arc!Len(Rules))
  BY <1>2, AppliedExact
<1> HIDE DEF all
<1>4. r \in DOMAIN all.gone
  BY <1>1
<1>5. r \in DOMAIN t.seen \ (Protected \cup t.touched)
  BY <1>3, <1>4 DEF Arc!Exact
<1>6. PICK ru \in Arc!RuleSet : t.seen[r] < now - Arc!Effective(ru)
  BY <1>3, <1>4 DEF Arc!Exact
<1>7. record[r].written = t.seen[r]
  <2>1. Arc!RunHolds(p)
    BY DEF Arc!IInv
  <2> QED
    BY <1>1, <1>5, <2>1 DEF Arc!RunHolds
<1>8. record[r].written \in Nat /\ now \in Nat
  BY DEF Arc!IInv, Arc!Typed, Arc!Row
<1>9. Arc!Effective(ru) \in Int /\ Arc!Effective(ru) >= Floor /\ Floor \in Nat
  BY DEF Arc!Effective, Arc!Proper
<1>10. record[r].written < now - Arc!Effective(ru)
  BY <1>6, <1>7
<1>11. record[r].written + Floor < now
  BY <1>8, <1>9, <1>10
<1> QED
  BY <1>5, <1>11

\* A record that refuses costs nobody else his place in the batch.
LEMMA OnlyRefusedSkipped == ASSUME Arc!Proper, Arc!IInv PROVE Arc!SkipsOnlyRefused
<1> DEFINE record == s1  run == s4  now == s6  Records == Archives.Records
           Stubborn == Archives.Stubborn  Rules == Archives.Rules  Reasons == Archives.Reasons
           NoReason == Archives.NoReason  Runners == Archives.Runners
<1> SUFFICES ASSUME NEW p \in Runners, Arc!RunCommit(p), NEW ru \in Arc!RuleSet,
                    Arc!Runs(run[p], ru),
                    NEW r \in Arc!Batch(ru, run[p], <<>>) \ (Stubborn \cup run[p].touched)
             PROVE  ~record'[r].active
  BY DEF Arc!SkipsOnlyRefused
<1> DEFINE t == run[p]
           all == Arc!Applied(t)
<1>1. /\ run[p].pc = "running"
      /\ record' = [s \in Records |->
           IF s \in DOMAIN all.gone THEN Arc!Archived(record[s], record[s].reason) ELSE record[s]]
  BY DEF Arc!RunCommit
<1>2. DOMAIN t.seen \subseteq Records
  BY <1>1 DEF Arc!IInv, Arc!RunHolds
<1>3. Arc!Exact(t, all, Arc!Len(Rules))
  BY <1>2, AppliedExact
<1> HIDE DEF all
<1>4. PICK m \in 1..Arc!Len(Rules) : ru = Rules[m]
  BY DEF Arc!RuleSet, Arc!Proper
<1>5. r \in DOMAIN all.gone
  BY <1>3, <1>4 DEF Arc!Exact
<1>6. r \in Records
  BY <1>2, <1>3, <1>5 DEF Arc!Exact
<1>7. record[r] \in Arc!Row /\ record[r].reason \in Reasons \cup {NoReason} /\ now \in Nat
  BY <1>6 DEF Arc!IInv, Arc!Typed, Arc!Row
<1>8. ~Arc!Archived(record[r], record[r].reason).active
  BY <1>7, ArchivedRow
<1> QED
  BY <1>1, <1>5, <1>6, <1>8

\* One entry at most is open.
LEMMA OneEntryOpen == ASSUME Arc!IInv PROVE Arc!LogTells
<1> DEFINE record == s1  missed == s8  Records == Archives.Records
<1> SUFFICES ASSUME NEW r \in Records \ missed
             PROVE  Arc!Cardinality(Arc!Open(r)) <= 1 /\ (Arc!Open(r) # {} => ~record[r].active)
  BY DEF Arc!LogTells
<1>1. CASE Arc!Open(r) = {}
  BY <1>1, FS_EmptySet, ArchivesCounted
<1>2. CASE Arc!Open(r) # {}
  <2>1. PICK i \in Arc!Open(r) : \A j \in Arc!Open(r) : j = i
    BY <1>2 DEF Arc!IInv, Arc!LogHolds
  <2>3. Arc!Open(r) = {i}
    BY <2>1
  <2>2. Arc!Cardinality(Arc!Open(r)) = 1
    BY <2>3, FS_Singleton, ArchivesCounted
  <2> QED
    BY <2>2 DEF Arc!IInv, Arc!LogHolds
<1> QED
  BY <1>1, <1>2
-----------------------------------------------------------------------------
(* What a run of rules archives *)

\* A run archives what nobody touched since the floor, however the days of a rule were
\* typed, and skips only what refuses (_target_domain, _run_rule).
THEOREM RunsAreExact == Spec => RunExact
<1>1. Init => (part = "archiving" => Arc!IInv)
  BY AddOnsAssumption, ArchivesBegin DEF Init
<1>2. (part = "archiving" => Arc!IInv) /\ [Next]_vars => (part = "archiving" => Arc!IInv)'
  <2> SUFFICES ASSUME part = "archiving" => Arc!IInv, [Next]_vars, part' = "archiving"
               PROVE  Arc!IInv'
    OBVIOUS
  <2>1. part = "archiving" /\ [Arc!Next]_(Arc!vars)
    BY PartStays DEF Next, vars, Arc!vars
  <2> QED
    BY <2>1, AddOnsAssumption, ArchivesStep
<1>3. (part = "archiving" => Arc!IInv) /\ [Next]_vars =>
        [part = "archiving" => Arc!OldOnly /\ Arc!SkipsOnlyRefused]_vars
  BY AddOnsAssumption, OldArchived, OnlyRefusedSkipped
<1> QED
  BY <1>1, <1>2, <1>3, PTL DEF Spec, RunExact

\* The total of a rule is what it archived, however many runs race, fail or skip.
THEOREM TotalsAreKept == Spec => [](part = "archiving" => Arc!CountTells)
<1>1. Init => (part = "archiving" => Arc!IInv)
  BY AddOnsAssumption, ArchivesBegin DEF Init
<1>2. (part = "archiving" => Arc!IInv) /\ [Next]_vars => (part = "archiving" => Arc!IInv)'
  <2> SUFFICES ASSUME part = "archiving" => Arc!IInv, [Next]_vars, part' = "archiving"
               PROVE  Arc!IInv'
    OBVIOUS
  <2>1. part = "archiving" /\ [Arc!Next]_(Arc!vars)
    BY PartStays DEF Next, vars, Arc!vars
  <2> QED
    BY <2>1, AddOnsAssumption, ArchivesStep
<1>3. (part = "archiving" => Arc!IInv) => (part = "archiving" => Arc!CountTells)
  BY DEF Arc!IInv
<1> QED
  BY <1>1, <1>2, <1>3, PTL DEF Spec

-----------------------------------------------------------------------------
(* Sums over a finite set of rows, and what a row more adds to them *)

Some(s) == CHOOSE r \in s : TRUE

\* h adds up the counts of each subset of rows, one row after the other
IsSum(rows, h) ==
  h = [s \in SUBSET rows |-> IF s = {} THEN 0 ELSE Some(s).count + h[s \ {Some(s)}]]

\* The same, of the subsets that have at most k rows.
IsSumUpTo(rows, h, k) ==
  h = [s \in {u \in SUBSET rows : Cardinality(u) <= k} |->
         IF s = {} THEN 0 ELSE Some(s).count + h[s \ {Some(s)}]]

LEMMA SubsetCounts ==
  ASSUME NEW rows, IsFiniteSet(rows), NEW s \in SUBSET rows
  PROVE  /\ IsFiniteSet(s) /\ Cardinality(s) \in Nat /\ Cardinality(s) <= Cardinality(rows)
         /\ Cardinality(rows) \in Nat
         /\ s = {} <=> Cardinality(s) = 0
         /\ \A r \in s : Cardinality(s \ {r}) = Cardinality(s) - 1 /\ s \ {r} \in SUBSET rows
<1>1. IsFiniteSet(s) /\ Cardinality(s) <= Cardinality(rows)
  BY FS_Subset
<1>2. Cardinality(s) \in Nat /\ Cardinality(rows) \in Nat
  BY <1>1, FS_CardinalityType
<1>3. s = {} <=> Cardinality(s) = 0
  BY <1>1, FS_EmptySet
<1>4. \A r \in s : Cardinality(s \ {r}) = Cardinality(s) - 1
  BY <1>1, FS_RemoveElement
<1> QED
  BY <1>1, <1>2, <1>3, <1>4

LEMMA SomeIsOne == ASSUME NEW s, s # {} PROVE Some(s) \in s
BY DEF Some

\* Sums of more rows are built on those of fewer.
LEMMA SumGrows ==
  ASSUME NEW rows, IsFiniteSet(rows), NEW k \in Nat, NEW f, IsSumUpTo(rows, f, k)
  PROVE  \E h : IsSumUpTo(rows, h, k + 1)
<1> DEFINE Small(n) == {u \in SUBSET rows : Cardinality(u) <= n}
           Value(h, s) == IF s = {} THEN 0 ELSE Some(s).count + h[s \ {Some(s)}]
           g == [s \in Small(k + 1) |-> Value(f, s)]
<1>1. ASSUME NEW s \in Small(k + 1) PROVE Value(f, s) = Value(g, s)
  <2>1. CASE s = {}
    BY <2>1
  <2>2. CASE s # {}
    <3> DEFINE t == s \ {Some(s)}
    <3>1. Some(s) \in s
      BY <2>2, SomeIsOne
    <3>2. Cardinality(t) = Cardinality(s) - 1 /\ t \in SUBSET rows /\ Cardinality(s) \in Nat
      BY <3>1, SubsetCounts
    <3>3. Cardinality(t) <= k
      BY <3>2
    <3>4. t \in Small(k) /\ t \in Small(k + 1)
      BY <3>2, <3>3
    <3>5. f[t] = Value(f, t)
      BY <3>4 DEF IsSumUpTo
    <3>6. g[t] = Value(f, t)
      BY <3>4
    <3> QED
      BY <3>5, <3>6
  <2> QED
    BY <2>1, <2>2
<1>2. g = [s \in Small(k + 1) |-> Value(g, s)]
  BY <1>1
<1> HIDE DEF g
<1>3. IsSumUpTo(rows, g, k + 1)
  BY <1>2 DEF IsSumUpTo
<1> QED
  BY <1>3

LEMMA SumIsThere ==
  ASSUME NEW rows, IsFiniteSet(rows) PROVE \E h : IsSum(rows, h)
<1> DEFINE Missing == {k \in Nat : ~ \E h : IsSumUpTo(rows, h, k)}
<1>1. \E h : IsSumUpTo(rows, h, 0)
  <2> DEFINE none == {u \in SUBSET rows : Cardinality(u) <= 0}
             h == [s \in none |-> 0]
  <2>1. \A s \in none : s = {}
    BY SubsetCounts
  <2>2. h = [s \in none |-> IF s = {} THEN 0 ELSE Some(s).count + h[s \ {Some(s)}]]
    BY <2>1
  <2> HIDE DEF h
  <2>3. IsSumUpTo(rows, h, 0)
    BY <2>2 DEF IsSumUpTo
  <2> QED
    BY <2>3
<1>2. Missing = {}
  <2> SUFFICES ASSUME Missing # {} PROVE FALSE
    OBVIOUS
  <2>1. PICK k \in Missing : \A j \in Missing : k <= j
    <3>1. Missing \in SUBSET Nat
      OBVIOUS
    <3> QED
      BY <3>1, LeastIsThere
  <2>2. k \in Nat /\ k # 0
    BY <1>1, <2>1
  <2>3. k - 1 \in Nat /\ ~(k <= k - 1) /\ (k - 1) + 1 = k
    BY <2>2
  <2>4. PICK f : IsSumUpTo(rows, f, k - 1)
    BY <2>1, <2>3
  <2>5. \E h : IsSumUpTo(rows, h, (k - 1) + 1)
    BY <2>3, <2>4, SumGrows
  <2> QED
    BY <2>1, <2>3, <2>5
<1>3. PICK h : IsSumUpTo(rows, h, Cardinality(rows))
  <2>1. Cardinality(rows) \in Nat
    BY FS_CardinalityType
  <2> QED
    BY <1>2, <2>1
<1>4. {u \in SUBSET rows : Cardinality(u) <= Cardinality(rows)} = SUBSET rows
  BY SubsetCounts
<1>5. IsSum(rows, h)
  BY <1>3, <1>4 DEF IsSum, IsSumUpTo
<1> QED
  BY <1>5

\* Total is such a sum.
LEMMA TotalIsSum ==
  ASSUME NEW rows, IsFiniteSet(rows)
  PROVE  \E h : IsSum(rows, h) /\ Exp!Total(rows) = h[rows]
<1> DEFINE f == [r \in rows |-> r.count]
           Is(h) == h = [s \in SUBSET (DOMAIN f) |->
                           IF s = {} THEN 0
                           ELSE f[CHOOSE r \in s : TRUE] + h[s \ {CHOOSE r \in s : TRUE}]]
           sum == CHOOSE h : Is(h)
<1>1. Exp!Total(rows) = sum[DOMAIN f]
  BY DEF Exp!Total, Exp!FoldFunction, Exp!FoldFunctionOnSet, Exp!MapThenFoldSet
<1>2. \A h : IsSum(rows, h) <=> Is(h)
  <2> SUFFICES ASSUME NEW h PROVE IsSum(rows, h) <=> Is(h)
    OBVIOUS
  <2>1. DOMAIN f = rows
    OBVIOUS
  <2>2. \A s \in SUBSET rows : s # {} =>
          (CHOOSE r \in s : TRUE) \in rows /\ f[CHOOSE r \in s : TRUE] = Some(s).count
    BY SomeIsOne DEF Some
  <2>3. \A s \in SUBSET rows :
          (IF s = {} THEN 0 ELSE Some(s).count + h[s \ {Some(s)}])
            = (IF s = {} THEN 0
               ELSE f[CHOOSE r \in s : TRUE] + h[s \ {CHOOSE r \in s : TRUE}])
    BY <2>2 DEF Some
  <2> HIDE DEF f
  <2> QED
    BY <2>1, <2>3 DEF IsSum
<1>3. Is(sum)
  <2>1. PICK h : IsSum(rows, h)
    BY SumIsThere
  <2> HIDE DEF Is
  <2>2. Is(h)
    BY <1>2, <2>1
  <2> QED
    BY <2>2
<1>4. DOMAIN f = rows
  OBVIOUS
<1> HIDE DEF sum, f
<1>5. IsSum(rows, sum)
  BY <1>2, <1>3
<1> QED
  BY <1>1, <1>4, <1>5

Naturals(rows) == \A r \in rows : r.count \in Nat

\* Of sets of which a condition does not hold, one is smallest.
LEMMA SmallestIsThere ==
  ASSUME NEW rows, IsFiniteSet(rows), NEW bad \in SUBSET (SUBSET rows), bad # {}
  PROVE  \E s \in bad : \A t \in bad : Cardinality(s) <= Cardinality(t)
<1> DEFINE sizes == {Cardinality(s) : s \in bad}
<1>1. sizes \in SUBSET Nat /\ sizes # {}
  BY SubsetCounts
<1>2. PICK n \in sizes : \A m \in sizes : n <= m
  BY <1>1, LeastIsThere
<1> QED
  BY <1>2

LEMMA SumIsNatural ==
  ASSUME NEW rows, IsFiniteSet(rows), Naturals(rows), NEW h, IsSum(rows, h)
  PROVE  /\ h[{}] = 0
         /\ \A s \in SUBSET rows :
              h[s] \in Nat /\ (s # {} => h[s] = Some(s).count + h[s \ {Some(s)}])
<1>1. \A s \in SUBSET rows : h[s] = IF s = {} THEN 0 ELSE Some(s).count + h[s \ {Some(s)}]
  BY DEF IsSum
<1> DEFINE bad == {s \in SUBSET rows : h[s] \notin Nat}
<1>2. bad = {}
  <2> SUFFICES ASSUME bad # {} PROVE FALSE
    OBVIOUS
  <2>1. PICK s \in bad : \A t \in bad : Cardinality(s) <= Cardinality(t)
    BY SmallestIsThere
  <2>2. s # {}
    BY <1>1, <2>1
  <2>3. Some(s) \in s /\ Some(s).count \in Nat
    BY <2>1, <2>2, SomeIsOne DEF Naturals
  <2> DEFINE t == s \ {Some(s)}
  <2>4. t \in SUBSET rows /\ Cardinality(t) = Cardinality(s) - 1 /\ Cardinality(s) \in Nat
    BY <2>1, <2>3, SubsetCounts
  <2> HIDE DEF t
  <2>5. ~(Cardinality(s) <= Cardinality(t))
    BY <2>4
  <2>6. h[t] \in Nat
    BY <2>1, <2>4, <2>5
  <2>7. h[s] = Some(s).count + h[t]
    BY <1>1, <2>1, <2>2 DEF t
  <2> QED
    BY <2>1, <2>3, <2>6, <2>7
<1> QED
  BY <1>1, <1>2

\* Whichever row is taken first, the sum is the same.
LEMMA SumOfAnyFirst ==
  ASSUME NEW rows, IsFiniteSet(rows), Naturals(rows), NEW h, IsSum(rows, h)
  PROVE  \A s \in SUBSET rows : \A r \in s : h[s] = r.count + h[s \ {r}]
<1> DEFINE bad == {s \in SUBSET rows : \E r \in s : h[s] # r.count + h[s \ {r}]}
<1> SUFFICES ASSUME bad # {} PROVE FALSE
  OBVIOUS
<1>1. PICK s \in bad : \A t \in bad : Cardinality(s) <= Cardinality(t)
  BY SmallestIsThere
<1>2. PICK r \in s : h[s] # r.count + h[s \ {r}]
  BY <1>1
<1> DEFINE c == Some(s)
<1>3. c \in s /\ s \in SUBSET rows
  BY <1>1, <1>2, SomeIsOne
<1>4. h[s] = c.count + h[s \ {c}]
  <2>1. s # {}
    BY <1>2
  <2> QED
    BY <1>3, <2>1, SumIsNatural
<1> HIDE DEF c
<1>5. c # r
  BY <1>2, <1>4
<1> DEFINE t == s \ {c}
           u == s \ {r}
<1>6. /\ Cardinality(t) = Cardinality(s) - 1 /\ Cardinality(u) = Cardinality(s) - 1
      /\ Cardinality(s) \in Nat /\ t \in SUBSET rows /\ u \in SUBSET rows
  BY <1>2, <1>3, SubsetCounts
<1>7. r \in t /\ c \in u /\ t \ {r} = u \ {c}
  BY <1>2, <1>3, <1>5
<1> HIDE DEF t, u
<1>8. ~(Cardinality(s) <= Cardinality(t)) /\ ~(Cardinality(s) <= Cardinality(u))
  BY <1>6
<1>9. t \notin bad /\ u \notin bad
  BY <1>1, <1>8
<1>10. h[t] = r.count + h[t \ {r}] /\ h[u] = c.count + h[u \ {c}]
  BY <1>6, <1>7, <1>9
<1>11. r.count \in Nat /\ c.count \in Nat /\ h[t \ {r}] \in Nat
  <2>1. t \ {r} \in SUBSET rows
    BY <1>6
  <2> QED
    BY <1>2, <1>3, <2>1, SumIsNatural DEF Naturals
<1>12. h[s] = r.count + h[u]
  <2>1. h[s] = c.count + h[t]
    BY <1>4 DEF t
  <2>2. h[u] = c.count + h[t \ {r}]
    BY <1>7, <1>10
  <2> QED
    BY <1>10, <1>11, <2>1, <2>2
<1> QED
  BY <1>2, <1>12 DEF u

\* A sum over more rows is a sum over these.
LEMMA SumOfFewer ==
  ASSUME NEW rows, IsFiniteSet(rows), Naturals(rows), NEW h, IsSum(rows, h),
         NEW few \in SUBSET rows, NEW g, IsSum(few, g)
  PROVE  g[few] = h[few]
<1>1. IsFiniteSet(few) /\ Naturals(few)
  BY FS_Subset DEF Naturals
<1>3. \A s \in SUBSET few : s # {} => g[s] = Some(s).count + g[s \ {Some(s)}]
  BY <1>1, SumIsNatural
<1> DEFINE bad == {s \in SUBSET few : g[s] # h[s]}
<1>2. bad = {}
  <2> SUFFICES ASSUME bad # {} PROVE FALSE
    OBVIOUS
  <2>1. PICK s \in bad : \A t \in bad : Cardinality(s) <= Cardinality(t)
    BY <1>1, SmallestIsThere
  <2>2. s \in SUBSET few /\ s \in SUBSET rows
    BY <2>1
  <2>3. s # {}
    BY <1>1, <2>1, SumIsNatural
  <2> DEFINE t == s \ {Some(s)}
  <2>4. Some(s) \in s
    BY <2>3, SomeIsOne
  <2>5. /\ t \in SUBSET few /\ Cardinality(t) = Cardinality(s) - 1 /\ Cardinality(s) \in Nat
    BY <1>1, <2>2, <2>4, SubsetCounts
  <2>6. g[s] = Some(s).count + g[t]
    BY <1>3, <2>2, <2>3
  <2>9. h[s] = Some(s).count + h[t]
    BY <2>2, <2>3, SumIsNatural
  <2> HIDE DEF t
  <2>7. ~(Cardinality(s) <= Cardinality(t))
    BY <2>5
  <2>8. g[t] = h[t]
    BY <2>1, <2>5, <2>7
  <2> QED
    BY <2>1, <2>6, <2>8, <2>9
<1> QED
  BY <1>2

\* A total of natural numbers, and what one more row adds to it.
LEMMA TotalOfNone == Exp!Total({}) = 0
<1>1. IsFiniteSet({})
  BY FS_EmptySet
<1>2. PICK h : IsSum({}, h) /\ Exp!Total({}) = h[{}]
  BY <1>1, TotalIsSum
<1>3. Naturals({})
  BY DEF Naturals
<1> QED
  BY <1>1, <1>2, <1>3, SumIsNatural

LEMMA TotalOfMore ==
  ASSUME NEW rows, IsFiniteSet(rows), Naturals(rows), NEW r, r.count \in Nat, r \notin rows
  PROVE  Exp!Total(rows) \in Nat /\ Exp!Total(rows \cup {r}) = Exp!Total(rows) + r.count
<1> DEFINE more == rows \cup {r}
<1>1. IsFiniteSet(more) /\ Naturals(more)
  BY FS_AddElement DEF Naturals
<1>2. PICK h : IsSum(more, h) /\ Exp!Total(more) = h[more]
  BY <1>1, TotalIsSum
<1>3. PICK g : IsSum(rows, g) /\ Exp!Total(rows) = g[rows]
  BY TotalIsSum
<1>4. g[rows] = h[rows]
  BY <1>1, <1>2, <1>3, SumOfFewer
<1>5. h[more] = r.count + h[more \ {r}]
  BY <1>1, <1>2, SumOfAnyFirst
<1>6. more \ {r} = rows
  OBVIOUS
<1>7. h[rows] \in Nat
  BY <1>1, <1>2, SumIsNatural
<1> HIDE DEF more
<1>8. Exp!Total(more) = r.count + h[rows] /\ Exp!Total(rows) = h[rows]
  BY <1>2, <1>3, <1>4, <1>5, <1>6
<1>9. Exp!Total(more) = Exp!Total(rows) + r.count
  BY <1>7, <1>8
<1> QED
  BY <1>7, <1>8, <1>9 DEF more

LEMMA TotalIsNatural ==
  ASSUME NEW rows, IsFiniteSet(rows), Naturals(rows) PROVE Exp!Total(rows) \in Nat
<1>1. PICK h : IsSum(rows, h) /\ Exp!Total(rows) = h[rows]
  BY TotalIsSum
<1>2. \A s \in SUBSET rows : h[s] \in Nat
  BY <1>1, SumIsNatural
<1> QED
  BY <1>1, <1>2

-----------------------------------------------------------------------------
(* ExportAudit: what a transaction exported is in its rows, or will be.    *)

LEMMA CountsBegin == ASSUME Exp!Proper, Exp!Init PROVE Exp!CInv
<1> DEFINE tx == s1  pending == s2  written == s3  exported == s4  lost == s5  log == s6
           Txs == Exports.Txs  Keys == Exports.Keys
<1>1. Exp!IInv
  BY LogBegins
<1>2. Exp!NoExports \in [Keys -> Nat] /\ \A k \in Keys : Exp!NoExports[k] = 0
  BY DEF Exp!NoExports
<1>3. Exp!CountsTyped
  <2>1. \A t \in Txs : DOMAIN pending[t] = {} /\ written[t] = {}
    BY DEF Exp!Init, Exp!Nothing
  <2>2. \A t \in Txs : Exp!IsFiniteSet(written[t])
    BY <2>1, FS_EmptySet, ExportsCounted
  <2>3. exported \in [Txs -> [Keys -> Nat]] /\ lost = [t \in Txs |-> lost[t]] /\ log = {}
    BY <1>2 DEF Exp!Init
  <2> QED
    BY <2>1, <2>2, <2>3 DEF Exp!CountsTyped
<1>4. ASSUME NEW t \in Txs PROVE Exp!Counted(t)
  <2>1. /\ tx[t].pc = "new" /\ pending[t] = Exp!Nothing /\ DOMAIN pending[t] = {} /\ written[t] = {}
        /\ exported[t] = Exp!NoExports
    BY DEF Exp!Init, Exp!NoTx, Exp!Nothing
  <2>2. ASSUME NEW k \in Keys
        PROVE  Exp!Total(Exp!RowsOf(written[t], k)) + Exp!Held(t, k) = exported[t][k]
    <3>1. Exp!RowsOf(written[t], k) = {} /\ Exp!Held(t, k) = 0 /\ exported[t][k] = 0
      BY <1>2, <2>1 DEF Exp!RowsOf, Exp!Held
    <3> QED
      BY <3>1, TotalOfNone
  <2> QED
    BY <2>1, <2>2 DEF Exp!Counted
<1> QED
  BY <1>1, <1>3, <1>4 DEF Exp!CInv

\* A transaction steps; of the others, all that is counted stays as it was.
LEMMA OneCounts ==
  ASSUME Exp!CInv, NEW t \in Exports.Txs, s1[t].pc # "done",
         NEW v \in Exp!Transactions, s1' = [s1 EXCEPT ![t] = v],
         NEW p, s2' = [s2 EXCEPT ![t] = p], \A k \in DOMAIN p : p[k] \in Nat,
         NEW w, s3' = [s3 EXCEPT ![t] = w], Exp!IsFiniteSet(w),
         \A r \in w : r.tx = t /\ r.count \in Nat,
         NEW e \in [Exports.Keys -> Nat], s4' = [s4 EXCEPT ![t] = e],
         NEW l, s5' = [s5 EXCEPT ![t] = l],
         \A r \in s6' : r \in s6 \/ (r.tx = t /\ v.pc = "done"),
         Exp!Counted(t)'
  PROVE  Exp!CountsTyped' /\ \A u \in Exports.Txs : Exp!Counted(u)'
<1> DEFINE tx == s1  pending == s2  written == s3  exported == s4  lost == s5  log == s6
           Txs == Exports.Txs  Keys == Exports.Keys
<1>1. /\ tx'[t] = v /\ pending'[t] = p /\ written'[t] = w /\ exported'[t] = e /\ lost'[t] = l
      /\ \A u \in Txs \ {t} :
           /\ tx'[u] = tx[u] /\ pending'[u] = pending[u] /\ written'[u] = written[u]
           /\ exported'[u] = exported[u] /\ lost'[u] = lost[u]
  BY DEF Exp!CInv, Exp!IInv, Exp!OpenTyped, Exp!CountsTyped
<1>2. exported' \in [Txs -> [Keys -> Nat]] /\ lost' = [u \in Txs |-> lost'[u]]
  BY DEF Exp!CInv, Exp!CountsTyped
<1>3. \A u \in Txs : \A k \in DOMAIN pending'[u] : pending'[u][k] \in Nat
  BY <1>1 DEF Exp!CInv, Exp!CountsTyped
<1>4. \A u \in Txs : Exp!IsFiniteSet(written'[u]) /\ \A r \in written'[u] : r.tx = u /\ r.count \in Nat
  BY <1>1 DEF Exp!CInv, Exp!CountsTyped
<1>5. ASSUME NEW r \in log' PROVE r.tx \in Txs /\ tx'[r.tx].pc = "done"
  <2>1. CASE r \in log
    <3>1. r.tx \in Txs /\ tx[r.tx].pc = "done"
      BY <2>1 DEF Exp!CInv, Exp!CountsTyped
    <3> QED
      BY <1>1, <3>1
  <2>2. CASE r \notin log
    BY <1>1, <2>2
  <2> QED
    BY <2>1, <2>2
<1>6. ASSUME NEW u \in Txs PROVE Exp!Counted(u)'
  <2>1. CASE u = t
    BY <2>1
  <2>2. CASE u # t
    <3>1. Exp!Counted(u)
      BY DEF Exp!CInv
    <3> QED
      BY <1>1, <2>2, <3>1 DEF Exp!Counted, Exp!Held
  <2> QED
    BY <2>1, <2>2
<1> QED
  BY <1>2, <1>3, <1>4, <1>5, <1>6 DEF Exp!CountsTyped

\* Nothing that is counted changes.
LEMMA NoneCounts ==
  ASSUME Exp!CInv, UNCHANGED <<s1, s2, s3, s4, s5>>, s6' \subseteq s6
  PROVE  Exp!CountsTyped' /\ \A u \in Exports.Txs : Exp!Counted(u)'
<1> DEFINE Txs == Exports.Txs
<1>1. Exp!CountsTyped'
  BY DEF Exp!CInv, Exp!CountsTyped
<1>2. ASSUME NEW u \in Txs PROVE Exp!Counted(u)'
  <2>1. Exp!Counted(u)
    BY DEF Exp!CInv
  <2> QED
    BY <2>1 DEF Exp!Counted, Exp!Held
<1> QED
  BY <1>1, <1>2

\* What is counted of a transaction, as it is.
LEMMA CountsAsTheyAre ==
  ASSUME Exp!CInv, NEW t \in Exports.Txs
  PROVE  /\ s1[t] \in Exp!Transactions /\ s4[t] \in [Exports.Keys -> Nat] /\ DOMAIN s2[t] \subseteq Exports.Keys
         /\ \A k \in DOMAIN s2[t] : s2[t][k] \in Nat
         /\ Exp!IsFiniteSet(s3[t]) /\ \A r \in s3[t] : r.tx = t /\ r.count \in Nat
         /\ s2 = [s2 EXCEPT ![t] = s2[t]]
         /\ s3 = [s3 EXCEPT ![t] = s3[t]]
         /\ s4 = [s4 EXCEPT ![t] = s4[t]]
         /\ s5 = [s5 EXCEPT ![t] = s5[t]]
         /\ Exp!Counted(t)
BY DEF Exp!CInv, Exp!IInv, Exp!OpenTyped, Exp!CountsTyped

LEMMA TotalOfRows ==
  ASSUME Exp!CInv, NEW t \in Exports.Txs, NEW k
  PROVE  /\ Exp!IsFiniteSet(Exp!RowsOf(s3[t], k)) /\ Naturals(Exp!RowsOf(s3[t], k))
         /\ Exp!Total(Exp!RowsOf(s3[t], k)) \in Nat
<1> DEFINE written == s3
<1>1. Exp!RowsOf(written[t], k) \subseteq written[t]
  BY DEF Exp!RowsOf
<1>2. Exp!IsFiniteSet(Exp!RowsOf(written[t], k)) /\ Naturals(Exp!RowsOf(written[t], k))
  BY <1>1, FS_Subset, ExportsCounted, CountsAsTheyAre DEF Naturals
<1> QED
  BY <1>2, TotalIsNatural, ExportsCounted

\* Each row that is flushed is of a key of its own, and a new one.
LEMMA ExportsWritten ==
  ASSUME Exp!Proper, Exp!CInv, NEW t \in Exports.Txs, NEW failed, Exp!Flushed(t, failed)
  PROVE  \E w :
           /\ s3' = [s3 EXCEPT ![t] = w]
           /\ Exp!IsFiniteSet(w) /\ \A r \in w : r.tx = t /\ r.count \in Nat
           /\ \A k \in DOMAIN s2[t] \ failed : \E r :
                r \notin s3[t] /\ r.count = s2[t][k]
                  /\ Exp!RowsOf(w, k) = Exp!RowsOf(s3[t], k) \cup {r}
           /\ \A k \in Exports.Keys \ DOMAIN s2[t] : Exp!RowsOf(w, k) = Exp!RowsOf(s3[t], k)
<1> DEFINE tx == s1  pending == s2  written == s3  serial == s7  Keys == Exports.Keys
<1> DEFINE kept == DOMAIN pending[t] \ failed
           row(id, k) == [tx |-> t, key |-> k, count |-> pending[t][k], id |-> id[k],
                          date |-> tx[t].start]
<1>1. PICK id \in [kept -> (serial + 1)..(serial + Exp!Cardinality(kept))] :
        /\ written' = [written EXCEPT ![t] = written[t] \cup {row(id, k) : k \in kept}]
        /\ serial' = serial + Exp!Cardinality(kept)
  BY DEF Exp!Flushed
<1> DEFINE fresh == {row(id, k) : k \in kept}
           w == written[t] \cup fresh
<1>2. Exp!IsFiniteSet(kept) /\ Exp!Cardinality(kept) \in Nat
  <2>1. kept \subseteq Keys
    BY DEF Exp!CInv, Exp!IInv, Exp!OpenTyped
  <2>2. Exp!IsFiniteSet(kept)
    BY <2>1, FS_Subset, ExportsCounted DEF Exp!Proper
  <2> QED
    BY <2>2, FS_CardinalityType, ExportsCounted
<1>3. serial \in Nat
  BY DEF Exp!CInv, Exp!IInv, Exp!OpenTyped
<1>4. \A k \in kept : id[k] \in Int /\ id[k] > serial
  <2> SUFFICES ASSUME NEW k \in kept PROVE id[k] \in Int /\ id[k] > serial
    OBVIOUS
  <2>1. id[k] \in (serial + 1)..(serial + Exp!Cardinality(kept))
    OBVIOUS
  <2> HIDE DEF kept
  <2> QED
    BY <1>2, <1>3, <2>1
<1>5. \A r \in written[t] : r.id \in Nat /\ r.id <= serial
  BY DEF Exp!CInv, Exp!IInv, Exp!IdsFollowDates, Exp!Rows
<1>6. Exp!IsFiniteSet(w)
  <2>1. Exp!IsFiniteSet(fresh)
    <3> DEFINE f == [k \in kept |-> row(id, k)]
    <3>1. f \in [kept -> fresh] /\ \A x \in fresh : \E k \in kept : f[k] = x
      OBVIOUS
    <3> HIDE DEF fresh, f
    <3>2. f \in Surjection(kept, fresh)
      BY <3>1 DEF Surjection
    <3> QED
      BY <1>2, <3>2, FS_Surjection, ExportsCounted
  <2>2. Exp!IsFiniteSet(written[t])
    BY CountsAsTheyAre
  <2> HIDE DEF fresh
  <2> QED
    BY <2>1, <2>2, FS_Union, ExportsCounted
<1>7. ASSUME NEW r \in w PROVE r.tx = t /\ r.count \in Nat
  <2>1. CASE r \in written[t]
    BY <2>1, CountsAsTheyAre
  <2>2. CASE r \in fresh
    BY <2>2, CountsAsTheyAre
  <2> QED
    BY <2>1, <2>2
<1>8. ASSUME NEW k \in kept
      PROVE  \E r : r \notin written[t] /\ r.count = pending[t][k]
                      /\ Exp!RowsOf(w, k) = Exp!RowsOf(written[t], k) \cup {r}
  <2> DEFINE r == row(id, k)
  <2>1. r.id = id[k] /\ r.count = pending[t][k] /\ r.key = k /\ r \in w
    OBVIOUS
  <2>2. r \notin written[t]
    BY <1>3, <1>4, <1>5, <2>1
  <2>3. \A x \in fresh : x.key = k => x = r
    OBVIOUS
  <2> HIDE DEF r, fresh
  <2>4. Exp!RowsOf(w, k) = Exp!RowsOf(written[t], k) \cup {r}
    BY <2>1, <2>3 DEF Exp!RowsOf
  <2> QED
    BY <2>1, <2>2, <2>4
<1>9. ASSUME NEW k \in Keys \ DOMAIN pending[t] PROVE Exp!RowsOf(w, k) = Exp!RowsOf(written[t], k)
  <2>1. \A x \in fresh : x.key # k
    OBVIOUS
  <2> HIDE DEF fresh
  <2> QED
    BY <2>1 DEF Exp!RowsOf
<1> HIDE DEF row
<1>10. written' = [written EXCEPT ![t] = w]
  BY <1>1
<1> HIDE DEF w
<1> QED
  BY <1>6, <1>7, <1>8, <1>9, <1>10


\* An export is added to what the cursor holds, or marks its key.
LEMMA ExportCounted ==
  ASSUME Exp!Proper, Exp!CInv, NEW t \in Exports.Txs, NEW k \in Exports.Keys,
         NEW n \in Exports.Sizes,
         Exp!Export(t, k, n) \/ Exp!ExportUnrecorded(t, k, n)
  PROVE  Exp!CountsTyped' /\ \A u \in Exports.Txs : Exp!Counted(u)'
<1> DEFINE tx == s1  pending == s2  written == s3  exported == s4  lost == s5  log == s6
           Keys == Exports.Keys
<1> DEFINE more == [exported[t] EXCEPT ![k] = exported[t][k] + n]
<1>1. /\ tx[t].pc = "open" /\ UNCHANGED <<written, log>>
      /\ exported' = [exported EXCEPT ![t] = more]
  BY CountsAsTheyAre DEF Exp!Export, Exp!ExportUnrecorded
<1>2. n \in Nat /\ tx[t] \in Exp!Transactions /\ exported[t] \in [Keys -> Nat]
  BY CountsAsTheyAre DEF Exp!Proper
<1>3. /\ more \in [Keys -> Nat] /\ more[k] = exported[t][k] + n
      /\ \A j \in Keys \ {k} : more[j] = exported[t][j]
  BY <1>2
<1> HIDE DEF more
<1>4. Exp!Counted(t)
  BY CountsAsTheyAre
<1>5. exported'[t] = more /\ written'[t] = written[t]
  BY <1>1 DEF Exp!CInv, Exp!CountsTyped
<1>6. CASE Exp!Export(t, k, n)
  <2> DEFINE counts == Exp!Added(pending[t], k, n)
             hooked == tx[t].hook \/ pending[t] = Exp!Nothing
             v == [tx[t] EXCEPT !.chunks = tx[t].chunks + 1, !.hook = hooked]
  <2>1. tx' = [tx EXCEPT ![t] = v] /\ pending' = [pending EXCEPT ![t] = counts] /\ lost' = lost
    BY <1>2, <1>6 DEF Exp!Export, Exp!CInv, Exp!IInv, Exp!OpenTyped, Exp!Transactions
  <2>2. /\ v \in Exp!Transactions /\ v.pc = "open" /\ v.again = tx[t].again
        /\ v.split = tx[t].split /\ (v.hook <=> hooked)
    <3>1. hooked \in BOOLEAN /\ tx[t].chunks + 1 \in Int
      BY <1>2 DEF Exp!Transactions
    <3> HIDE DEF hooked
    <3> QED
      BY <1>1, <1>2, <3>1 DEF Exp!Transactions
  <2>3. \A j \in DOMAIN counts : counts[j] \in Nat
    BY <1>2, CountsAsTheyAre DEF Exp!Added
  <2>4. /\ k \in DOMAIN counts /\ counts[k] = Exp!Held(t, k) + n
        /\ \A j \in Keys \ {k} : (IF j \in DOMAIN counts THEN counts[j] ELSE 0) = Exp!Held(t, j)
    BY <1>2, CountsAsTheyAre DEF Exp!Added, Exp!Held
  <2>5. pending'[t] = counts /\ tx'[t] = v /\ lost'[t] = lost[t]
    BY <2>1 DEF Exp!CInv, Exp!IInv, Exp!OpenTyped
  <2>6. pending[t] = Exp!Nothing \/ tx[t].again \/ tx[t].hook
    BY <1>1, <1>4 DEF Exp!Counted
  <2> HIDE DEF v, counts
  <2>7. Exp!Counted(t)'
    <3>1. SUFFICES ASSUME ~tx[t].again PROVE Exp!Counted(t)'
      BY <2>2, <2>5 DEF Exp!Counted
    <3>2. ASSUME NEW j \in Keys \ lost[t]
          PROVE  Exp!Total(Exp!RowsOf(written[t], j)) + (IF j \in DOMAIN counts THEN counts[j] ELSE 0) = more[j]
      <4>1. Exp!Total(Exp!RowsOf(written[t], j)) + Exp!Held(t, j) = exported[t][j]
        BY <1>1, <1>4, <3>1 DEF Exp!Counted
      <4>2. Exp!Total(Exp!RowsOf(written[t], j)) \in Nat /\ Exp!Held(t, j) \in Nat
        BY TotalOfRows, CountsAsTheyAre DEF Exp!Held
      <4>3. CASE j = k
        BY <1>2, <1>3, <2>4, <4>1, <4>2, <4>3
      <4>4. CASE j # k
        BY <1>3, <2>4, <4>1, <4>4
      <4> QED
        BY <4>3, <4>4
    <3>3. ~tx[t].split => written[t] = {}
      BY <1>1, <1>4, <3>1 DEF Exp!Counted
    <3>4. v.hook
      BY <2>2, <2>6, <3>1
    <3> QED
      BY <1>5, <2>2, <2>5, <3>2, <3>3, <3>4 DEF Exp!Counted, Exp!Held
  <2>8. /\ written' = [written EXCEPT ![t] = written[t]] /\ Exp!IsFiniteSet(written[t])
        /\ \A r \in written[t] : r.tx = t /\ r.count \in Nat
        /\ lost' = [lost EXCEPT ![t] = lost[t]]
        /\ \A r \in log' : r \in log \/ (r.tx = t /\ v.pc = "done")
    BY <1>1, <2>1, CountsAsTheyAre
  <2> QED
    BY <1>1, <1>3, <2>1, <2>2, <2>3, <2>7, <2>8, OneCounts
<1>7. CASE Exp!ExportUnrecorded(t, k, n)
  <2> DEFINE v == [tx[t] EXCEPT !.chunks = tx[t].chunks + 1]
  <2>1. /\ tx' = [tx EXCEPT ![t] = v] /\ pending' = pending
        /\ lost' = [lost EXCEPT ![t] = lost[t] \cup {k}]
    BY <1>2, <1>7 DEF Exp!ExportUnrecorded, Exp!CInv, Exp!IInv, Exp!OpenTyped, Exp!Transactions,
       Exp!CountsTyped
  <2>2. /\ v \in Exp!Transactions /\ v.pc = "open" /\ v.again = tx[t].again
        /\ v.split = tx[t].split /\ v.hook = tx[t].hook
    <3>1. tx[t].chunks + 1 \in Int
      BY <1>2 DEF Exp!Transactions
    <3> QED
      BY <1>1, <1>2, <3>1 DEF Exp!Transactions
  <2>3. tx'[t] = v /\ pending'[t] = pending[t] /\ lost'[t] = lost[t] \cup {k}
    BY <2>1 DEF Exp!CInv, Exp!IInv, Exp!OpenTyped, Exp!CountsTyped
  <2> HIDE DEF v
  <2>4. Exp!Counted(t)'
    BY <1>1, <1>3, <1>4, <1>5, <2>2, <2>3 DEF Exp!Counted, Exp!Held
  <2>5. /\ pending' = [pending EXCEPT ![t] = pending[t]] /\ \A j \in DOMAIN pending[t] : pending[t][j] \in Nat
        /\ written' = [written EXCEPT ![t] = written[t]] /\ Exp!IsFiniteSet(written[t])
        /\ \A r \in written[t] : r.tx = t /\ r.count \in Nat
    BY <1>1, <2>1, CountsAsTheyAre
  <2>6. tx[t].pc # "done" /\ log' = log
    BY <1>1
  <2> QED
    BY <1>1, <1>3, <2>1, <2>2, <2>4, <2>5, <2>6, OneCounts
<1> QED
  BY <1>6, <1>7

\* What the cursor held goes to rows, one for each key, less those that failed.
LEMMA FlushCounted ==
  ASSUME Exp!Proper, Exp!CInv, NEW t \in Exports.Txs, Exp!FlushEarly(t) \/ Exp!Precommit(t)
  PROVE  Exp!CountsTyped' /\ \A u \in Exports.Txs : Exp!Counted(u)'
<1> DEFINE tx == s1  pending == s2  written == s3  exported == s4  lost == s5  log == s6
           Txs == Exports.Txs  Keys == Exports.Keys
<1>1. PICK failed \in SUBSET (DOMAIN pending[t]) :
        Exp!Flushed(t, failed) /\ lost' = [lost EXCEPT ![t] = lost[t] \cup failed]
  BY DEF Exp!FlushEarly, Exp!Precommit
<1>2. /\ tx[t].pc = "open" /\ UNCHANGED <<log, exported>>
      /\ pending' = [pending EXCEPT ![t] = Exp!Nothing]
  BY DEF Exp!FlushEarly, Exp!Precommit
<1>3. PICK w :
        /\ written' = [written EXCEPT ![t] = w]
        /\ Exp!IsFiniteSet(w) /\ \A r \in w : r.tx = t /\ r.count \in Nat
        /\ \A k \in DOMAIN pending[t] \ failed : \E r :
             r \notin written[t] /\ r.count = pending[t][k]
               /\ Exp!RowsOf(w, k) = Exp!RowsOf(written[t], k) \cup {r}
        /\ \A k \in Keys \ DOMAIN pending[t] : Exp!RowsOf(w, k) = Exp!RowsOf(written[t], k)
  <2>1. Exp!Flushed(t, failed)
    BY <1>1
  <2> QED
    BY <2>1, ExportsWritten
<1>4. PICK v \in Exp!Transactions :
        /\ tx' = [tx EXCEPT ![t] = v] /\ v.again = tx[t].again
        /\ v.pc \in {"open", "closing"} /\ (v.pc = "open" => v.split)
        /\ (v.pc = "closing" => v.split = tx[t].split)
  <2>1. tx[t] \in Exp!Transactions /\ tx \in [Txs -> Exp!Transactions]
    BY CountsAsTheyAre DEF Exp!CInv, Exp!IInv, Exp!OpenTyped
  <2>2. CASE Exp!FlushEarly(t)
    <3> DEFINE v == [tx[t] EXCEPT !.hook = FALSE, !.split = TRUE]
    <3>1. tx' = [tx EXCEPT ![t].hook = FALSE, ![t].split = TRUE]
      BY <2>2 DEF Exp!FlushEarly
    <3>2. v \in Exp!Transactions /\ v.pc = "open" /\ v.again = tx[t].again /\ v.split
      BY <1>2, <2>1 DEF Exp!Transactions
    <3>3. tx' = [tx EXCEPT ![t] = v]
      BY <2>1, <3>1 DEF Exp!Transactions
    <3> QED
      BY <3>2, <3>3
  <2>3. CASE Exp!Precommit(t)
    <3> DEFINE v == [tx[t] EXCEPT !.hook = FALSE, !.pc = "closing"]
    <3>1. tx' = [tx EXCEPT ![t].hook = FALSE, ![t].pc = "closing"]
      BY <2>3 DEF Exp!Precommit
    <3>2. v \in Exp!Transactions /\ v.pc = "closing" /\ v.again = tx[t].again /\ v.split = tx[t].split
      BY <2>1 DEF Exp!Transactions
    <3>3. tx' = [tx EXCEPT ![t] = v]
      BY <2>1, <3>1 DEF Exp!Transactions
    <3> QED
      BY <3>2, <3>3
  <2> QED
    BY <2>2, <2>3
<1>5. /\ written'[t] = w /\ pending'[t] = Exp!Nothing /\ tx'[t] = v /\ exported'[t] = exported[t]
      /\ lost'[t] = lost[t] \cup failed
  BY <1>1, <1>2, <1>3, <1>4 DEF Exp!CInv, Exp!IInv, Exp!OpenTyped, Exp!CountsTyped
<1>6. Exp!Counted(t)'
  <2>1. SUFFICES ASSUME ~tx[t].again PROVE Exp!Counted(t)'
    BY <1>4, <1>5 DEF Exp!Counted
  <2>2. /\ \A k \in Keys \ lost[t] : Exp!Total(Exp!RowsOf(written[t], k)) + Exp!Held(t, k) = exported[t][k]
        /\ ~tx[t].split => written[t] = {}
    BY <1>2, <2>1, CountsAsTheyAre DEF Exp!Counted
  <2>3. ASSUME NEW k \in Keys \ (lost[t] \cup failed)
        PROVE  Exp!Total(Exp!RowsOf(w, k)) = exported[t][k]
    <3>1. Exp!Total(Exp!RowsOf(written[t], k)) + Exp!Held(t, k) = exported[t][k]
      BY <2>2
    <3>2. Exp!Total(Exp!RowsOf(written[t], k)) \in Nat
      BY TotalOfRows
    <3>3. CASE k \in DOMAIN pending[t]
      <4>1. PICK r : r \notin written[t] /\ r.count = pending[t][k]
                       /\ Exp!RowsOf(w, k) = Exp!RowsOf(written[t], k) \cup {r}
        BY <1>3, <3>3
      <4>2. r \notin Exp!RowsOf(written[t], k) /\ r.count \in Nat
        BY <3>3, <4>1, CountsAsTheyAre DEF Exp!RowsOf
      <4>3. Exp!Total(Exp!RowsOf(w, k)) = Exp!Total(Exp!RowsOf(written[t], k)) + r.count
        BY <4>1, <4>2, TotalOfRows, TotalOfMore, ExportsCounted
      <4>4. Exp!Held(t, k) = r.count
        BY <3>3, <4>1 DEF Exp!Held
      <4> QED
        BY <3>1, <4>3, <4>4
    <3>4. CASE k \notin DOMAIN pending[t]
      <4>1. Exp!Held(t, k) = 0 /\ Exp!RowsOf(w, k) = Exp!RowsOf(written[t], k)
        BY <1>3, <3>4 DEF Exp!Held
      <4> QED
        BY <3>1, <3>2, <4>1
    <3> QED
      BY <3>3, <3>4
  <2>4. ASSUME NEW k \in Keys \ (lost[t] \cup failed), ~tx[t].split, exported[t][k] > 0
        PROVE  Exp!Cardinality(Exp!RowsOf(w, k)) = 1
    <3>1. Exp!RowsOf(written[t], k) = {}
      BY <2>2, <2>4 DEF Exp!RowsOf
    <3>2. Exp!Held(t, k) = exported[t][k]
      <4>1. Exp!Total(Exp!RowsOf(written[t], k)) + Exp!Held(t, k) = exported[t][k]
        BY <2>2
      <4>2. Exp!Held(t, k) \in Nat
        BY CountsAsTheyAre DEF Exp!Held
      <4> QED
        BY <3>1, <4>1, <4>2, TotalOfNone
    <3>3. k \in DOMAIN pending[t]
      BY <2>4, <3>2 DEF Exp!Held
    <3>4. PICK r : Exp!RowsOf(w, k) = Exp!RowsOf(written[t], k) \cup {r}
      BY <1>3, <3>3
    <3>5. Exp!RowsOf(w, k) = {r}
      BY <3>1, <3>4
    <3> QED
      BY <3>5, FS_Singleton, ExportsCounted
  <2>5. ASSUME NEW k \in Keys \ (lost[t] \cup failed)
        PROVE  Exp!Total(Exp!RowsOf(w, k)) + (IF k \in DOMAIN Exp!Nothing THEN Exp!Nothing[k] ELSE 0) = exported[t][k]
    <3>1. k \notin DOMAIN Exp!Nothing /\ Exp!Total(Exp!RowsOf(w, k)) = exported[t][k] /\ exported[t][k] \in Nat
      BY <2>3, CountsAsTheyAre DEF Exp!Nothing
    <3> QED
      BY <3>1
  <2> QED
    BY <1>4, <1>5, <2>4, <2>5 DEF Exp!Counted, Exp!Held
<1>7. DOMAIN Exp!Nothing = {} /\ exported[t] \in [Keys -> Nat]
  BY CountsAsTheyAre DEF Exp!Nothing
<1>8. exported' = [exported EXCEPT ![t] = exported[t]]
  BY <1>2, CountsAsTheyAre
<1> QED
  BY <1>1, <1>2, <1>3, <1>4, <1>6, <1>7, <1>8, OneCounts

LEMMA RepeatedOnce ==
  ASSUME NEW w \in Exp!Transactions, NEW start,
         NEW v, v = [w EXCEPT !.pc = "open", !.start = start, !.again = TRUE]
  PROVE  v.again
BY DEF Exp!Transactions

\* A transaction begins, ends or is repeated.
LEMMA EndCounted ==
  ASSUME Exp!Proper, Exp!CInv, NEW t \in Exports.Txs,
         Exp!Begin(t) \/ Exp!Commit(t) \/ Exp!Again(t) \/ Exp!Fail(t)
  PROVE  Exp!CountsTyped' /\ \A u \in Exports.Txs : Exp!Counted(u)'
<1> DEFINE tx == s1  pending == s2  written == s3  exported == s4  lost == s5  log == s6
           now == s9  Txs == Exports.Txs  Keys == Exports.Keys
<1>1. tx[t].pc # "done"
  BY DEF Exp!Begin, Exp!Commit, Exp!Again, Exp!Fail
<1>2. tx[t] \in Exp!Transactions /\ tx \in [Txs -> Exp!Transactions] /\ now \in Nat
  BY CountsAsTheyAre DEF Exp!CInv, Exp!IInv, Exp!OpenTyped
<1>3. Exp!NoExports \in [Keys -> Nat] /\ Exp!IsFiniteSet({}) /\ DOMAIN Exp!Nothing = {}
  BY FS_EmptySet, ExportsCounted DEF Exp!NoExports, Exp!Nothing
<1>4. Exp!NoTx \in Exp!Transactions
  BY DEF Exp!NoTx, Exp!Transactions
<1>5. CASE Exp!Begin(t)
  <2> DEFINE v == [tx[t] EXCEPT !.pc = "open", !.start = now]
  <2>1. /\ tx' = [tx EXCEPT ![t].pc = "open", ![t].start = now] /\ tx[t].pc = "new"
        /\ UNCHANGED <<pending, written, exported, lost, log>>
    BY <1>5 DEF Exp!Begin
  <2>2. /\ v \in Exp!Transactions /\ v.pc = "open" /\ v.again = tx[t].again
        /\ v.split = tx[t].split /\ v.hook = tx[t].hook
    BY <1>2 DEF Exp!Transactions
  <2>3. tx' = [tx EXCEPT ![t] = v]
    BY <1>2, <2>1 DEF Exp!Transactions
  <2>4. tx'[t] = v
    BY <1>2, <2>3
  <2> HIDE DEF v
  <2>5. Exp!Counted(t)'
    BY <2>1, <2>2, <2>4, CountsAsTheyAre DEF Exp!Counted, Exp!Held
  <2>6. /\ pending' = [pending EXCEPT ![t] = pending[t]] /\ log' = log
        /\ written' = [written EXCEPT ![t] = written[t]]
        /\ exported' = [exported EXCEPT ![t] = exported[t]]
        /\ lost' = [lost EXCEPT ![t] = lost[t]]
    BY <2>1, CountsAsTheyAre
  <2> QED
    BY <1>1, <2>2, <2>3, <2>5, <2>6, CountsAsTheyAre, OneCounts
<1>6. CASE Exp!Commit(t) \/ Exp!Fail(t)
  <2>1. PICK pc \in {"done", "failed"} :
          /\ tx' = [tx EXCEPT ![t] = [Exp!NoTx EXCEPT !.pc = pc]]
          /\ \A r \in log' : r \in log \/ (r \in written[t] /\ pc = "done")
    BY <1>6 DEF Exp!Commit, Exp!Fail
  <2>2. PICK v \in Exp!Transactions : v = [Exp!NoTx EXCEPT !.pc = pc] /\ v.pc = pc
    BY <1>4, <2>1, TxEnded
  <2>3. tx' = [tx EXCEPT ![t] = v] /\ tx'[t] = v
    BY <1>2, <2>1, <2>2
  <2>4. \A r \in log' : r \in log \/ (r.tx = t /\ v.pc = "done")
    BY <2>1, <2>2, CountsAsTheyAre
  <2>5. Exp!Counted(t)'
    BY <2>2, <2>3 DEF Exp!Counted
  <2>6. /\ pending' = [pending EXCEPT ![t] = Exp!Nothing] /\ written' = [written EXCEPT ![t] = {}]
        /\ exported' = [exported EXCEPT ![t] = Exp!NoExports] /\ lost' = [lost EXCEPT ![t] = {}]
    BY <1>6 DEF Exp!Commit, Exp!Fail, Exp!Closed
  <2> QED
    BY <1>1, <1>3, <2>3, <2>4, <2>5, <2>6, OneCounts
<1>7. CASE Exp!Again(t)
  <2>1. /\ tx' = [tx EXCEPT ![t] = [Exp!NoTx EXCEPT !.pc = "open", !.start = now, !.again = TRUE]]
        /\ UNCHANGED <<pending, log>> /\ written' = [written EXCEPT ![t] = {}]
        /\ exported' = [exported EXCEPT ![t] = Exp!NoExports] /\ lost' = [lost EXCEPT ![t] = {}]
    BY <1>7 DEF Exp!Again
  <2> DEFINE v == [Exp!NoTx EXCEPT !.pc = "open", !.start = now, !.again = TRUE]
  <2>2. v \in Exp!Transactions /\ v.again /\ v.pc = "open"
    <3>3. now \in Nat
      BY <1>2
    <3>1. v \in Exp!Transactions /\ v.pc = "open" /\ v.start = now
      BY <1>4, <3>3, TxRepeated
    <3>2. v.again
      BY <1>4, RepeatedOnce
    <3> QED
      BY <3>1, <3>2
  <2>3. tx' = [tx EXCEPT ![t] = v] /\ tx'[t] = v
    BY <1>2, <2>1
  <2> HIDE DEF v
  <2>4. Exp!Counted(t)'
    BY <2>2, <2>3 DEF Exp!Counted
  <2>5. /\ pending' = [pending EXCEPT ![t] = pending[t]]
        /\ \A k \in DOMAIN pending[t] : pending[t][k] \in Nat
        /\ \A r \in log' : r \in log \/ (r.tx = t /\ v.pc = "done")
    BY <2>1, CountsAsTheyAre
  <2>6. /\ written' = [written EXCEPT ![t] = {}]
        /\ exported' = [exported EXCEPT ![t] = Exp!NoExports] /\ lost' = [lost EXCEPT ![t] = {}]
    BY <2>1
  <2> QED
    BY <1>1, <1>3, <2>2, <2>3, <2>4, <2>5, <2>6, OneCounts
<1> QED
  BY <1>5, <1>6, <1>7

LEMMA CountsStep == ASSUME Exp!Proper, Exp!CInv, [Exp!Next]_(Exp!vars) PROVE Exp!CInv'
<1> DEFINE tx == s1  pending == s2  written == s3  exported == s4  lost == s5  log == s6
           Txs == Exports.Txs  Keys == Exports.Keys  Sizes == Exports.Sizes
           Settings == Exports.Settings
<1>1. Exp!IInv'
  BY LogStep DEF Exp!CInv
<1>2. Exp!CountsTyped' /\ \A u \in Txs : Exp!Counted(u)'
  <2>1. ASSUME NEW t \in Txs, NEW k \in Keys, NEW n \in Sizes,
               Exp!Export(t, k, n) \/ Exp!ExportUnrecorded(t, k, n)
        PROVE  Exp!CountsTyped' /\ \A u \in Txs : Exp!Counted(u)'
    BY <2>1, ExportCounted
  <2>2. ASSUME NEW t \in Txs, Exp!FlushEarly(t) \/ Exp!Precommit(t)
        PROVE  Exp!CountsTyped' /\ \A u \in Txs : Exp!Counted(u)'
    BY <2>2, FlushCounted
  <2>3. ASSUME NEW t \in Txs, Exp!Begin(t) \/ Exp!Commit(t) \/ Exp!Again(t) \/ Exp!Fail(t)
        PROVE  Exp!CountsTyped' /\ \A u \in Txs : Exp!Counted(u)'
    BY <2>3, EndCounted
  <2>4. CASE Exp!Purge \/ Exp!Tick \/ (\E value \in Settings, screen \in BOOLEAN : Exp!Configure(value, screen))
             \/ (\E r \in log : Exp!Delete(r)) \/ UNCHANGED Exp!vars
    <3>1. UNCHANGED <<tx, pending, written, exported, lost>> /\ log' \subseteq log
      BY <2>4 DEF Exp!Purge, Exp!Tick, Exp!Configure, Exp!Delete, Exp!vars
    <3> QED
      BY <3>1, NoneCounts
  <2> QED
    BY <2>1, <2>2, <2>3, <2>4 DEF Exp!Next
<1> QED
  BY <1>1, <1>2 DEF Exp!CInv

\* Only a commit ends a transaction well.
LEMMA OnlyCommitEnds ==
  ASSUME Exp!CInv, [Exp!Next]_(Exp!vars), NEW t \in Exports.Txs, s1'[t].pc = "done",
         s1[t].pc # "done"
  PROVE  Exp!Commit(t)
<1> DEFINE tx == s1  log == s6  Txs == Exports.Txs  Keys == Exports.Keys  Sizes == Exports.Sizes
           Settings == Exports.Settings
<1>1. tx \in [Txs -> Exp!Transactions] /\ tx[t] \in Exp!Transactions
  BY DEF Exp!CInv, Exp!IInv, Exp!OpenTyped
<1>2. ASSUME NEW u \in Txs, NEW k \in Keys, NEW n \in Sizes,
             Exp!Export(u, k, n) \/ Exp!ExportUnrecorded(u, k, n)
      PROVE  tx'[t].pc = tx[t].pc
  BY <1>1, <1>2 DEF Exp!Export, Exp!ExportUnrecorded, Exp!Transactions
<1>3. ASSUME NEW u \in Txs,
             Exp!FlushEarly(u) \/ Exp!Precommit(u) \/ Exp!Begin(u) \/ Exp!Again(u) \/ Exp!Fail(u)
      PROVE  tx'[t].pc # "done"
  <2>1. CASE Exp!FlushEarly(u)
    BY <1>1, <2>1 DEF Exp!FlushEarly, Exp!Transactions
  <2>2. CASE Exp!Precommit(u)
    BY <1>1, <2>2 DEF Exp!Precommit, Exp!Transactions
  <2>3. CASE Exp!Begin(u)
    BY <1>1, <2>3 DEF Exp!Begin, Exp!Transactions
  <2>4. CASE Exp!Again(u)
    BY <1>1, <2>4 DEF Exp!Again, Exp!Transactions, Exp!NoTx
  <2>5. CASE Exp!Fail(u)
    BY <1>1, <2>5 DEF Exp!Fail, Exp!Transactions, Exp!NoTx
  <2> QED
    BY <1>3, <2>1, <2>2, <2>3, <2>4, <2>5
<1>4. ASSUME NEW u \in Txs, Exp!Commit(u) PROVE u = t
  BY <1>1, <1>4 DEF Exp!Commit
<1>5. CASE Exp!Purge \/ Exp!Tick \/ (\E value \in Settings, screen \in BOOLEAN : Exp!Configure(value, screen))
           \/ (\E r \in log : Exp!Delete(r)) \/ UNCHANGED Exp!vars
  BY <1>5 DEF Exp!Purge, Exp!Tick, Exp!Configure, Exp!Delete, Exp!vars
<1> QED
  BY <1>2, <1>3, <1>4, <1>5 DEF Exp!Next

\* The rows a commit adds to the log are those of its transaction.
LEMMA ExportsAreTold == ASSUME Exp!Proper, Exp!CInv, [Exp!Next]_(Exp!vars) PROVE Exp!ExportsTold
<1> DEFINE tx == s1  pending == s2  written == s3  exported == s4  lost == s5  log == s6
           Txs == Exports.Txs  Keys == Exports.Keys
<1> SUFFICES ASSUME NEW t \in Txs, tx'[t].pc = "done", tx[t].pc # "done", ~tx[t].again,
                    NEW k \in Keys \ lost[t]
             PROVE  /\ Exp!Total(Exp!RowsOf(log' \ log, k)) = exported[t][k]
                    /\ ~tx[t].split /\ exported[t][k] > 0 => Exp!Cardinality(Exp!RowsOf(log' \ log, k)) = 1
  BY DEF Exp!ExportsTold
<1>1. /\ tx[t].pc = "closing" \/ (tx[t].pc = "open" /\ ~tx[t].hook)
      /\ log' = log \cup written[t]
  BY OnlyCommitEnds DEF Exp!Commit
<1>2. log' \ log = written[t]
  <2>1. \A r \in written[t] : r.tx = t
    BY CountsAsTheyAre
  <2>2. \A r \in log : tx[r.tx].pc = "done"
    BY DEF Exp!CInv, Exp!CountsTyped
  <2> QED
    BY <1>1, <2>1, <2>2
<1>3. /\ Exp!Total(Exp!RowsOf(written[t], k)) + Exp!Held(t, k) = exported[t][k]
      /\ pending[t] = Exp!Nothing
      /\ tx[t].pc # "closing" /\ ~tx[t].split => written[t] = {}
      /\ tx[t].pc = "closing" /\ ~tx[t].split /\ exported[t][k] > 0 =>
           Exp!Cardinality(Exp!RowsOf(written[t], k)) = 1
  BY <1>1, CountsAsTheyAre DEF Exp!Counted
<1>4. Exp!Total(Exp!RowsOf(written[t], k)) = exported[t][k]
  <2>1. Exp!Held(t, k) = 0
    BY <1>3 DEF Exp!Held, Exp!Nothing
  <2> QED
    BY <1>3, <2>1, TotalOfRows
<1>5. ASSUME tx[t].pc # "closing", ~tx[t].split PROVE exported[t][k] = 0
  <2>1. Exp!RowsOf(written[t], k) = {}
    BY <1>3, <1>5 DEF Exp!RowsOf
  <2> QED
    BY <1>4, <2>1, TotalOfNone
<1> QED
  BY <1>2, <1>3, <1>4, <1>5
-----------------------------------------------------------------------------
(* What the logs tell *)

Logged ==
  /\ part = "archiving" => Arc!IInv
  /\ part = "exports" => Exp!CInv

\* The log of archiving has one open entry of a record at most, and none of a record
\* that is active; and when a transaction commits, the rows of a user and a model add up
\* to what it exported (_run_rule, _audit_log_export, _audit_flush_pending).
THEOREM LogsTell == Spec => LogTells
<1>1. Init => Logged
  BY AddOnsAssumption, ArchivesBegin, CountsBegin DEF Init, Logged
<1>2. Logged /\ [Next]_vars => Logged'
  <2> SUFFICES ASSUME Logged, [Next]_vars PROVE Logged'
    OBVIOUS
  <2>1. part' = part
    BY PartStays
  <2>2. ASSUME part = "archiving" PROVE Arc!IInv'
    <3>1. [Arc!Next]_(Arc!vars)
      BY <2>2 DEF Next, vars, Arc!vars
    <3> QED
      BY <2>2, <3>1, ArchivesStep, AddOnsAssumption DEF Logged
  <2>3. ASSUME part = "exports" PROVE Exp!CInv'
    <3>1. [Exp!Next]_(Exp!vars)
      BY <2>3 DEF Next, vars, Exp!vars
    <3> QED
      BY <2>3, <3>1, CountsStep, AddOnsAssumption DEF Logged
  <2> QED
    BY <2>1, <2>2, <2>3 DEF Logged
<1>3. (Arc!IInv => Arc!LogTells)'
  <2>1. Arc!IInv => Arc!LogTells
    BY OneEntryOpen
  <2> QED
    BY <2>1, PTL
<1>4. Logged /\ [Next]_vars /\ Logged' =>
        [/\ part = "archiving" => Arc!LogTells'
         /\ part = "exports" => Exp!ExportsTold]_vars
  <2> SUFFICES ASSUME Logged, [Next]_vars, Logged'
               PROVE  /\ part = "archiving" => Arc!LogTells'
                      /\ part = "exports" => Exp!ExportsTold
    OBVIOUS
  <2>1. part' = part
    BY PartStays
  <2>2. ASSUME part = "archiving" PROVE Arc!LogTells'
    BY <1>3, <2>1, <2>2 DEF Logged
  <2>3. ASSUME part = "exports" PROVE Exp!ExportsTold
    <3>1. [Exp!Next]_(Exp!vars)
      BY <2>3 DEF Next, vars, Exp!vars
    <3> QED
      BY <2>3, <3>1, ExportsAreTold, AddOnsAssumption DEF Logged
  <2> QED
    BY <2>2, <2>3
<1> QED
  BY <1>1, <1>2, <1>4, PTL DEF Spec, LogTells
-----------------------------------------------------------------------------
(* Counts of the parts of a set *)

\* The sizes of the parts of a finite set.
LEMMA PartsCount ==
  ASSUME NEW S, IsFiniteSet(S), NEW T
  PROVE  /\ IsFiniteSet(S \cap T) /\ IsFiniteSet(S \ T)
         /\ Cardinality(S) \in Nat /\ Cardinality(S \cap T) \in Nat /\ Cardinality(S \ T) \in Nat
         /\ Cardinality(S) = Cardinality(S \cap T) + Cardinality(S \ T)
<1>1. IsFiniteSet(S \cap T) /\ IsFiniteSet(S \ T)
  BY FS_Subset
<1>2. Cardinality(S) \in Nat /\ Cardinality(S \cap T) \in Nat /\ Cardinality(S \ T) \in Nat
  BY <1>1, FS_CardinalityType
<1> DEFINE P == S \cap T  Q == S \ T
<1>3. P \cup Q = S /\ P \cap Q = {}
  OBVIOUS
<1> HIDE DEF P, Q
<1>4. Cardinality(P \cup Q) = Cardinality(P) + Cardinality(Q) - Cardinality(P \cap Q)
  BY <1>1, FS_Union DEF P, Q
<1>5. Cardinality(P \cap Q) = 0
  BY <1>3, FS_EmptySet
<1>6. Cardinality(S) = Cardinality(P) + Cardinality(Q)
  <2>1. Cardinality(P) \in Nat /\ Cardinality(Q) \in Nat
    BY <1>2 DEF P, Q
  <2> QED
    BY <1>3, <1>4, <1>5, <2>1
<1> QED
  BY <1>1, <1>2, <1>6 DEF P, Q

-----------------------------------------------------------------------------
(* Finite sets in an order *)

\* A finite set of numbers has a greatest one.
LEMMA GreatestIsThere ==
  ASSUME NEW S \in SUBSET Nat, IsFiniteSet(S), S # {}
  PROVE  \E x \in S : \A y \in S : y <= x
<1> DEFINE bad == {s \in SUBSET S : s # {} /\ ~ \E x \in s : \A y \in s : y <= x}
<1> SUFFICES ASSUME bad # {} PROVE FALSE
  OBVIOUS
<1>1. PICK s \in bad : \A t \in bad : Cardinality(s) <= Cardinality(t)
  <2>1. bad \in SUBSET (SUBSET S)
    OBVIOUS
  <2> HIDE DEF bad
  <2> QED
    BY <2>1, SmallestIsThere
<1>2. PICK z \in s : TRUE
  BY <1>1
<1> DEFINE t == s \ {z}
<1>3. t \in SUBSET S /\ Cardinality(t) = Cardinality(s) - 1 /\ Cardinality(s) \in Nat
  BY <1>1, <1>2, SubsetCounts
<1>4. t \notin bad
  <2> HIDE DEF t, bad
  <2>1. ~(Cardinality(s) <= Cardinality(t))
    BY <1>3
  <2> QED
    BY <1>1, <2>1
<1>5. z \in Nat /\ \A y \in s : y \in Nat
  BY <1>1, <1>2
<1>6. CASE t = {}
  <2>1. \A y \in s : y <= z
    BY <1>5, <1>6
  <2> QED
    BY <1>1, <1>2, <2>1
<1>7. CASE t # {}
  <2>1. PICK x \in t : \A y \in t : y <= x
    BY <1>3, <1>4, <1>7
  <2>2. CASE z <= x
    BY <1>1, <1>5, <2>1, <2>2
  <2>3. CASE ~(z <= x)
    BY <1>1, <1>2, <1>5, <2>1, <2>3
  <2> QED
    BY <2>2, <2>3
<1> QED
  BY <1>6, <1>7

\* R orders S, one after the other
Orders(R, S) ==
  /\ \A a \in S : <<a, a>> \notin R
  /\ \A a \in S, b \in S, c \in S : <<a, b>> \in R /\ <<b, c>> \in R => <<a, c>> \in R
  /\ \A a \in S, b \in S : a # b => <<a, b>> \in R \/ <<b, a>> \in R

\* how many come before a
Ahead(R, S, a) == Cardinality({b \in S : <<b, a>> \in R})

LEMMA MoreAreAhead ==
  ASSUME NEW S, IsFiniteSet(S), NEW R, Orders(R, S), NEW a \in S, NEW b \in S, <<a, b>> \in R
  PROVE  Ahead(R, S, a) < Ahead(R, S, b)
<1> DEFINE A == {d \in S : <<d, a>> \in R}  B == {d \in S : <<d, b>> \in R}
<1>1. A \subseteq B /\ a \in B /\ a \notin A
  BY DEF Orders
<1>2. IsFiniteSet(B) /\ A \subseteq B /\ A # B
  BY <1>1, FS_Subset
<1> HIDE DEF A, B
<1>3. Cardinality(A) < Cardinality(B)
  <2>1. Cardinality(A) <= Cardinality(B) /\ IsFiniteSet(A)
    BY <1>2, FS_Subset
  <2>2. Cardinality(A) = Cardinality(B) => A = B
    BY <1>2, FS_Subset
  <2>3. Cardinality(A) \in Nat /\ Cardinality(B) \in Nat
    BY <1>2, <2>1, FS_CardinalityType
  <2> QED
    BY <1>2, <2>1, <2>2, <2>3
<1> QED
  BY <1>3 DEF Ahead, A, B

LEMMA AheadIsBounded ==
  ASSUME NEW S, IsFiniteSet(S), NEW R, Orders(R, S), NEW a \in S
  PROVE  /\ Ahead(R, S, a) \in Nat /\ Cardinality(S) \in Nat
         /\ Ahead(R, S, a) < Cardinality(S)
<1> DEFINE A == {d \in S : <<d, a>> \in R}
<1>1. A \subseteq S \ {a}
  BY DEF Orders
<1>2. IsFiniteSet(S \ {a}) /\ Cardinality(S \ {a}) = Cardinality(S) - 1
  BY FS_RemoveElement
<1> HIDE DEF A
<1>3. Cardinality(A) <= Cardinality(S \ {a}) /\ IsFiniteSet(A)
  BY <1>1, <1>2, FS_Subset
<1>4. Cardinality(A) \in Nat /\ Cardinality(S) \in Nat
  BY <1>3, FS_CardinalityType
<1>5. Cardinality(A) < Cardinality(S)
  BY <1>2, <1>3, <1>4
<1> QED
  BY <1>4, <1>5 DEF Ahead, A

\* No two of them have as many ahead, and each number is that of one.
LEMMA AheadIsExact ==
  ASSUME NEW S, IsFiniteSet(S), NEW R, Orders(R, S)
  PROVE  /\ \A a \in S, b \in S : Ahead(R, S, a) = Ahead(R, S, b) => a = b
         /\ \A k \in 0..(Cardinality(S) - 1) : \E a \in S : Ahead(R, S, a) = k
<1> DEFINE size == Cardinality(S)
           rank == [a \in S |-> Ahead(R, S, a)]
<1>1. size \in Nat
  BY FS_CardinalityType
<1>2. \A a \in S : Ahead(R, S, a) \in Nat /\ Ahead(R, S, a) < size
  BY AheadIsBounded
<1>3. \A a \in S, b \in S : Ahead(R, S, a) = Ahead(R, S, b) => a = b
  <2> SUFFICES ASSUME NEW a \in S, NEW b \in S, a # b PROVE Ahead(R, S, a) # Ahead(R, S, b)
    OBVIOUS
  <2>1. Ahead(R, S, a) \in Nat /\ Ahead(R, S, b) \in Nat
    BY <1>2
  <2>2. <<a, b>> \in R \/ <<b, a>> \in R
    BY DEF Orders
  <2>3. CASE <<a, b>> \in R
    <3>1. Ahead(R, S, a) < Ahead(R, S, b)
      BY <2>3, MoreAreAhead
    <3> QED
      BY <2>1, <3>1
  <2>4. CASE <<b, a>> \in R
    <3>1. Ahead(R, S, b) < Ahead(R, S, a)
      BY <2>4, MoreAreAhead
    <3> QED
      BY <2>1, <3>1
  <2> QED
    BY <2>2, <2>3, <2>4
<1>4. IsFiniteSet(0..(size - 1)) /\ Cardinality(0..(size - 1)) = size
  <2>1. /\ IsFiniteSet(0..(size - 1))
        /\ Cardinality(0..(size - 1)) = IF 0 > size - 1 THEN 0 ELSE (size - 1) - 0 + 1
    <3>1. 0 \in Int /\ size - 1 \in Int
      BY <1>1
    <3> HIDE DEF size
    <3> QED
      BY <3>1, FS_Interval
  <2> HIDE DEF size
  <2> QED
    BY <1>1, <2>1
<1>5. rank \in Surjection(S, 0..(size - 1))
  <2>1. \A a \in S : Ahead(R, S, a) \in 0..(size - 1)
    <3> HIDE DEF size
    <3> QED
      BY <1>1, <1>2
  <2>2. rank \in Injection(S, 0..(size - 1))
    BY <1>3, <2>1 DEF Injection, IsInjective
  <2> HIDE DEF rank
  <2> QED
    BY <1>4, <2>2, FS_Injection
<1>6. \A k \in 0..(size - 1) : \E a \in S : Ahead(R, S, a) = k
  BY <1>5 DEF Surjection
<1> QED
  BY <1>3, <1>6

\* So many that come first are as many.
LEMMA FirstAreAsMany ==
  ASSUME NEW S, IsFiniteSet(S), NEW R, Orders(R, S), NEW n \in Nat, n <= Cardinality(S)
  PROVE  Cardinality({a \in S : Ahead(R, S, a) < n}) = n
<1> DEFINE size == Cardinality(S)
           first == {a \in S : Ahead(R, S, a) < n}
           f == [a \in first |-> Ahead(R, S, a)]
<1>1. size \in Nat
  BY FS_CardinalityType
<1>2. \A a \in S : Ahead(R, S, a) \in Nat /\ Ahead(R, S, a) < size
  BY AheadIsBounded
<1>3. \A a \in S, b \in S : Ahead(R, S, a) = Ahead(R, S, b) => a = b
  BY AheadIsExact
<1>6. IsFiniteSet(0..(n - 1)) /\ Cardinality(0..(n - 1)) = n
  <2>1. /\ IsFiniteSet(0..(n - 1))
        /\ Cardinality(0..(n - 1)) = IF 0 > n - 1 THEN 0 ELSE (n - 1) - 0 + 1
    <3>1. 0 \in Int /\ n - 1 \in Int
      OBVIOUS
    <3> QED
      BY <3>1, FS_Interval
  <2> QED
    BY <2>1
<1>7. f \in Injection(first, 0..(n - 1))
  <2>1. \A a \in first : Ahead(R, S, a) \in 0..(n - 1)
    BY <1>2
  <2> QED
    BY <1>3, <2>1 DEF Injection, IsInjective
<1>8. f \in Surjection(first, 0..(n - 1))
  <2>1. ASSUME NEW k \in 0..(n - 1) PROVE \E a \in first : f[a] = k
    <3>1. k \in 0..(size - 1) /\ k < n
      <4> HIDE DEF size
      <4> QED
        BY <1>1 DEF size
    <3>2. PICK a \in S : Ahead(R, S, a) = k
      BY <3>1, AheadIsExact
    <3> QED
      BY <3>1, <3>2
  <2>2. f \in [first -> 0..(n - 1)]
    BY <1>7 DEF Injection, IsInjective
  <2> QED
    BY <2>1, <2>2 DEF Surjection
<1> HIDE DEF f, first
<1>9. Cardinality(first) = Cardinality(0..(n - 1))
  BY <1>6, <1>7, <1>8, FS_Injection
<1> QED
  BY <1>6, <1>9 DEF first
-----------------------------------------------------------------------------
(* The numbers of a scan for broken links                                  *)

LEMMA LinksCounted ==
  /\ \A S : Lnk!Cardinality(S) = Cardinality(S)
  /\ \A S : Lnk!IsFiniteSet(S) <=> IsFiniteSet(S)
<1>1. \A S : Lnk!Cardinality(S) = Cardinality(S)
  BY DEF Lnk!Cardinality, Lnk!IsFiniteSet, Cardinality, IsFiniteSet
<1>2. \A S : Lnk!IsFiniteSet(S) <=> IsFiniteSet(S)
  BY DEF Lnk!IsFiniteSet, IsFiniteSet
<1> QED
  BY <1>1, <1>2

\* A scan that begins has looked at no row.
LEMMA FreshAddsUp ==
  ASSUME Lnk!Proper, NEW c, NEW table, DOMAIN table \subseteq Links.Attachments, NEW stop, NEW deep,
         c = Lnk!Fresh(table, stop, deep)
  PROVE  Lnk!CheckShape(c) /\ Lnk!CountsAddUp(c) /\ c.state = "scanning"
<1> DEFINE Attachments == Links.Attachments  Hidden == Links.Hidden
<1>1. /\ c.state = "scanning" /\ c.seen = table /\ c.last = 0 /\ c.lines = Lnk!NoRow
      /\ c.scanned = 0 /\ c.filestore = 0 /\ c.elsewhere = 0 /\ c.ok = 0 /\ c.broken = 0
      /\ DOMAIN c = {"state", "stop", "deep", "seen", "last", "cache", "lines", "scanned",
                     "filestore", "elsewhere", "ok", "broken", "early", "truncated", "hidden"}
  BY DEF Lnk!Fresh
<1>2. DOMAIN Lnk!NoRow = {}
  BY DEF Lnk!NoRow
<1>3. Lnk!CheckShape(c)
  BY <1>1, <1>2 DEF Lnk!CheckShape
<1>4. Lnk!Behind(c) = {}
  <2>1. \A a \in Attachments : a \in Nat /\ a # 0
    BY DEF Lnk!Proper
  <2>2. Lnk!Behind(c) = {a \in DOMAIN table \ Hidden : a <= 0}
    BY <1>1 DEF Lnk!Behind
  <2>3. \A a \in DOMAIN table : ~(a <= 0)
    BY <2>1
  <2> QED
    BY <2>2, <2>3
<1>5. Lnk!Cardinality(Lnk!Behind(c)) = 0 /\ Lnk!Cardinality(DOMAIN c.lines) = 0
  BY <1>1, <1>2, <1>4, FS_EmptySet, LinksCounted
<1> QED
  BY <1>1, <1>3, <1>5 DEF Lnk!CountsAddUp

\* The rows of a page are those the scan had not passed yet, and each is counted once.
LEMMA PageAddsUp ==
  ASSUME Lnk!Proper, NEW c, Lnk!CheckShape(c), Lnk!CountsAddUp(c), NEW last \in Lnk!Left(c),
         NEW page,
         page = {b \in Lnk!Left(c) : b <= last}, NEW d, d = Lnk!Examined(c, page)
  PROVE  Lnk!CheckShape(d) /\ Lnk!CountsAddUp(d) /\ d.state = c.state /\ d.early = c.early
<1> DEFINE Attachments == Links.Attachments  Hidden == Links.Hidden
<1> DEFINE filed == Lnk!Filed(c, page)  troubled == Lnk!Troubled(c, page)  listed == Lnk!Listed(c, page)
           before == DOMAIN c.lines
<1>1. filed \subseteq page /\ troubled \subseteq filed /\ listed \subseteq troubled
  BY DEF Lnk!Filed, Lnk!Troubled, Lnk!Listed, Lnk!Lowest
<1>2. page \subseteq Attachments /\ last \in page /\ last \in Nat /\ c.last \in Nat /\ c.last < last
  <2>1. page \subseteq Attachments /\ last \in Attachments /\ last > c.last /\ c.last \in Nat
    BY DEF Lnk!CheckShape, Lnk!Left
  <2> QED
    BY <2>1 DEF Lnk!Proper
<1>3. Lnk!LastId(c, page) = last
  <2>1. \A b \in page : b \in Nat /\ b <= last
    BY <1>2 DEF Lnk!Proper
  <2>2. \A b \in page : (\A a \in page : a <= b) => b = last
    BY <1>2, <2>1
  <2> QED
    BY <1>2, <2>1, <2>2 DEF Lnk!LastId
<1>4. /\ DOMAIN d = DOMAIN c /\ d.state = c.state /\ d.early = c.early /\ d.seen = c.seen
      /\ d.last = last /\ DOMAIN d.lines = before \cup listed
      /\ d.scanned = c.scanned + Lnk!Cardinality(page)
      /\ d.filestore = c.filestore + Lnk!Cardinality(filed)
      /\ d.elsewhere = c.elsewhere + Lnk!Cardinality(page \ filed)
      /\ d.ok = c.ok + Lnk!Cardinality(filed \ troubled)
      /\ d.broken = c.broken + Lnk!Cardinality(troubled)
  BY <1>3 DEF Lnk!Examined, Lnk!CheckShape
<1>5. /\ c.scanned \in Nat /\ c.filestore \in Nat /\ c.elsewhere \in Nat /\ c.ok \in Nat
      /\ c.broken \in Nat /\ DOMAIN c.seen \subseteq Attachments /\ before \subseteq Attachments
  BY DEF Lnk!CheckShape
<1>6. /\ Lnk!IsFiniteSet(page) /\ Lnk!IsFiniteSet(filed) /\ Lnk!IsFiniteSet(troubled) /\ Lnk!IsFiniteSet(listed)
      /\ Lnk!IsFiniteSet(Lnk!Behind(c)) /\ Lnk!IsFiniteSet(before)
  <2>1. Lnk!Behind(c) \subseteq Attachments
    BY <1>5 DEF Lnk!Behind
  <2> QED
    BY <1>1, <1>2, <1>5, <2>1, FS_Subset, LinksCounted DEF Lnk!Proper
<1> HIDE DEF filed, troubled, listed, before
<1>7. /\ Lnk!Cardinality(page) = Lnk!Cardinality(filed) + Lnk!Cardinality(page \ filed)
      /\ Lnk!Cardinality(page) \in Nat /\ Lnk!Cardinality(filed) \in Nat /\ Lnk!Cardinality(page \ filed) \in Nat
  <2>1. page \cap filed = filed
    BY <1>1
  <2> QED
    BY <1>6, <2>1, PartsCount, LinksCounted
<1>8. /\ Lnk!Cardinality(filed) = Lnk!Cardinality(troubled) + Lnk!Cardinality(filed \ troubled)
      /\ Lnk!Cardinality(troubled) \in Nat /\ Lnk!Cardinality(filed \ troubled) \in Nat
  <2>1. filed \cap troubled = troubled
    BY <1>1
  <2> QED
    BY <1>6, <2>1, PartsCount, LinksCounted
<1>9. Lnk!Behind(d) = Lnk!Behind(c) \cup page /\ Lnk!Behind(c) \cap page = {}
  <2>1. \A x \in DOMAIN c.seen : x \in Nat
    BY <1>5 DEF Lnk!Proper
  <2>2. page = {b \in DOMAIN c.seen \ Hidden : b > c.last /\ b <= last}
    BY DEF Lnk!Left
  <2>3. Lnk!Behind(c) = {b \in DOMAIN c.seen \ Hidden : b <= c.last}
    BY DEF Lnk!Behind
  <2>4. Lnk!Behind(d) = {b \in DOMAIN c.seen \ Hidden : b <= last}
    BY <1>4 DEF Lnk!Behind
  <2> QED
    BY <1>2, <2>1, <2>2, <2>3, <2>4
<1>10. Lnk!Cardinality(Lnk!Behind(d)) = Lnk!Cardinality(Lnk!Behind(c)) + Lnk!Cardinality(page)
  <2>1. Lnk!Cardinality(Lnk!Behind(c) \cup page)
          = Lnk!Cardinality(Lnk!Behind(c)) + Lnk!Cardinality(page) - Lnk!Cardinality(Lnk!Behind(c) \cap page)
    BY <1>6, FS_Union, LinksCounted
  <2>2. Lnk!Cardinality(Lnk!Behind(c) \cap page) = 0
    BY <1>9, FS_EmptySet, LinksCounted
  <2>3. Lnk!Cardinality(Lnk!Behind(c)) \in Nat
    BY <1>6, FS_CardinalityType, LinksCounted
  <2>4. Lnk!Cardinality(Lnk!Behind(d)) = Lnk!Cardinality(Lnk!Behind(c) \cup page)
    BY <1>9
  <2> QED
    BY <1>7, <2>1, <2>2, <2>3, <2>4
<1>11. Lnk!Cardinality(before \cup listed) <= Lnk!Cardinality(before) + Lnk!Cardinality(troubled)
  <2>1. /\ Lnk!Cardinality(before \cup listed)
             = Lnk!Cardinality(before) + Lnk!Cardinality(listed) - Lnk!Cardinality(before \cap listed)
        /\ Lnk!IsFiniteSet(before \cup listed)
    BY <1>6, FS_Union, LinksCounted
  <2>2. Lnk!IsFiniteSet(before \cap listed)
    BY <1>6, FS_Subset, LinksCounted
  <2>3. /\ Lnk!Cardinality(before \cap listed) \in Nat /\ Lnk!Cardinality(before) \in Nat
        /\ Lnk!Cardinality(listed) \in Nat
    BY <1>6, <2>2, FS_CardinalityType, LinksCounted
  <2>4. Lnk!Cardinality(listed) <= Lnk!Cardinality(troubled)
    BY <1>1, <1>6, FS_Subset, LinksCounted
  <2> QED
    BY <1>8, <2>1, <2>3, <2>4
<1>12. Lnk!Cardinality(before) \in Nat /\ Lnk!Cardinality(before \cup listed) \in Nat
  <2>1. Lnk!IsFiniteSet(before \cup listed)
    BY <1>6, FS_Union, LinksCounted
  <2> QED
    BY <1>6, <2>1, FS_CardinalityType, LinksCounted
<1>13. Lnk!CheckShape(d)
  <2>1. before \cup listed \subseteq Attachments
    BY <1>1, <1>2, <1>5
  <2>2. /\ d.scanned \in Nat /\ d.filestore \in Nat /\ d.elsewhere \in Nat /\ d.ok \in Nat
        /\ d.broken \in Nat
    BY <1>4, <1>5, <1>7, <1>8
  <2> QED
    BY <1>2, <1>4, <1>5, <2>1, <2>2 DEF Lnk!CheckShape
<1>14. Lnk!CountsAddUp(d)
  <2>1. /\ c.scanned = Lnk!Cardinality(Lnk!Behind(c)) /\ c.scanned = c.filestore + c.elsewhere
        /\ c.filestore = c.ok + c.broken /\ Lnk!Cardinality(before) <= c.broken
    BY DEF Lnk!CountsAddUp, before
  <2>2. d.scanned = Lnk!Cardinality(Lnk!Behind(d))
    BY <1>4, <1>10, <2>1
  <2>3. d.scanned = d.filestore + d.elsewhere
    BY <1>4, <1>5, <1>7, <2>1
  <2>4. d.filestore = d.ok + d.broken
    BY <1>4, <1>5, <1>8, <2>1
  <2>5. Lnk!Cardinality(DOMAIN d.lines) <= d.broken
    <3>1. Lnk!Cardinality(DOMAIN d.lines) = Lnk!Cardinality(before \cup listed)
      BY <1>4
    <3>2. d.broken = c.broken + Lnk!Cardinality(troubled) /\ Lnk!Cardinality(before) <= c.broken
      BY <1>4, <2>1
    <3> HIDE DEF before
    <3> QED
      BY ONLY <1>5, <1>8, <1>11, <1>12, <3>1, <3>2
  <2> QED
    BY <2>2, <2>3, <2>4, <2>5 DEF Lnk!CountsAddUp
<1> QED
  BY <1>4, <1>13, <1>14

LEMMA ScanBegins == ASSUME Lnk!Init PROVE Lnk!IInv
BY LinksBegin DEF Lnk!Init, Lnk!IInv, Lnk!CountsHold, Lnk!NoReport, Lnk!NumbersAddUp

LEMMA ScanStep == ASSUME Lnk!Proper, Lnk!IInv, [Lnk!Next]_(Lnk!vars) PROVE Lnk!IInv'
<1> DEFINE att == s1  check == s3  delete == s4  Attachments == Links.Attachments  Files == Links.Files
           Stops == Links.Stops
<1> SUFFICES Lnk!CountsHold'
  BY LinksStep DEF Lnk!IInv
<1>1. ASSUME NEW table, DOMAIN table \subseteq Attachments, NEW stop, NEW deep,
             check' = Lnk!Fresh(table, stop, deep)
      PROVE  Lnk!CountsHold'
  <2> PICK c : c = check'
    OBVIOUS
  <2>1. Lnk!CheckShape(c) /\ Lnk!CountsAddUp(c) /\ c.state = "scanning"
    BY <1>1, FreshAddsUp
  <2>2. Lnk!NumbersAddUp'
    BY <2>1 DEF Lnk!NumbersAddUp, Lnk!CountsAddUp, Lnk!Behind
  <2> QED
    BY <2>1, <2>2 DEF Lnk!CountsHold, Lnk!CheckShape, Lnk!CountsAddUp, Lnk!Behind
<1>2. CASE Lnk!Run
  <2>1. PICK stop \in Stops, deep \in BOOLEAN : check' = Lnk!Fresh(att, stop, deep)
    BY <1>2 DEF Lnk!Run
  <2>2. DOMAIN att \subseteq Attachments
    BY DEF Lnk!IInv, Lnk!RowsHold
  <2> QED
    BY <1>1, <2>1, <2>2
<1>3. CASE Lnk!DeleteCommit
  <2> PICK table, stop, deep : /\ table = Lnk!Kept(delete.seen, Lnk!Unlinked)
                               /\ stop = check.stop /\ deep = check.deep
    OBVIOUS
  <2>1. check' = Lnk!Fresh(table, stop, deep) /\ delete.pc = "looking"
    BY <1>3 DEF Lnk!DeleteCommit
  <2>2. DOMAIN table \subseteq Attachments
    BY <2>1 DEF Lnk!Kept, Lnk!IInv, Lnk!RowsHold, Lnk!DeleteHolds
  <2> QED
    BY <1>1, <2>1, <2>2
<1>4. CASE Lnk!ScanPage
  <2> PICK c, d : c = check /\ d = check'
    OBVIOUS
  <2>1. PICK last \in Lnk!Left(c) : d = Lnk!Examined(c, {b \in Lnk!Left(c) : b <= last})
    BY <1>4 DEF Lnk!ScanPage
  <2>2. Lnk!CheckShape(c) /\ Lnk!CountsAddUp(c) /\ c.state = "scanning"
    BY <1>4 DEF Lnk!ScanPage, Lnk!IInv, Lnk!CountsHold
  <2>3. Lnk!CheckShape(d) /\ Lnk!CountsAddUp(d) /\ d.state = c.state /\ d.early = c.early
    BY <2>1, <2>2, PageAddsUp
  <2>4. Lnk!NumbersAddUp'
    BY <2>2, <2>3 DEF Lnk!NumbersAddUp, Lnk!CountsAddUp, Lnk!Behind
  <2> QED
    BY <2>2, <2>3, <2>4 DEF Lnk!CountsHold, Lnk!CheckShape, Lnk!CountsAddUp, Lnk!Behind
<1>5. CASE Lnk!ScanEnds
  <2> PICK c, d : c = check /\ d = check'
    OBVIOUS
  <2>1. PICK early, truncated, hidden :
          /\ d = [c EXCEPT !.state = "done", !.cache = Lnk!NoRow, !.early = early,
                    !.truncated = truncated, !.hidden = hidden]
          /\ ~early => hidden = Lnk!Cardinality(DOMAIN c.seen) - c.scanned
    BY <1>5 DEF Lnk!ScanEnds
  <2>2. Lnk!CheckShape(c) /\ Lnk!CountsAddUp(c)
    BY <1>5 DEF Lnk!ScanEnds, Lnk!IInv, Lnk!CountsHold
  <2>3. /\ DOMAIN d = DOMAIN c /\ d.state = "done" /\ d.early = early /\ d.hidden = hidden
        /\ d.seen = c.seen /\ d.last = c.last /\ d.lines = c.lines /\ d.scanned = c.scanned
        /\ d.filestore = c.filestore /\ d.elsewhere = c.elsewhere /\ d.ok = c.ok
        /\ d.broken = c.broken
    BY <2>1, <2>2 DEF Lnk!CheckShape
  <2>4. Lnk!CheckShape(d)
    BY <2>2, <2>3 DEF Lnk!CheckShape
  <2>5. Lnk!Behind(d) = Lnk!Behind(c)
    BY <2>3 DEF Lnk!Behind
  <2>6. Lnk!CountsAddUp(d)
    BY <2>2, <2>3, <2>5 DEF Lnk!CountsAddUp
  <2>7. ~early => c.scanned + hidden = Lnk!Cardinality(DOMAIN c.seen)
    <3>1. Lnk!IsFiniteSet(DOMAIN c.seen) /\ c.scanned \in Nat
      BY <2>2, FS_Subset, LinksCounted DEF Lnk!CheckShape, Lnk!Proper
    <3>2. Lnk!Cardinality(DOMAIN c.seen) \in Nat
      BY <3>1, FS_CardinalityType, LinksCounted
    <3> QED
      BY <2>1, <3>1, <3>2
  <2>8. Lnk!NumbersAddUp'
    BY <2>3, <2>6, <2>7 DEF Lnk!NumbersAddUp, Lnk!CountsAddUp, Lnk!Behind
  <2> QED
    BY <2>3, <2>4, <2>6, <2>8 DEF Lnk!CountsHold, Lnk!CheckShape, Lnk!CountsAddUp, Lnk!Behind
<1>6. ASSUME check' = check PROVE Lnk!CountsHold'
  BY <1>6 DEF Lnk!IInv, Lnk!CountsHold, Lnk!CheckShape, Lnk!CountsAddUp, Lnk!Behind,
    Lnk!NumbersAddUp
<1>7. CASE Lnk!DeleteStart \/ Lnk!DeleteFails
  BY <1>6, <1>7 DEF Lnk!DeleteStart, Lnk!DeleteFails
<1>8. ASSUME NEW a \in Attachments, Lnk!LookAgain(a) \/ Lnk!Replace(a) \/ Lnk!Delete(a)
      PROVE  Lnk!CountsHold'
  BY <1>6, <1>8 DEF Lnk!LookAgain, Lnk!Replace, Lnk!Delete, Lnk!Written
<1>9. ASSUME NEW f \in Files, Lnk!DiskChanges(f) PROVE Lnk!CountsHold'
  BY <1>6, <1>9 DEF Lnk!DiskChanges
<1>10. CASE UNCHANGED Lnk!vars
  BY <1>6, <1>10 DEF Lnk!vars
<1> QED
  BY <1>2, <1>3, <1>4, <1>5, <1>7, <1>8, <1>9, <1>10 DEF Lnk!Next
-----------------------------------------------------------------------------
(* The gaps in a series of numbers                                         *)

LEMMA NumbersCounted ==
  /\ \A S : Gap!Cardinality(S) = Cardinality(S)
  /\ \A S : Gap!IsFiniteSet(S) <=> IsFiniteSet(S)
<1>1. \A S : Gap!Cardinality(S) = Cardinality(S)
  BY DEF Gap!Cardinality, Gap!IsFiniteSet, Cardinality, IsFiniteSet
<1>2. \A S : Gap!IsFiniteSet(S) <=> IsFiniteSet(S)
  BY DEF Gap!IsFiniteSet, IsFiniteSet
<1> QED
  BY <1>1, <1>2

\* The least and the greatest of a finite set of numbers.
LEMMA Extremes ==
  ASSUME NEW S \in SUBSET Nat, Gap!IsFiniteSet(S), S # {}
  PROVE  /\ Gap!Min(S) \in S /\ \A y \in S : Gap!Min(S) <= y
         /\ Gap!Max(S) \in S /\ \A y \in S : y <= Gap!Max(S)
<1>1. PICK a \in S : \A y \in S : a <= y
  BY LeastIsThere
<1>2. PICK b \in S : \A y \in S : y <= b
  BY GreatestIsThere, NumbersCounted
<1>3. \A y \in S : b >= y
  BY <1>2
<1> QED
  BY <1>1, <1>2, <1>3 DEF Gap!Min, Gap!Max

\* The numbers of the documents that are read.
LEMMA SeriesAreFinite ==
  ASSUME Gap!Proper, Gap!IInv
  PROVE  /\ Gap!IsFiniteSet(Gap!Numbered) /\ Gap!IsFiniteSet(Gap!Series)
         /\ \A d \in Gap!Numbered : s1[d].value.prefix \in Nat /\ s1[d].value.number \in Nat
         /\ \A p : Gap!IsFiniteSet(Gap!Numbers(p)) /\ Gap!Numbers(p) \in SUBSET Nat
         /\ \A p \in Gap!Series : p \in Nat /\ Gap!Numbers(p) # {}
<1> DEFINE doc == s1  Documents == Numbering.Documents  Values == Numbering.Values
           NoNumber == Numbering.NoNumber  NoDocument == Numbering.NoDocument
<1>1. Gap!IsFiniteSet(Gap!Numbered)
  <2>1. Gap!Numbered \subseteq Documents
    BY DEF Gap!Numbered, Gap!Rows
  <2> QED
    BY <2>1, FS_Subset, NumbersCounted DEF Gap!Proper
<1>2. ASSUME NEW d \in Gap!Numbered
      PROVE  doc[d].value.prefix \in Nat /\ doc[d].value.number \in Nat
  <2>1. d \in Documents /\ doc[d] # NoDocument /\ doc[d].value # NoNumber
    BY DEF Gap!Numbered, Gap!Rows
  <2>2. doc[d] \in [value : Values \cup {NoNumber}, active : BOOLEAN]
    BY <2>1 DEF Gap!IInv, Gap!Contents
  <2>3. doc[d].value \in Values
    BY <2>1, <2>2
  <2> QED
    BY <2>3 DEF Gap!Proper
<1>3. Gap!IsFiniteSet(Gap!Series)
  <2> DEFINE f == [d \in Gap!Numbered |-> doc[d].value.prefix]
  <2>1. f \in Surjection(Gap!Numbered, Gap!Series)
    BY DEF Surjection, Gap!Series
  <2> HIDE DEF f
  <2> QED
    BY <1>1, <2>1, FS_Surjection, NumbersCounted
<1>4. ASSUME NEW p PROVE Gap!IsFiniteSet(Gap!Numbers(p)) /\ Gap!Numbers(p) \in SUBSET Nat
  <2> DEFINE E == {e \in Gap!Numbered : doc[e].value.prefix = p}
             f == [d \in E |-> doc[d].value.number]
  <2>1. f \in Surjection(E, Gap!Numbers(p))
    BY DEF Surjection, Gap!Numbers
  <2>2. Gap!IsFiniteSet(E)
    BY <1>1, FS_Subset, NumbersCounted
  <2>3. Gap!Numbers(p) \in SUBSET Nat
    BY <1>2 DEF Gap!Numbers
  <2> HIDE DEF f, E
  <2> QED
    BY <2>1, <2>2, <2>3, FS_Surjection, NumbersCounted
<1>5. ASSUME NEW p \in Gap!Series PROVE p \in Nat /\ Gap!Numbers(p) # {}
  BY <1>2 DEF Gap!Series, Gap!Numbers
<1> QED
  BY <1>1, <1>2, <1>3, <1>4, <1>5

\* A hole lies between two neighbours.
LEMMA HoleIsBetween ==
  ASSUME NEW h \in Gap!Holes
  PROVE  /\ h.prefix \in Gap!Series /\ h.lower \in Gap!Numbers(h.prefix) /\ h.upper \in Gap!Numbers(h.prefix)
         /\ h.upper - h.lower > 1 /\ h.count = h.upper - h.lower - 1
         /\ \A n \in Gap!Numbers(h.prefix) : n <= h.lower \/ n >= h.upper
         /\ h = Gap!Hole(h.prefix, h.lower, h.upper)
<1>1. PICK p \in Gap!Series :
        h \in {Gap!Hole(p, x[1], x[2]) : x \in
                 {y \in Gap!Numbers(p) \X Gap!Numbers(p) :
                    y[2] - y[1] > 1 /\ \A n \in Gap!Numbers(p) : n <= y[1] \/ n >= y[2]}}
  BY DEF Gap!Holes
<1>2. PICK x \in Gap!Numbers(p) \X Gap!Numbers(p) :
        /\ h = Gap!Hole(p, x[1], x[2])
        /\ x[2] - x[1] > 1 /\ \A n \in Gap!Numbers(p) : n <= x[1] \/ n >= x[2]
  BY <1>1
<1> DEFINE lower == x[1]  upper == x[2]
<1>3. lower \in Gap!Numbers(p) /\ upper \in Gap!Numbers(p)
  OBVIOUS
<1>4. /\ h = Gap!Hole(p, lower, upper)
      /\ upper - lower > 1 /\ \A n \in Gap!Numbers(p) : n <= lower \/ n >= upper
  BY <1>2
<1> HIDE DEF lower, upper
<1>5. h.prefix = p /\ h.lower = lower /\ h.upper = upper /\ h.count = upper - lower - 1
  BY <1>4 DEF Gap!Hole
<1> QED
  BY <1>3, <1>4, <1>5

LEMMA BetweenIsHole ==
  ASSUME NEW p \in Gap!Series, NEW lower \in Gap!Numbers(p), NEW upper \in Gap!Numbers(p),
         upper - lower > 1, \A n \in Gap!Numbers(p) : n <= lower \/ n >= upper
  PROVE  /\ Gap!Hole(p, lower, upper) \in Gap!Holes
         /\ Gap!Hole(p, lower, upper).prefix = p /\ Gap!Hole(p, lower, upper).lower = lower
         /\ Gap!Hole(p, lower, upper).upper = upper
<1> DEFINE x == <<lower, upper>>
           pairs == {y \in Gap!Numbers(p) \X Gap!Numbers(p) :
                       y[2] - y[1] > 1 /\ \A n \in Gap!Numbers(p) : n <= y[1] \/ n >= y[2]}
<1>1. x \in pairs /\ x[1] = lower /\ x[2] = upper
  OBVIOUS
<1> HIDE DEF x
<1>2. Gap!Hole(p, lower, upper) \in {Gap!Hole(p, y[1], y[2]) : y \in pairs}
  BY <1>1
<1>3. Gap!Hole(p, lower, upper) \in Gap!Holes
  BY <1>2 DEF Gap!Holes
<1>4. /\ Gap!Hole(p, lower, upper).prefix = p /\ Gap!Hole(p, lower, upper).lower = lower
      /\ Gap!Hole(p, lower, upper).upper = upper
  BY DEF Gap!Hole
<1> QED
  BY <1>3, <1>4

\* Two holes of a series do not overlap.
LEMMA HolesAreApart ==
  ASSUME Gap!Proper, Gap!IInv, NEW h \in Gap!Holes, NEW k \in Gap!Holes, h.prefix = k.prefix
  PROVE  /\ h.lower \in Nat /\ h.upper \in Nat /\ k.lower \in Nat /\ k.upper \in Nat
         /\ h # k => h.upper <= k.lower \/ k.upper <= h.lower
         /\ h # k => h.lower # k.lower
<1>1. /\ h.lower \in Nat /\ h.upper \in Nat /\ k.lower \in Nat /\ k.upper \in Nat
  BY HoleIsBetween, SeriesAreFinite
<1>2. /\ h.lower <= k.lower \/ h.lower >= k.upper
      /\ h.upper <= k.lower \/ h.upper >= k.upper
      /\ k.lower <= h.lower \/ k.lower >= h.upper
      /\ k.upper <= h.lower \/ k.upper >= h.upper
  BY HoleIsBetween
<1>3. h.lower < h.upper /\ k.lower < k.upper
  BY <1>1, HoleIsBetween
<1>4. h.lower = k.lower /\ h.upper = k.upper => h = k
  BY HoleIsBetween
<1> QED
  BY <1>1, <1>2, <1>3, <1>4

LEMMA HolesAreFinite ==
  ASSUME Gap!Proper, Gap!IInv PROVE Gap!IsFiniteSet(Gap!Holes) /\ Gap!IsFiniteSet(Gap!Gaps)
<1> DEFINE doc == s1
<1> DEFINE all == {doc[d].value.number : d \in Gap!Numbered}
           f == [d \in Gap!Numbered |-> doc[d].value.number]
           g == [h \in Gap!Holes |-> <<h.prefix, h.lower>>]
<1>1. f \in Surjection(Gap!Numbered, all)
  BY DEF Surjection
<1>2. Gap!IsFiniteSet(all)
  <2> HIDE DEF f, all
  <2> QED
    BY <1>1, SeriesAreFinite, FS_Surjection, NumbersCounted
<1>3. Gap!IsFiniteSet(Gap!Series \X all)
  <2> HIDE DEF all
  <2> QED
    BY <1>2, SeriesAreFinite, FS_Product, NumbersCounted
<1>4. g \in Injection(Gap!Holes, Gap!Series \X all)
  <2>1. ASSUME NEW h \in Gap!Holes PROVE <<h.prefix, h.lower>> \in Gap!Series \X all
    <3>1. h.prefix \in Gap!Series /\ h.lower \in Gap!Numbers(h.prefix)
      BY HoleIsBetween
    <3>2. h.lower \in all
      BY <3>1 DEF Gap!Numbers
    <3> QED
      BY <3>1, <3>2
  <2>2. ASSUME NEW h \in Gap!Holes, NEW k \in Gap!Holes, <<h.prefix, h.lower>> = <<k.prefix,
               k.lower>>
        PROVE  h = k
    <3>1. h.prefix = k.prefix /\ h.lower = k.lower
      BY <2>2
    <3> QED
      BY <3>1, HolesAreApart
  <2> HIDE DEF all
  <2> QED
    BY <2>1, <2>2 DEF Injection, IsInjective
<1>5. Gap!IsFiniteSet(Gap!Holes)
  <2> HIDE DEF g, all
  <2> QED
    BY <1>3, <1>4, FS_Injection, NumbersCounted
<1>6. Gap!IsFiniteSet(Gap!Gaps)
  BY <1>5, FS_Subset, NumbersCounted DEF Gap!Gaps
<1> QED
  BY <1>5, <1>6

\* No document holds a number of a hole.
LEMMA CoveredIsLacking ==
  ASSUME Gap!Proper, Gap!IInv, NEW lines \in SUBSET Gap!Holes
  PROVE  Gap!Covered(lines) \subseteq Gap!Lacking
<1> DEFINE Int4Max == Numbering.Int4Max
<1> SUFFICES ASSUME NEW x \in Gap!Covered(lines) PROVE x \in Gap!Lacking
  OBVIOUS
<1>1. PICK h \in lines : h.prefix = x[1] /\ x[2] > h.lower /\ x[2] < h.upper
  BY DEF Gap!Covered
<1> DEFINE p == x[1]  n == x[2]  all == Gap!Numbers(x[1])
<1>2. x \in Gap!Series \X (0..Int4Max) /\ p \in Gap!Series /\ n \in Nat
  BY DEF Gap!Covered, Gap!Proper
<1>3. /\ h.lower \in all /\ h.upper \in all
      /\ \A m \in all : m <= h.lower \/ m >= h.upper
  BY <1>1, HoleIsBetween
<1>4. all \in SUBSET Nat /\ Gap!IsFiniteSet(all) /\ all # {}
  BY <1>2, SeriesAreFinite
<1>5. n > h.lower /\ n < h.upper
  BY <1>1
<1> HIDE DEF all, n
<1>6. Gap!Min(all) <= h.lower /\ h.upper <= Gap!Max(all) /\ Gap!Min(all) \in Nat /\ Gap!Max(all) \in Nat
  BY <1>3, <1>4, Extremes
<1>7. h.lower \in Nat /\ h.upper \in Nat
  BY <1>3, <1>4
<1>8. n \notin all /\ n > Gap!Min(all) /\ n < Gap!Max(all)
  BY <1>2, <1>3, <1>5, <1>6, <1>7
<1> QED
  BY <1>2, <1>8 DEF Gap!Lacking, all, n

\* A number that no document holds lies between two neighbours.
LEMMA LackingIsCovered ==
  ASSUME Gap!Proper, Gap!IInv PROVE Gap!Lacking \subseteq Gap!Covered(Gap!Holes)
<1> DEFINE Int4Max == Numbering.Int4Max
<1> SUFFICES ASSUME NEW x \in Gap!Lacking PROVE x \in Gap!Covered(Gap!Holes)
  OBVIOUS
<1> DEFINE p == x[1]  n == x[2]  all == Gap!Numbers(x[1])
           below == {m \in all : m < n}  above == {m \in all : m > n}
<1>1. /\ x \in Gap!Series \X (0..Int4Max) /\ p \in Gap!Series /\ n \in Nat
      /\ n \notin all /\ n > Gap!Min(all) /\ n < Gap!Max(all)
  BY DEF Gap!Lacking, Gap!Proper
<1>2. all \in SUBSET Nat /\ Gap!IsFiniteSet(all) /\ all # {}
  BY <1>1, SeriesAreFinite
<1> HIDE DEF all, n
<1>3. Gap!Min(all) \in below /\ Gap!Max(all) \in above
  BY <1>1, <1>2, Extremes
<1>4. /\ below \in SUBSET Nat /\ Gap!IsFiniteSet(below) /\ below # {}
      /\ above \in SUBSET Nat /\ above # {}
  BY <1>2, <1>3, FS_Subset, NumbersCounted
<1>5. PICK lower \in below : \A m \in below : m <= lower
  BY <1>4, GreatestIsThere, NumbersCounted
<1>6. PICK upper \in above : \A m \in above : upper <= m
  BY <1>4, LeastIsThere
<1>7. lower \in all /\ upper \in all /\ lower < n /\ n < upper /\ lower \in Nat /\ upper \in Nat
  BY <1>2
<1>8. upper - lower > 1
  BY <1>1, <1>7
<1>9. \A m \in all : m <= lower \/ m >= upper
  <2> SUFFICES ASSUME NEW m \in all PROVE m <= lower \/ m >= upper
    OBVIOUS
  <2>1. m \in Nat /\ m # n
    BY <1>1, <1>2
  <2>2. m < n \/ m > n
    BY <1>1, <2>1
  <2>3. m < n => m <= lower
    BY <1>5
  <2>4. m > n => upper <= m
    BY <1>6
  <2> QED
    BY <1>7, <2>1, <2>2, <2>3, <2>4
<1> DEFINE h == Gap!Hole(p, lower, upper)
<1>10. h \in Gap!Holes /\ h.prefix = p /\ h.lower = lower /\ h.upper = upper
  <2>1. lower \in Gap!Numbers(p) /\ upper \in Gap!Numbers(p) /\ \A m \in Gap!Numbers(p) : m <= lower \/ m >= upper
    BY <1>7, <1>9 DEF all
  <2> QED
    BY <1>1, <1>8, <2>1, BetweenIsHole
<1>11. x[2] > h.lower /\ x[2] < h.upper
  <2>1. n > lower
    BY <1>1, <1>7
  <2> QED
    BY <1>7, <1>10, <2>1 DEF n
<1> HIDE DEF h
<1> QED
  BY <1>1, <1>10, <1>11 DEF Gap!Covered

\* A gap covers as many numbers as it counts.
LEMMA GapCounts ==
  ASSUME Gap!Proper, Gap!IInv, NEW h \in Gap!Gaps
  PROVE  /\ Gap!IsFiniteSet(Gap!Covered({h})) /\ Gap!Cardinality(Gap!Covered({h})) = h.count
         /\ h.count \in Nat
<1> DEFINE Int4Max == Numbering.Int4Max
<1>1. h \in Gap!Holes /\ h.upper <= Int4Max
  BY DEF Gap!Gaps
<1> DEFINE p == h.prefix  lower == h.lower  upper == h.upper
           f == [n \in (lower + 1)..(upper - 1) |-> <<p, n>>]
<1>2. /\ p \in Gap!Series /\ lower \in Nat /\ upper \in Nat /\ upper - lower > 1
      /\ h.count = upper - lower - 1 /\ Int4Max \in Nat
  BY <1>1, HoleIsBetween, SeriesAreFinite DEF Gap!Proper
<1>3. Gap!Covered({h}) = {x \in Gap!Series \X (0..Int4Max) : p = x[1] /\ x[2] > lower /\ x[2] < upper}
  BY DEF Gap!Covered
<1> HIDE DEF p, lower, upper
<1>4. f \in Injection((lower + 1)..(upper - 1), Gap!Covered({h}))
  <2>1. ASSUME NEW n \in (lower + 1)..(upper - 1) PROVE <<p, n>> \in Gap!Covered({h})
    <3>1. n \in 0..Int4Max /\ n > lower /\ n < upper
      BY <1>1, <1>2 DEF upper
    <3> QED
      BY <1>2, <1>3, <3>1
  <2> QED
    BY <2>1 DEF Injection, IsInjective
<1>5. f \in Surjection((lower + 1)..(upper - 1), Gap!Covered({h}))
  <2>1. ASSUME NEW x \in Gap!Covered({h}) PROVE \E n \in (lower + 1)..(upper - 1) : f[n] = x
    <3>1. /\ x \in Gap!Series \X (0..Int4Max) /\ p = x[1] /\ x[2] > lower /\ x[2] < upper
      BY <1>3
    <3>2. x[2] \in (lower + 1)..(upper - 1) /\ x = <<p, x[2]>>
      BY <1>2, <3>1
    <3> QED
      BY <3>2
  <2>2. f \in [(lower + 1)..(upper - 1) -> Gap!Covered({h})]
    BY <1>4 DEF Injection
  <2> QED
    BY <2>1, <2>2 DEF Surjection
<1>6. /\ Gap!IsFiniteSet((lower + 1)..(upper - 1))
      /\ Gap!Cardinality((lower + 1)..(upper - 1)) = upper - lower - 1
  <2>1. lower + 1 \in Int /\ upper - 1 \in Int
    BY <1>2
  <2>2. /\ Gap!IsFiniteSet((lower + 1)..(upper - 1))
        /\ Gap!Cardinality((lower + 1)..(upper - 1)) =
             IF lower + 1 > upper - 1 THEN 0 ELSE (upper - 1) - (lower + 1) + 1
    BY <2>1, FS_Interval, NumbersCounted
  <2> QED
    BY <1>2, <2>2
<1> HIDE DEF f
<1>7. /\ Gap!IsFiniteSet(Gap!Covered({h}))
      /\ Gap!Cardinality(Gap!Covered({h})) = Gap!Cardinality((lower + 1)..(upper - 1))
  BY <1>4, <1>5, <1>6, FS_Surjection, NumbersCounted
<1> QED
  BY <1>2, <1>6, <1>7

\* So do all of them together.
LEMMA GapsCount ==
  ASSUME Gap!Proper, Gap!IInv, NEW h, IsSum(Gap!Gaps, h)
  PROVE  h[Gap!Gaps] = Gap!Cardinality(Gap!Covered(Gap!Gaps))
<1>1. Gap!IsFiniteSet(Gap!Gaps)
  BY HolesAreFinite
<1>2. Naturals(Gap!Gaps)
  BY GapCounts DEF Naturals
<1>3. /\ h[{}] = 0
      /\ \A s \in SUBSET Gap!Gaps :
           h[s] \in Nat /\ (s # {} => h[s] = Some(s).count + h[s \ {Some(s)}])
  BY <1>1, <1>2, SumIsNatural, NumbersCounted
<1> DEFINE bad == {s \in SUBSET Gap!Gaps :
                     ~(Gap!IsFiniteSet(Gap!Covered(s)) /\ h[s] = Gap!Cardinality(Gap!Covered(s)))}
<1>4. bad = {}
  <2> SUFFICES ASSUME bad # {} PROVE FALSE
    OBVIOUS
  <2>1. PICK s \in bad : \A t \in bad : Gap!Cardinality(s) <= Gap!Cardinality(t)
    <3>1. bad \in SUBSET (SUBSET Gap!Gaps)
      OBVIOUS
    <3> HIDE DEF bad
    <3> QED
      BY <1>1, <3>1, SmallestIsThere, NumbersCounted
  <2>2. s \in SUBSET Gap!Gaps
    BY <2>1
  <2>3. s # {}
    <3>1. Gap!Covered({}) = {}
      BY DEF Gap!Covered
    <3>2. Gap!IsFiniteSet(Gap!Covered({})) /\ h[{}] = Gap!Cardinality(Gap!Covered({}))
      BY <1>3, <3>1, FS_EmptySet, NumbersCounted
    <3> QED
      BY <2>1, <3>2
  <2> DEFINE g == Some(s)  t == s \ {g}
  <2>4. g \in s /\ g \in Gap!Gaps
    BY <2>2, <2>3, SomeIsOne
  <2>5. t \in SUBSET Gap!Gaps /\ Gap!Cardinality(t) = Gap!Cardinality(s) - 1 /\ Gap!Cardinality(s) \in Nat
    BY <1>1, <2>2, <2>4, SubsetCounts, NumbersCounted
  <2>6. h[s] = g.count + h[t]
    BY <1>3, <2>2, <2>3
  <2> HIDE DEF g
  <2>7. s = t \cup {g} /\ g \notin t
    BY <2>4
  <2> HIDE DEF t
  <2>8. Gap!IsFiniteSet(Gap!Covered(t)) /\ h[t] = Gap!Cardinality(Gap!Covered(t))
    <3>1. ~(Gap!Cardinality(s) <= Gap!Cardinality(t))
      BY <2>5
    <3> QED
      BY <2>1, <2>5, <3>1
  <2>9. Gap!Covered(s) = Gap!Covered(t) \cup Gap!Covered({g})
    BY <2>7 DEF Gap!Covered
  <2>10. Gap!Covered(t) \cap Gap!Covered({g}) = {}
    <3> SUFFICES ASSUME NEW x \in Gap!Covered(t), x \in Gap!Covered({g}) PROVE FALSE
      OBVIOUS
    <3>1. PICK k \in t : k.prefix = x[1] /\ x[2] > k.lower /\ x[2] < k.upper
      BY DEF Gap!Covered
    <3>2. g.prefix = x[1] /\ x[2] > g.lower /\ x[2] < g.upper /\ x[2] \in Nat
      BY DEF Gap!Covered, Gap!Proper
    <3>3. k \in Gap!Holes /\ g \in Gap!Holes /\ k # g /\ k.prefix = g.prefix
      BY <2>4, <2>5, <2>7, <3>1, <3>2 DEF Gap!Gaps
    <3>4. /\ k.lower \in Nat /\ k.upper \in Nat /\ g.lower \in Nat /\ g.upper \in Nat
          /\ k.upper <= g.lower \/ g.upper <= k.lower
      BY <3>3, HolesAreApart
    <3> QED
      BY <3>1, <3>2, <3>4
  <2>11. /\ Gap!IsFiniteSet(Gap!Covered({g})) /\ Gap!Cardinality(Gap!Covered({g})) = g.count /\ g.count \in Nat
    BY <2>4, GapCounts
  <2> DEFINE A == Gap!Covered(t)  B == Gap!Covered({g})
  <2>12. Gap!Covered(s) = A \cup B /\ A \cap B = {} /\ Gap!IsFiniteSet(A) /\ Gap!IsFiniteSet(B)
    BY <2>8, <2>9, <2>10, <2>11
  <2>13. Gap!Cardinality(A) = h[t] /\ Gap!Cardinality(B) = g.count
    BY <2>8, <2>11
  <2> HIDE DEF A, B
  <2>14. /\ Gap!IsFiniteSet(A \cup B)
         /\ Gap!Cardinality(A \cup B) = Gap!Cardinality(A) + Gap!Cardinality(B) - Gap!Cardinality(A \cap B)
    BY <2>12, FS_Union, NumbersCounted
  <2>15. Gap!Cardinality(A \cap B) = 0
    BY <2>12, FS_EmptySet, NumbersCounted
  <2>16. h[t] \in Nat
    BY <1>3, <2>5
  <2>17. Gap!Cardinality(A \cup B) = h[s]
    BY <2>6, <2>11, <2>13, <2>14, <2>15, <2>16
  <2> QED
    BY <2>1, <2>12, <2>14, <2>17
<1>5. Gap!Gaps \in SUBSET Gap!Gaps
  OBVIOUS
<1> HIDE DEF bad
<1> QED
  BY <1>4, <1>5 DEF bad

\* The missing numbers of a report are such a sum.
LEMMA MissingIsSum ==
  ASSUME NEW rows, Gap!IsFiniteSet(rows)
  PROVE  \E h : IsSum(rows, h) /\ Gap!MapThenSumSet(LAMBDA g : g.count, rows) = h[rows]
<1> DEFINE Is(h) == h = [s \in SUBSET rows |->
                           IF s = {} THEN 0
                           ELSE (CHOOSE r \in s : TRUE).count + h[s \ {CHOOSE r \in s : TRUE}]]
           sum == CHOOSE h : Is(h)
<1>1. Gap!MapThenSumSet(LAMBDA g : g.count, rows) = sum[rows]
  BY DEF Gap!MapThenSumSet, Gap!MapThenFoldSet
<1>2. \A h : IsSum(rows, h) <=> Is(h)
  BY DEF IsSum, Some
<1>3. Is(sum)
  <2>1. PICK h : IsSum(rows, h)
    BY SumIsThere, NumbersCounted
  <2> HIDE DEF Is
  <2>2. Is(h)
    BY <1>2, <2>1
  <2> QED
    BY <2>2
<1> HIDE DEF sum
<1>4. IsSum(rows, sum)
  BY <1>2, <1>3
<1> QED
  BY <1>1, <1>4

\* The gaps stand one after the other.
LEMMA GapsAreOrdered ==
  ASSUME Gap!Proper, Gap!IInv, NEW R, R = {x \in Gap!Gaps \X Gap!Gaps : Gap!Before(x[1], x[2])}
  PROVE  /\ Orders(R, Gap!Gaps)
         /\ \A h \in Gap!Gaps : Gap!Cardinality({k \in Gap!Gaps : Gap!Before(k, h)}) = Ahead(R, Gap!Gaps, h)
<1>1. \A h \in Gap!Gaps : h \in Gap!Holes /\ h.prefix \in Nat /\ h.lower \in Nat
  <2> SUFFICES ASSUME NEW h \in Gap!Gaps
               PROVE  h \in Gap!Holes /\ h.prefix \in Nat /\ h.lower \in Nat
    OBVIOUS
  <2>1. h \in Gap!Holes
    BY DEF Gap!Gaps
  <2> QED
    BY <2>1, HoleIsBetween, SeriesAreFinite
<1>2. \A k \in Gap!Gaps, h \in Gap!Gaps : <<k, h>> \in R <=> Gap!Before(k, h)
  OBVIOUS
<1>3. \A a \in Gap!Gaps : ~Gap!Before(a, a)
  BY <1>1 DEF Gap!Before
<1>4. \A a \in Gap!Gaps, b \in Gap!Gaps, c \in Gap!Gaps : Gap!Before(a, b) /\ Gap!Before(b, c) => Gap!Before(a, c)
  BY <1>1 DEF Gap!Before
<1>5. ASSUME NEW a \in Gap!Gaps, NEW b \in Gap!Gaps, a # b
      PROVE  Gap!Before(a, b) \/ Gap!Before(b, a)
  <2>1. a.prefix = b.prefix => a.lower # b.lower
    BY <1>1, <1>5, HolesAreApart
  <2> QED
    BY <1>1, <2>1 DEF Gap!Before
<1>6. Orders(R, Gap!Gaps)
  BY <1>2, <1>3, <1>4, <1>5 DEF Orders
<1>7. ASSUME NEW h \in Gap!Gaps
      PROVE  Gap!Cardinality({k \in Gap!Gaps : Gap!Before(k, h)}) = Ahead(R, Gap!Gaps, h)
  <2>1. {k \in Gap!Gaps : Gap!Before(k, h)} = {k \in Gap!Gaps : <<k, h>> \in R}
    BY <1>2
  <2> QED
    BY <2>1, NumbersCounted DEF Ahead
<1> QED
  BY <1>6, <1>7

LEMMA GapBegins == ASSUME Gap!Init PROVE Gap!IInv
BY DEF Gap!Init, Gap!IInv

LEMMA GapStep == ASSUME Gap!IInv, [Gap!Next]_(Gap!vars) PROVE Gap!IInv'
<1> DEFINE Documents == Numbering.Documents
<1>1. CASE Gap!Scan
  BY <1>1 DEF Gap!Scan, Gap!IInv, Gap!Contents
<1>2. CASE Gap!ScanRefused
  BY <1>2 DEF Gap!ScanRefused, Gap!IInv, Gap!vars, Gap!Contents
<1>3. CASE Gap!Reset
  BY <1>3 DEF Gap!Reset, Gap!IInv, Gap!Contents
<1>4. ASSUME NEW d \in Documents, NEW row \in Gap!Contents, Gap!Edit(d, row) PROVE Gap!IInv'
  BY <1>4 DEF Gap!Edit, Gap!IInv, Gap!Contents
<1>5. CASE UNCHANGED Gap!vars
  BY <1>5 DEF Gap!IInv, Gap!vars, Gap!Contents
<1> QED
  BY <1>1, <1>2, <1>3, <1>4, <1>5 DEF Gap!Next

\* What a scan reports is what the documents lack.
LEMMA ReportIsExact == ASSUME Gap!Proper, Gap!IInv PROVE Gap!GapsExact
<1> DEFINE form == s2  report == s3  AbsoluteMaxGaps == Numbering.AbsoluteMaxGaps
<1> SUFFICES ASSUME Gap!Scan PROVE Gap!GapsExact
  BY DEF Gap!GapsExact
<1> DEFINE lines == {h \in Gap!Gaps : Gap!Cardinality({k \in Gap!Gaps : Gap!Before(k, h)}) < Gap!Cap}
           R == {x \in Gap!Gaps \X Gap!Gaps : Gap!Before(x[1], x[2])}
           missing == Gap!MapThenSumSet(LAMBDA h : h.count, Gap!Gaps)
<1>1. /\ report'.lines = lines /\ report'.missing = missing
      /\ report'.truncated <=> Gap!Cardinality(Gap!Gaps) > Gap!Cap
      /\ report'.skipped = Gap!Cardinality(Gap!Holes \ Gap!Gaps)
  BY DEF Gap!Scan
<1>2. Gap!Cap \in Nat
  <2>1. form.cap \in Int /\ AbsoluteMaxGaps \in Nat
    BY DEF Gap!IInv, Gap!Proper
  <2>2. Gap!Max({form.cap, 1}) \in {form.cap, 1} /\ Gap!Max({form.cap, 1}) >= 1
    <3>1. \E m \in {form.cap, 1} : \A y \in {form.cap, 1} : m >= y
      BY <2>1
    <3> QED
      BY <3>1 DEF Gap!Max
  <2> DEFINE top == Gap!Max({form.cap, 1})
  <2>3. top \in Nat
    BY <2>1, <2>2
  <2> HIDE DEF top
  <2>4. Gap!Min({top, AbsoluteMaxGaps}) \in {top, AbsoluteMaxGaps}
    <3>1. \E m \in {top, AbsoluteMaxGaps} : \A y \in {top, AbsoluteMaxGaps} : m <= y
      BY <2>1, <2>3
    <3> QED
      BY <3>1 DEF Gap!Min
  <2> QED
    BY <2>1, <2>3, <2>4 DEF Gap!Cap, top
<1>3. /\ Orders(R, Gap!Gaps)
      /\ \A h \in Gap!Gaps : Gap!Cardinality({k \in Gap!Gaps : Gap!Before(k, h)}) = Ahead(R, Gap!Gaps, h)
  BY GapsAreOrdered
<1> HIDE DEF R, missing
<1>4. lines = {h \in Gap!Gaps : Ahead(R, Gap!Gaps, h) < Gap!Cap}
  BY <1>3
<1>5. Gap!IsFiniteSet(Gap!Gaps) /\ Gap!IsFiniteSet(Gap!Holes \ Gap!Gaps) /\ Gap!Cardinality(Gap!Gaps) \in Nat
  BY HolesAreFinite, FS_Subset, FS_CardinalityType, NumbersCounted
<1>6. lines \in SUBSET Gap!Holes
  BY DEF Gap!Gaps
<1> HIDE DEF lines
<1>7. Gap!Covered(report'.lines) \subseteq Gap!Lacking
  BY <1>1, <1>6, CoveredIsLacking
<1>8. ASSUME ~report'.truncated, report'.skipped = 0
      PROVE  Gap!Covered(report'.lines) = Gap!Lacking /\ report'.missing = Gap!Cardinality(Gap!Lacking)
  <2>1. Gap!Cardinality(Gap!Gaps) <= Gap!Cap
    BY <1>1, <1>2, <1>5, <1>8
  <2>2. lines = Gap!Gaps
    <3>1. ASSUME NEW h \in Gap!Gaps PROVE Ahead(R, Gap!Gaps, h) < Gap!Cap
      <4>1. Ahead(R, Gap!Gaps, h) \in Nat /\ Ahead(R, Gap!Gaps, h) < Gap!Cardinality(Gap!Gaps)
        BY <1>3, <1>5, AheadIsBounded, NumbersCounted
      <4> QED
        BY <1>2, <1>5, <2>1, <4>1
    <3> QED
      BY <1>4, <3>1
  <2>3. Gap!Holes = Gap!Gaps
    <3>1. Gap!Holes \ Gap!Gaps = {}
      BY <1>1, <1>5, <1>8, FS_EmptySet, NumbersCounted
    <3> QED
      BY <3>1 DEF Gap!Gaps
  <2>4. Gap!Covered(lines) = Gap!Lacking
    BY <1>1, <1>7, <2>2, <2>3, LackingIsCovered
  <2>5. PICK h : IsSum(Gap!Gaps, h) /\ missing = h[Gap!Gaps]
    BY <1>5, MissingIsSum, NumbersCounted DEF missing
  <2>6. missing = Gap!Cardinality(Gap!Covered(Gap!Gaps))
    BY <2>5, GapsCount
  <2> QED
    BY <1>1, <2>2, <2>4, <2>6
<1>9. ASSUME report'.truncated PROVE Gap!Cardinality(report'.lines) = Gap!Cap
  <2>1. Gap!Cap <= Gap!Cardinality(Gap!Gaps)
    BY <1>1, <1>2, <1>5, <1>9
  <2>2. Gap!Cardinality({h \in Gap!Gaps : Ahead(R, Gap!Gaps, h) < Gap!Cap}) = Gap!Cap
    BY <1>2, <1>3, <1>5, <2>1, FirstAreAsMany, NumbersCounted
  <2> QED
    BY <1>1, <1>4, <2>2
<1> QED
  BY <1>7, <1>8, <1>9 DEF Gap!GapsExact
-----------------------------------------------------------------------------
(* The totals of a report *)

LEMMA ScanAdds == ASSUME Lnk!IInv PROVE Lnk!NumbersAddUp
BY DEF Lnk!IInv, Lnk!CountsHold

LEMMA RulesCount == ASSUME Arc!IInv PROVE Arc!CountTells
BY DEF Arc!IInv

\* Wherever a scan for broken links is, each row it passed is counted once; the total of a
\* rule is what it archived; and what a gap report lists and adds up is what the documents
\* lack, unless it says that it left some out (_run_check, _run_rule, _find_gaps).
THEOREM NumbersAreRight == Spec => NumbersAddUp
<1> DEFINE Inv == /\ part = "links" => Lnk!IInv
                  /\ part = "archiving" => Arc!IInv
                  /\ part = "numbers" => Gap!IInv
<1>1. Init => Inv
  BY AddOnsAssumption, ScanBegins, ArchivesBegin, GapBegins DEF Init
<1>2. Inv /\ [Next]_vars => Inv'
  <2> SUFFICES ASSUME Inv, [Next]_vars PROVE Inv'
    OBVIOUS
  <2>1. ASSUME part' = "links" PROVE Lnk!IInv'
    <3>1. part = "links" /\ [Lnk!Next]_(Lnk!vars)
      BY <2>1, PartStays DEF Next, vars, Lnk!vars
    <3> QED
      BY <3>1, AddOnsAssumption, ScanStep
  <2>2. ASSUME part' = "archiving" PROVE Arc!IInv'
    <3>1. part = "archiving" /\ [Arc!Next]_(Arc!vars)
      BY <2>2, PartStays DEF Next, vars, Arc!vars
    <3> QED
      BY <3>1, AddOnsAssumption, ArchivesStep
  <2>3. ASSUME part' = "numbers" PROVE Gap!IInv'
    <3>1. part = "numbers" /\ [Gap!Next]_(Gap!vars)
      BY <2>3, PartStays DEF Next, vars, Gap!vars
    <3> QED
      BY <3>1, GapStep
  <2> QED
    BY <2>1, <2>2, <2>3
<1>3. Inv => /\ part = "links" => Lnk!NumbersAddUp
             /\ part = "archiving" => Arc!CountTells
  BY ScanAdds, RulesCount
<1>4. Inv' /\ [Next]_vars => /\ part = "links" => Lnk!NumbersAddUp'
                             /\ part = "archiving" => Arc!CountTells'
  <2>1. (Inv => /\ part = "links" => Lnk!NumbersAddUp
                /\ part = "archiving" => Arc!CountTells)'
    BY <1>3, PTL
  <2> QED
    BY <2>1, PartStays
<1>5. Inv => (part = "numbers" => Gap!GapsExact)
  BY AddOnsAssumption, ReportIsExact
<1>6. Inv /\ Inv' /\ [Next]_vars =>
        [/\ part = "links" => Lnk!NumbersAddUp'
         /\ part = "archiving" => Arc!CountTells'
         /\ part = "numbers" => Gap!GapsExact]_vars
  BY <1>4, <1>5
<1> QED
  BY <1>1, <1>2, <1>6, PTL DEF Spec, NumbersAddUp
-----------------------------------------------------------------------------
(* The largest groups of duplicates                                        *)

LEMMA FinderCounted ==
  /\ \A S : Con!Cardinality(S) = Cardinality(S)
  /\ \A S : Con!IsFiniteSet(S) <=> IsFiniteSet(S)
<1>1. \A S : Con!Cardinality(S) = Cardinality(S)
  BY DEF Con!Cardinality, Con!IsFiniteSet, Cardinality, IsFiniteSet
<1>2. \A S : Con!IsFiniteSet(S) <=> IsFiniteSet(S)
  BY DEF Con!IsFiniteSet, IsFiniteSet
<1> QED
  BY <1>1, <1>2

LEMMA SizesAreNumbers ==
  ASSUME Con!Proper, Con!IInv
  PROVE  /\ \A g : Con!Size(g) \in Nat
         /\ \A criteria \in SUBSET Finder.Criteria :
              Con!IsFiniteSet(Con!Groups(criteria)) /\ Con!Groups(criteria) \subseteq Finder.Criteria \X Finder.Keys
<1> DEFINE Contacts == Finder.Contacts  Criteria == Finder.Criteria  Keys == Finder.Keys
<1>1. ASSUME NEW g PROVE Con!Size(g) \in Nat
  <2>1. Con!Members(g) \subseteq Contacts
    BY DEF Con!Members, Con!Scope, Con!IInv
  <2>2. Con!IsFiniteSet(Con!Members(g))
    BY <2>1, FS_Subset, FinderCounted DEF Con!Proper
  <2> QED
    BY <2>2, FS_CardinalityType, FinderCounted DEF Con!Size
<1>2. Con!IsFiniteSet(Criteria \X Keys)
  BY FS_Product, FinderCounted DEF Con!Proper
<1>3. ASSUME NEW criteria \in SUBSET Criteria
      PROVE  Con!IsFiniteSet(Con!Groups(criteria)) /\ Con!Groups(criteria) \subseteq Criteria \X Keys
  <2>1. Con!Groups(criteria) \subseteq Criteria \X Keys
    BY DEF Con!Groups
  <2> QED
    BY <1>2, <2>1, FS_Subset, FinderCounted
<1> QED
  BY <1>1, <1>3

\* the pairs of S of which the first is larger, or as large with a lower key
Larger(S) == {x \in S \X S : Con!BySize(x[1], x[2])}

\* Groups of one criterion are ordered by size and key.
LEMMA SizesOrder ==
  ASSUME Con!Proper, Con!IInv, NEW S \in SUBSET (Finder.Criteria \X Finder.Keys), \A g \in S,
         h \in S : g[1] = h[1]
  PROVE  /\ Orders(Larger(S), S)
         /\ \A g \in S : Con!Cardinality({h \in S : Con!BySize(h, g)}) = Ahead(Larger(S), S, g)
<1>1. \A k \in S, h \in S : <<k, h>> \in Larger(S) <=> Con!BySize(k, h)
  BY DEF Larger
<1>2. \A g \in S : Con!Size(g) \in Nat /\ g[2] \in Int /\ g = <<g[1], g[2]>>
  BY SizesAreNumbers DEF Con!Proper
<1>3. \A a \in S : ~Con!BySize(a, a)
  BY <1>2 DEF Con!BySize
<1>4. \A a \in S, b \in S, c \in S : Con!BySize(a, b) /\ Con!BySize(b, c) => Con!BySize(a, c)
  BY <1>2 DEF Con!BySize
<1>5. ASSUME NEW a \in S, NEW b \in S, a # b PROVE Con!BySize(a, b) \/ Con!BySize(b, a)
  <2>1. a[2] # b[2]
    BY <1>2, <1>5
  <2> QED
    BY <1>2, <2>1 DEF Con!BySize
<1>6. Orders(Larger(S), S)
  BY <1>1, <1>3, <1>4, <1>5 DEF Orders
<1>7. ASSUME NEW g \in S
      PROVE  Con!Cardinality({h \in S : Con!BySize(h, g)}) = Ahead(Larger(S), S, g)
  <2>1. {h \in S : Con!BySize(h, g)} = {h \in S : <<h, g>> \in Larger(S)}
    BY <1>1
  <2> QED
    BY <2>1, FinderCounted DEF Ahead
<1> QED
  BY <1>6, <1>7

\* What is fetched of a criterion are all its groups, or the largest.
LEMMA LargestAreFetched ==
  ASSUME Con!Proper, Con!IInv, NEW criterion \in Finder.Criteria, NEW cap \in Nat
  PROVE  /\ Con!Fetched(criterion, cap) \subseteq Con!Groups({criterion})
         /\ \/ Con!Fetched(criterion, cap) = Con!Groups({criterion})
            \/ /\ Con!Cardinality(Con!Fetched(criterion, cap)) = cap + 1
               /\ \A h \in Con!Fetched(criterion, cap),
                     g \in Con!Groups({criterion}) \ Con!Fetched(criterion, cap) : Con!Size(h) >= Con!Size(g)
<1> DEFINE Criteria == Finder.Criteria  Keys == Finder.Keys
<1> DEFINE all == Con!Groups({criterion})  fetched == Con!Fetched(criterion, cap)  R == Larger(all)
<1>1. Con!IsFiniteSet(all) /\ all \in SUBSET (Criteria \X Keys)
  <2>1. {criterion} \in SUBSET Criteria
    OBVIOUS
  <2> QED
    BY <2>1, SizesAreNumbers
<1>2. \A g \in all, h \in all : g[1] = h[1]
  BY DEF Con!Groups
<1>3. fetched = {g \in all : Con!Cardinality({h \in all : Con!BySize(h, g)}) < cap + 1}
  BY DEF Con!Fetched, Con!Rank
<1> HIDE DEF all, fetched
<1>4. /\ Orders(R, all)
      /\ \A g \in all : Con!Cardinality({h \in all : Con!BySize(h, g)}) = Ahead(R, all, g)
  BY <1>1, <1>2, SizesOrder
<1>5. fetched = {g \in all : Ahead(R, all, g) < cap + 1}
  BY <1>3, <1>4
<1>6. \A g \in all, h \in all : <<g, h>> \in R <=> Con!BySize(g, h)
  BY DEF Larger
<1> HIDE DEF R
<1>7. fetched \subseteq all /\ Con!Cardinality(all) \in Nat
  BY <1>1, <1>5, FS_CardinalityType, FinderCounted
<1>8. CASE Con!Cardinality(all) <= cap
  <2>1. ASSUME NEW g \in all PROVE Ahead(R, all, g) < cap + 1
    <3>1. Ahead(R, all, g) \in Nat /\ Ahead(R, all, g) < Con!Cardinality(all)
      BY <1>1, <1>4, AheadIsBounded, FinderCounted
    <3> QED
      BY <1>7, <1>8, <3>1
  <2>2. fetched = all
    BY <1>5, <2>1
  <2> QED
    BY <2>2 DEF all, fetched
<1>9. CASE ~(Con!Cardinality(all) <= cap)
  <2>1. Con!Cardinality({g \in all : Ahead(R, all, g) < cap + 1}) = cap + 1
    <3>1. cap + 1 \in Nat /\ cap + 1 <= Con!Cardinality(all)
      BY <1>7, <1>9
    <3> QED
      BY <1>1, <1>4, <3>1, FirstAreAsMany, FinderCounted
  <2>2. ASSUME NEW h \in fetched, NEW g \in all \ fetched PROVE Con!Size(h) >= Con!Size(g)
    <3>1. h \in all /\ Ahead(R, all, h) < cap + 1 /\ ~(Ahead(R, all, g) < cap + 1) /\ h # g
      BY <1>5
    <3>2. Ahead(R, all, h) \in Nat /\ Ahead(R, all, g) \in Nat
      BY <1>1, <1>4, <3>1, AheadIsBounded, FinderCounted
    <3>3. ~(<<g, h>> \in R)
      <4>1. <<g, h>> \in R => Ahead(R, all, g) < Ahead(R, all, h)
        BY <1>1, <1>4, <3>1, MoreAreAhead, FinderCounted
      <4> QED
        BY <3>1, <3>2, <4>1
    <3>4. <<h, g>> \in R
      BY <1>4, <3>1, <3>3 DEF Orders
    <3>5. Con!BySize(h, g)
      BY <1>6, <3>1, <3>4
    <3> QED
      BY <3>5, SizesAreNumbers DEF Con!BySize
  <2>3. Con!Cardinality(fetched) = cap + 1
    BY <1>5, <2>1
  <2> QED
    BY <1>7, <2>2, <2>3 DEF all, fetched
<1> QED
  BY <1>8, <1>9

\* the groups of gs with the criterion and the size of x
Alike(gs, x) == {y \in gs : y[1] = x[1] /\ Con!Size(y) = Con!Size(x)}

Standing(gs, x) == Ahead(Larger(Alike(gs, x)), Alike(gs, x), x)

\* Of groups alike, each has a standing of its own.
LEMMA StandingsDiffer ==
  ASSUME Con!Proper, Con!IInv, NEW gs \in SUBSET (Finder.Criteria \X Finder.Keys),
         Con!IsFiniteSet(gs), NEW x \in gs
  PROVE  /\ Con!IsFiniteSet(Alike(gs, x)) /\ x \in Alike(gs, x) /\ Con!Cardinality(Alike(gs, x)) \in Nat
         /\ Con!Cardinality({y \in Alike(gs, x) : Con!BySize(y, x)}) = Standing(gs, x)
         /\ \A y \in Alike(gs, x) : Alike(gs, y) = Alike(gs, x) /\ y \in gs
         /\ Standing(gs, x) \in Nat /\ Standing(gs, x) < Con!Cardinality(Alike(gs, x))
         /\ \A y \in Alike(gs, x) : Standing(gs, y) = Standing(gs, x) => y = x
         /\ \A n \in Nat : n <= Con!Cardinality(Alike(gs, x)) =>
              Con!Cardinality({y \in Alike(gs, x) : Standing(gs, y) < n}) = n
<1> DEFINE Criteria == Finder.Criteria  Keys == Finder.Keys
<1> DEFINE S == Alike(gs, x)  R == Larger(Alike(gs, x))
<1>1. /\ S \subseteq gs /\ x \in S /\ S \in SUBSET (Criteria \X Keys)
      /\ \A g \in S, h \in S : g[1] = h[1]
      /\ \A y \in S : Alike(gs, y) = S
  BY DEF Alike
<1>2. Con!IsFiniteSet(S) /\ Con!Cardinality(S) \in Nat
  BY <1>1, FS_Subset, FS_CardinalityType, FinderCounted
<1>3. \A y \in S : Standing(gs, y) = Ahead(R, S, y)
  BY <1>1 DEF Standing
<1> HIDE DEF S
<1>4. /\ Orders(Larger(S), S)
      /\ \A g \in S : Con!Cardinality({h \in S : Con!BySize(h, g)}) = Ahead(Larger(S), S, g)
  BY <1>1, SizesOrder
<1>5. R = Larger(S)
  BY DEF S
<1> HIDE DEF R
<1>6. Orders(R, S)
  BY <1>4, <1>5
<1>7. Ahead(R, S, x) \in Nat /\ Ahead(R, S, x) < Con!Cardinality(S)
  BY <1>1, <1>2, <1>6, AheadIsBounded, FinderCounted
<1>8. \A y \in S : Ahead(R, S, y) = Ahead(R, S, x) => y = x
  BY <1>1, <1>2, <1>6, AheadIsExact, FinderCounted
<1>9. ASSUME NEW n \in Nat, n <= Con!Cardinality(S)
      PROVE  Con!Cardinality({y \in S : Standing(gs, y) < n}) = n
  <2>1. Con!Cardinality({y \in S : Ahead(R, S, y) < n}) = n
    BY <1>2, <1>6, <1>9, FirstAreAsMany, FinderCounted
  <2>2. {y \in S : Standing(gs, y) < n} = {y \in S : Ahead(R, S, y) < n}
    BY <1>3
  <2> QED
    BY <2>1, <2>2
<1>10. Con!Cardinality({y \in S : Con!BySize(y, x)}) = Standing(gs, x)
  BY <1>1, <1>3, <1>4, <1>5
<1>11. /\ Standing(gs, x) \in Nat /\ Standing(gs, x) < Con!Cardinality(S)
       /\ \A y \in S : Standing(gs, y) = Standing(gs, x) => y = x
  BY <1>1, <1>3, <1>7, <1>8
<1> QED
  BY <1>1, <1>2, <1>9, <1>10, <1>11 DEF S

\* the pairs of gs that are listed in this order
Listing(gs) == {x \in gs \X gs : Con!Interleaved(gs, x[1], x[2])}

\* The order of the list: by size, by standing, by criterion.
LEMMA ListingOrders ==
  ASSUME Con!Proper, Con!IInv, NEW gs \in SUBSET (Finder.Criteria \X Finder.Keys),
         Con!IsFiniteSet(gs)
  PROVE  /\ Orders(Listing(gs), gs)
         /\ \A g \in gs : Con!Cardinality({h \in gs : Con!Interleaved(gs, h, g)})
                            = Ahead(Listing(gs), gs, g)
         /\ \A g \in gs, h \in gs : <<g, h>> \in Listing(gs) =>
              /\ Con!Size(g) >= Con!Size(h)
              /\ Con!Size(g) = Con!Size(h) => Standing(gs, g) <= Standing(gs, h)
<1>1. ASSUME NEW g \in gs, NEW h \in gs
      PROVE  Con!Interleaved(gs, g, h) <=>
               \/ Con!Size(g) > Con!Size(h)
               \/ Con!Size(g) = Con!Size(h) /\ Standing(gs, g) < Standing(gs, h)
               \/ Con!Size(g) = Con!Size(h) /\ Standing(gs, g) = Standing(gs, h) /\ g[1] < h[1]
  <2>1. ASSUME NEW x \in gs
        PROVE  Con!Cardinality({y \in {z \in gs : z[1] = x[1] /\ Con!Size(z) = Con!Size(x)} : Con!BySize(y, x)})
                 = Standing(gs, x)
    BY StandingsDiffer DEF Alike
  <2> QED
    BY <2>1 DEF Con!Interleaved, Con!Rank
<1>2. \A k \in gs, h \in gs : <<k, h>> \in Listing(gs) <=> Con!Interleaved(gs, k, h)
  BY DEF Listing
<1>3. \A g \in gs : Con!Size(g) \in Nat /\ Standing(gs, g) \in Nat /\ g[1] \in Int
  BY SizesAreNumbers, StandingsDiffer DEF Con!Proper
<1>4. \A a \in gs : ~Con!Interleaved(gs, a, a)
  BY <1>1, <1>3
<1>5. \A a \in gs, b \in gs, c \in gs :
        Con!Interleaved(gs, a, b) /\ Con!Interleaved(gs, b, c) => Con!Interleaved(gs, a, c)
  BY <1>1, <1>3
<1>6. ASSUME NEW a \in gs, NEW b \in gs, a # b
      PROVE  Con!Interleaved(gs, a, b) \/ Con!Interleaved(gs, b, a)
  <2>1. Con!Size(a) = Con!Size(b) /\ a[1] = b[1] => Standing(gs, a) # Standing(gs, b)
    <3> SUFFICES ASSUME Con!Size(a) = Con!Size(b), a[1] = b[1]
                 PROVE  Standing(gs, a) # Standing(gs, b)
      OBVIOUS
    <3>1. a \in Alike(gs, b)
      BY DEF Alike
    <3> QED
      BY <1>6, <3>1, StandingsDiffer
  <2> QED
    BY <1>1, <1>3, <2>1
<1>7. Orders(Listing(gs), gs)
  BY <1>2, <1>4, <1>5, <1>6 DEF Orders
<1>8. ASSUME NEW g \in gs
      PROVE  Con!Cardinality({h \in gs : Con!Interleaved(gs, h, g)}) = Ahead(Listing(gs), gs, g)
  <2>1. {h \in gs : Con!Interleaved(gs, h, g)} = {h \in gs : <<h, g>> \in Listing(gs)}
    BY <1>2
  <2> QED
    BY <2>1, FinderCounted DEF Ahead
<1>9. \A g \in gs, h \in gs : <<g, h>> \in Listing(gs) =>
        /\ Con!Size(g) >= Con!Size(h)
        /\ Con!Size(g) = Con!Size(h) => Standing(gs, g) <= Standing(gs, h)
  BY <1>1, <1>2, <1>3
<1> QED
  BY <1>7, <1>8, <1>9

\* What is left out has one like it, or larger, that was fetched and is not listed.
LEMMA LeftHasLike ==
  ASSUME Con!Proper, Con!IInv, NEW criteria \in SUBSET Finder.Criteria, NEW cap \in Nat, NEW raw,
         \A g : g \in raw <=> \E criterion \in criteria : g \in Con!Fetched(criterion, cap)
  PROVE  /\ raw \subseteq Con!Groups(criteria) /\ Con!IsFiniteSet(raw) /\ Con!Cardinality(raw) \in Nat
         /\ Con!Cardinality(raw) <= cap => raw = Con!Groups(criteria)
         /\ \A listed \in SUBSET raw : Con!Cardinality(listed) <= cap =>
              \A g \in Con!Groups(criteria) \ listed :
                \E w \in raw \ listed : w[1] = g[1] /\ Con!Size(w) >= Con!Size(g)
<1>1. \A criterion \in criteria : Con!Groups({criterion}) = {g \in Con!Groups(criteria) : g[1] = criterion}
  BY DEF Con!Groups
<1>2. \A g \in Con!Groups(criteria) : g[1] \in criteria
  BY DEF Con!Groups
<1>3. \A criterion \in criteria : Con!Fetched(criterion, cap) \subseteq raw
  OBVIOUS
<1>4. raw \subseteq Con!Groups(criteria)
  <2>1. \A criterion \in criteria : Con!Fetched(criterion, cap) \subseteq Con!Groups({criterion})
    BY LargestAreFetched
  <2>2. \A g \in raw : \E criterion \in criteria : g \in Con!Fetched(criterion, cap)
    OBVIOUS
  <2> QED
    BY <1>1, <2>1, <2>2
<1>5. Con!IsFiniteSet(raw) /\ Con!Cardinality(raw) \in Nat
  <2>1. Con!IsFiniteSet(Con!Groups(criteria))
    BY SizesAreNumbers
  <2>2. Con!IsFiniteSet(raw)
    BY <1>4, <2>1, FS_Subset, FinderCounted
  <2> QED
    BY <2>2, FS_CardinalityType, FinderCounted
<1>6. ASSUME NEW criterion \in criteria, NEW set \in SUBSET raw, Con!Cardinality(set) <= cap,
             Con!Fetched(criterion, cap) \subseteq set
      PROVE  Con!Fetched(criterion, cap) = Con!Groups({criterion})
  <2>1. Con!IsFiniteSet(set) /\ Con!Cardinality(Con!Fetched(criterion, cap)) <= Con!Cardinality(set)
    BY <1>5, <1>6, FS_Subset, FinderCounted
  <2>2. Con!IsFiniteSet(Con!Fetched(criterion, cap))
    BY <1>6, <2>1, FS_Subset, FinderCounted
  <2>3. Con!Cardinality(set) \in Nat /\ Con!Cardinality(Con!Fetched(criterion, cap)) \in Nat
    BY <2>1, <2>2, FS_CardinalityType, FinderCounted
  <2>4. Con!Cardinality(Con!Fetched(criterion, cap)) # cap + 1
    BY <1>6, <2>1, <2>3
  <2> QED
    BY <2>4, LargestAreFetched
<1>7. ASSUME Con!Cardinality(raw) <= cap PROVE raw = Con!Groups(criteria)
  <2> SUFFICES ASSUME NEW g \in Con!Groups(criteria) PROVE g \in raw
    BY <1>4
  <2>1. g[1] \in criteria /\ g \in Con!Groups({g[1]})
    BY <1>1, <1>2
  <2>2. Con!Fetched(g[1], cap) = Con!Groups({g[1]})
    BY <1>3, <1>6, <1>7, <2>1
  <2> QED
    BY <1>3, <2>1, <2>2
<1>8. ASSUME NEW listed \in SUBSET raw, Con!Cardinality(listed) <= cap,
             NEW g \in Con!Groups(criteria) \ listed
      PROVE  \E w \in raw \ listed : w[1] = g[1] /\ Con!Size(w) >= Con!Size(g)
  <2> DEFINE fetched == Con!Fetched(g[1], cap)
  <2>1. g[1] \in criteria /\ g \in Con!Groups({g[1]}) /\ Con!Size(g) \in Nat
    BY <1>1, <1>2, SizesAreNumbers
  <2>2. CASE g \in fetched
    <3>1. g \in raw \ listed
      BY <1>3, <2>1, <2>2
    <3> QED
      BY <2>1, <3>1
  <2>3. CASE g \notin fetched
    <3>1. fetched # Con!Groups({g[1]})
      BY <2>1, <2>3
    <3>2. ~(fetched \subseteq listed)
      BY <1>6, <1>8, <2>1, <3>1
    <3>3. PICK w \in fetched : w \notin listed
      BY <3>2
    <3>4. Con!Size(w) >= Con!Size(g)
      BY <2>1, <2>3, <3>1, <3>3, LargestAreFetched
    <3>5. w \in raw /\ w[1] = g[1]
      <4>1. w \in Con!Groups({g[1]})
        BY <2>1, <3>3, LargestAreFetched
      <4> QED
        BY <1>1, <1>3, <2>1, <3>3, <4>1
    <3> QED
      BY <3>3, <3>4, <3>5
  <2> QED
    BY <2>2, <2>3
<1> QED
  BY <1>4, <1>5, <1>7, <1>8

\* the first of raw, in the order of the list
FirstListed(raw, cap) == {g \in raw : Ahead(Listing(raw), raw, g) < cap}

LEMMA ListedComeFirst ==
  ASSUME Con!Proper, Con!IInv, NEW raw \in SUBSET (Finder.Criteria \X Finder.Keys),
         Con!IsFiniteSet(raw), NEW cap \in Nat,
         NEW h \in FirstListed(raw, cap), NEW w \in raw \ FirstListed(raw, cap)
  PROVE  Con!Size(h) >= Con!Size(w) /\ (Con!Size(h) = Con!Size(w) => Standing(raw, h) <= Standing(raw, w))
<1> DEFINE R == Listing(raw)
<1>1. /\ h \in raw /\ Ahead(R, raw, h) < cap /\ ~(Ahead(R, raw, w) < cap) /\ h # w
  BY DEF FirstListed
<1>2. /\ Orders(R, raw)
      /\ \A g \in raw, k \in raw : <<g, k>> \in R =>
           /\ Con!Size(g) >= Con!Size(k)
           /\ Con!Size(g) = Con!Size(k) => Standing(raw, g) <= Standing(raw, k)
  BY ListingOrders
<1> HIDE DEF R
<1>3. Ahead(R, raw, h) \in Nat /\ Ahead(R, raw, w) \in Nat
  BY <1>1, <1>2, AheadIsBounded, FinderCounted
<1>4. ~(<<w, h>> \in R)
  <2>1. <<w, h>> \in R => Ahead(R, raw, w) < Ahead(R, raw, h)
    BY <1>1, <1>2, MoreAreAhead, FinderCounted
  <2> QED
    BY <1>1, <1>3, <2>1
<1>5. <<h, w>> \in R
  BY <1>1, <1>2, <1>4 DEF Orders
<1> QED
  BY <1>1, <1>2, <1>5

\* Of one size, no criterion has two groups more on the list than one of which a group is
\* left out.
LEMMA CriteriaAreFair ==
  ASSUME Con!Proper, Con!IInv, NEW raw \in SUBSET (Finder.Criteria \X Finder.Keys),
         Con!IsFiniteSet(raw), NEW cap \in Nat,
         NEW listed, listed = FirstListed(raw, cap),
         NEW h \in listed, NEW u \in raw \ listed, Con!Size(u) = Con!Size(h)
  PROVE  Con!Cardinality({x \in listed : x[1] = h[1] /\ Con!Size(x) = Con!Size(h)})
           <= Con!Cardinality({x \in listed : x[1] = u[1] /\ Con!Size(x) = Con!Size(h)}) + 1
<1> DEFINE open == {x \in raw \ listed : x[1] = u[1] /\ Con!Size(x) = Con!Size(h)}
           places == {Standing(raw, x) : x \in open}
<1>1. listed \subseteq raw /\ h \in raw /\ Con!IsFiniteSet(listed)
  BY FS_Subset, FinderCounted DEF FirstListed
<1>2. places \in SUBSET Nat /\ places # {}
  <2>1. \A x \in raw : Standing(raw, x) \in Nat
    BY StandingsDiffer
  <2>2. u \in open
    OBVIOUS
  <2> QED
    BY <2>1, <2>2
<1>3. PICK n \in places : \A m \in places : n <= m
  BY <1>2, LeastIsThere
<1>4. PICK w \in open : n = Standing(raw, w)
  BY <1>3
<1>5. \A x \in open : n <= Standing(raw, x)
  BY <1>3
<1>6. w \in raw /\ w \notin listed /\ w[1] = u[1] /\ Con!Size(w) = Con!Size(h) /\ n \in Nat
  BY <1>2, <1>4
<1> HIDE DEF open, places
<1> DEFINE A == {x \in listed : x[1] = h[1] /\ Con!Size(x) = Con!Size(h)}
           B == {x \in listed : x[1] = u[1] /\ Con!Size(x) = Con!Size(h)}
           C == {y \in Alike(raw, w) : Standing(raw, y) < n}
           D == {y \in Alike(raw, h) : Standing(raw, y) < n + 1}
<1>7. Con!IsFiniteSet(A) /\ Con!IsFiniteSet(B) /\ Con!Cardinality(A) \in Nat /\ Con!Cardinality(B) \in Nat
  <2>1. A \subseteq listed /\ B \subseteq listed
    OBVIOUS
  <2> HIDE DEF A, B
  <2>2. Con!IsFiniteSet(A) /\ Con!IsFiniteSet(B)
    BY <1>1, <2>1, FS_Subset, FinderCounted
  <2> QED
    BY <2>2, FS_CardinalityType, FinderCounted
<1>8. n <= Con!Cardinality(B)
  <2>1. Con!Cardinality(C) = n
    <3>1. n <= Con!Cardinality(Alike(raw, w))
      <4>1. /\ Standing(raw, w) < Con!Cardinality(Alike(raw, w))
            /\ Con!Cardinality(Alike(raw, w)) \in Nat
        BY <1>6, StandingsDiffer
      <4> QED
        BY <1>4, <1>6, <4>1
    <3> QED
      BY <1>6, <3>1, StandingsDiffer
  <2>2. C \subseteq B
    <3> SUFFICES ASSUME NEW y \in C PROVE y \in B
      OBVIOUS
    <3>1. y \in raw /\ y[1] = u[1] /\ Con!Size(y) = Con!Size(h) /\ Standing(raw, y) < n
      BY <1>6 DEF Alike
    <3>2. Standing(raw, y) \in Nat
      BY <3>1, StandingsDiffer
    <3>3. y \notin open
      BY <1>5, <1>6, <3>1, <3>2
    <3> QED
      BY <3>1, <3>3 DEF open
  <2> HIDE DEF B, C
  <2> QED
    BY <1>7, <2>1, <2>2, FS_Subset, FinderCounted
<1>9. Con!Cardinality(A) <= n + 1
  <2>1. A \subseteq D
    <3> SUFFICES ASSUME NEW y \in A PROVE y \in D
      OBVIOUS
    <3>1. y \in listed /\ y \in raw /\ y[1] = h[1] /\ Con!Size(y) = Con!Size(h)
      BY <1>1
    <3>2. Con!Size(y) = Con!Size(w) /\ y \in FirstListed(raw, cap) /\ w \in raw \ FirstListed(raw, cap)
      BY <1>6, <3>1
    <3>3. Standing(raw, y) <= n
      BY <1>4, <3>2, ListedComeFirst
    <3>4. Standing(raw, y) \in Nat
      BY <3>1, StandingsDiffer
    <3> QED
      BY <1>6, <3>1, <3>3, <3>4 DEF Alike
  <2>2. Con!IsFiniteSet(Alike(raw, h)) /\ Con!Cardinality(Alike(raw, h)) \in Nat
    BY <1>1, StandingsDiffer
  <2>3. D \subseteq Alike(raw, h)
    OBVIOUS
  <2>4. Con!IsFiniteSet(D) /\ Con!Cardinality(D) <= Con!Cardinality(Alike(raw, h)) /\ Con!Cardinality(D) \in Nat
    <3> HIDE DEF D
    <3>1. Con!IsFiniteSet(D) /\ Con!Cardinality(D) <= Con!Cardinality(Alike(raw, h))
      BY <2>2, <2>3, FS_Subset, FinderCounted
    <3> QED
      BY <3>1, FS_CardinalityType, FinderCounted
  <2>5. CASE n + 1 <= Con!Cardinality(Alike(raw, h))
    <3>1. n + 1 \in Nat
      BY <1>6
    <3>2. Con!Cardinality(D) = n + 1
      BY <1>1, <2>5, <3>1, StandingsDiffer
    <3> HIDE DEF A, D
    <3>3. Con!Cardinality(A) <= Con!Cardinality(D)
      BY <2>1, <2>4, FS_Subset, FinderCounted
    <3> QED
      BY <3>2, <3>3
  <2>6. CASE ~(n + 1 <= Con!Cardinality(Alike(raw, h)))
    <3> HIDE DEF A, D
    <3>1. Con!Cardinality(A) <= Con!Cardinality(D)
      BY <2>1, <2>4, FS_Subset, FinderCounted
    <3> QED
      BY <1>6, <1>7, <2>2, <2>4, <2>6, <3>1
  <2> QED
    BY <2>5, <2>6
<1> HIDE DEF A, B
<1>10. Con!Cardinality(A) <= Con!Cardinality(B) + 1
  BY <1>6, <1>7, <1>8, <1>9
<1> QED
  BY <1>10 DEF A, B

\* The report of a scan shows the largest groups, and is fair to the criteria.
LEMMA LargestAreListed == ASSUME Con!Proper, Con!IInv PROVE Con!LargestFirst
<1> DEFINE finder == s2  Criteria == Finder.Criteria  Keys == Finder.Keys  Caps == Finder.Caps
<1> SUFFICES ASSUME Con!Scan PROVE Con!LargestFirst
  BY DEF Con!LargestFirst
<1>1. PICK criteria \in (SUBSET Criteria) \ {{}}, cap \in Caps :
        finder' = [state |-> "done", criteria |-> criteria, cap |-> cap,
             shown |-> [g \in Con!Listed(UNION {Con!Fetched(criterion, cap) : criterion \in criteria}, cap)
                          |-> Con!Shown(g)],
             truncated |->
               Con!Cardinality(UNION {Con!Fetched(criterion, cap) : criterion \in criteria}) > cap]
  BY DEF Con!Scan
<1> DEFINE raw == UNION {Con!Fetched(criterion, cap) : criterion \in criteria}
           all == Con!Groups(criteria)
           listed == FirstListed(raw, cap)
<1>2. cap \in Nat /\ criteria \in SUBSET Criteria
  BY DEF Con!Proper
<1>3. \A g : g \in raw <=> \E criterion \in criteria : g \in Con!Fetched(criterion, cap)
  OBVIOUS
<1>4. /\ finder'.criteria = criteria /\ finder'.cap = cap
      /\ DOMAIN finder'.shown = Con!Listed(raw, cap)
      /\ finder'.truncated <=> Con!Cardinality(raw) > cap
  BY <1>1
<1> HIDE DEF raw
<1>5. /\ raw \subseteq all /\ Con!IsFiniteSet(raw) /\ Con!Cardinality(raw) \in Nat
      /\ Con!Cardinality(raw) <= cap => raw = all
  BY <1>2, <1>3, LeftHasLike
<1>6. \A some \in SUBSET raw : Con!Cardinality(some) <= cap =>
        \A g \in all \ some : \E w \in raw \ some : w[1] = g[1] /\ Con!Size(w) >= Con!Size(g)
  BY <1>2, <1>3, LeftHasLike
<1>7. raw \in SUBSET (Criteria \X Keys)
  BY <1>2, <1>5, SizesAreNumbers
<1>8. Con!Listed(raw, cap) = listed
  <2>1. \A g \in raw : Con!Cardinality({h \in raw : Con!Interleaved(raw, h, g)})
                         = Ahead(Listing(raw), raw, g)
    BY <1>5, <1>7, ListingOrders
  <2> QED
    BY <2>1 DEF Con!Listed, FirstListed
<1>9. Orders(Listing(raw), raw)
  BY <1>5, <1>7, ListingOrders
<1>10. listed \subseteq raw
  BY DEF FirstListed
<1>11. CASE Con!Cardinality(raw) <= cap
  <2>1. \A g \in raw : Ahead(Listing(raw), raw, g) < cap
    <3> SUFFICES ASSUME NEW g \in raw PROVE Ahead(Listing(raw), raw, g) < cap
      OBVIOUS
    <3>1. /\ Ahead(Listing(raw), raw, g) \in Nat
          /\ Ahead(Listing(raw), raw, g) < Con!Cardinality(raw)
      BY <1>5, <1>9, AheadIsBounded, FinderCounted
    <3> QED
      BY <1>2, <1>5, <1>11, <3>1
  <2>2. listed = all
    BY <1>5, <1>11, <2>1 DEF FirstListed
  <2>3. ~finder'.truncated
    BY <1>2, <1>4, <1>5, <1>11
  <2> HIDE DEF listed, all
  <2> QED
    BY <1>4, <1>8, <2>2, <2>3 DEF Con!LargestFirst, all
<1>12. CASE ~(Con!Cardinality(raw) <= cap)
  <2>1. Con!Cardinality(listed) = cap
    <3>1. cap <= Con!Cardinality(raw)
      BY <1>2, <1>5, <1>12
    <3>2. Con!Cardinality({a \in raw : Ahead(Listing(raw), raw, a) < cap}) = cap
      BY <1>2, <1>5, <1>9, <3>1, FirstAreAsMany, FinderCounted
    <3> QED
      BY <3>2 DEF FirstListed
  <2>2. finder'.truncated
    BY <1>2, <1>4, <1>5, <1>12
  <2>3. all \ listed # {}
    <3>1. raw # listed
      BY <1>2, <1>12, <2>1
    <3> QED
      BY <1>5, <1>10, <3>1
  <2>4. ASSUME NEW g \in all \ listed, NEW h \in listed
        PROVE  /\ Con!Size(g) <= Con!Size(h)
               /\ Con!Size(g) = Con!Size(h) =>
                    Con!Cardinality({x \in listed : x[1] = h[1] /\ Con!Size(x) = Con!Size(g)})
                      <= Con!Cardinality({x \in listed : x[1] = g[1] /\ Con!Size(x) = Con!Size(g)}) + 1
    <3>1. PICK w \in raw \ listed : w[1] = g[1] /\ Con!Size(w) >= Con!Size(g)
      <4>1. Con!Cardinality(listed) <= cap
        BY <1>2, <2>1
      <4> QED
        BY <1>6, <1>10, <2>4, <4>1
    <3>2. Con!Size(h) >= Con!Size(w)
      BY <1>2, <1>5, <1>7, ListedComeFirst
    <3>3. Con!Size(g) \in Nat /\ Con!Size(h) \in Nat /\ Con!Size(w) \in Nat
      BY SizesAreNumbers
    <3>4. Con!Size(g) <= Con!Size(h)
      BY <3>1, <3>2, <3>3
    <3>5. ASSUME Con!Size(g) = Con!Size(h)
          PROVE  Con!Cardinality({x \in listed : x[1] = h[1] /\ Con!Size(x) = Con!Size(g)})
                   <= Con!Cardinality({x \in listed : x[1] = g[1] /\ Con!Size(x) = Con!Size(g)}) + 1
      <4>1. Con!Size(w) = Con!Size(h)
        BY <3>1, <3>2, <3>3, <3>5
      <4>2. listed = FirstListed(raw, cap)
        OBVIOUS
      <4> HIDE DEF listed
      <4>3. Con!Cardinality({x \in listed : x[1] = h[1] /\ Con!Size(x) = Con!Size(h)})
              <= Con!Cardinality({x \in listed : x[1] = w[1] /\ Con!Size(x) = Con!Size(h)}) + 1
        BY <1>2, <1>5, <1>7, <4>1, <4>2, CriteriaAreFair
      <4> QED
        BY <3>1, <3>5, <4>3
    <3> QED
      BY <3>4, <3>5
  <2> HIDE DEF listed, all
  <2>5. listed \subseteq all
    BY <1>5, <1>10
  <2>6. Con!Groups(finder'.criteria) = all /\ DOMAIN finder'.shown = listed /\ finder'.cap = cap
    BY <1>4, <1>8 DEF all
  <2> QED
    BY <2>1, <2>2, <2>3, <2>4, <2>5, <2>6, Zenon DEF Con!LargestFirst
<1> QED
  BY <1>11, <1>12

LEMMA FinderBegins == ASSUME Con!Init PROVE Con!IInv
BY DEF Con!Init, Con!IInv

LEMMA FinderStep == ASSUME Con!IInv, [Con!Next]_(Con!vars) PROVE Con!IInv'
<1> DEFINE Contacts == Finder.Contacts
<1>1. CASE Con!Scan
  BY <1>1 DEF Con!Scan, Con!IInv
<1>2. CASE Con!Reset
  BY <1>2 DEF Con!Reset, Con!IInv
<1>3. CASE Con!Merge
  BY <1>3 DEF Con!Merge, Con!IInv
<1>4. ASSUME NEW c \in Contacts, Con!Edit(c) PROVE Con!IInv'
  BY <1>4 DEF Con!Edit, Con!IInv
<1>5. CASE UNCHANGED Con!vars
  BY <1>5 DEF Con!IInv, Con!vars
<1> QED
  BY <1>1, <1>2, <1>3, <1>4, <1>5 DEF Con!Next

\* However few groups each criterion was asked for, no group that a report leaves out is
\* larger than one that it lists, the flag says whether any is left out, and no criterion is
\* given two groups more than another of the same size (action_scan, _order_groups).
THEOREM LargestAreFirst == Spec => LargestFirst
<1>1. Init => (part = "contacts" => Con!IInv)
  BY FinderBegins DEF Init
<1>2. (part = "contacts" => Con!IInv) /\ [Next]_vars => (part = "contacts" => Con!IInv)'
  <2> SUFFICES ASSUME part = "contacts" => Con!IInv, [Next]_vars, part' = "contacts"
               PROVE  Con!IInv'
    OBVIOUS
  <2>1. part = "contacts" /\ [Con!Next]_(Con!vars)
    BY PartStays DEF Next, vars, Con!vars
  <2> QED
    BY <2>1, FinderStep
<1>3. (part = "contacts" => Con!IInv) /\ [Next]_vars =>
        [part = "contacts" => Con!LargestFirst]_vars
  BY AddOnsAssumption, LargestAreListed
<1> QED
  BY <1>1, <1>2, <1>3, PTL DEF Spec, LargestFirst
-----------------------------------------------------------------------------
(* Downloads: the first free number is found, so no two entries of an      *)
(* archive fold to one, and what is packed is what is found when it is     *)
(* asked for.                                                              *)

LEMMA DownloadsCounted ==
  /\ \A S : Dwn!Cardinality(S) = Cardinality(S)
  /\ \A S : Dwn!IsFiniteSet(S) <=> IsFiniteSet(S)
<1>1. \A S : Dwn!Cardinality(S) = Cardinality(S)
  BY DEF Dwn!Cardinality, Dwn!IsFiniteSet, Cardinality, IsFiniteSet
<1>2. \A S : Dwn!IsFiniteSet(S) <=> IsFiniteSet(S)
  BY DEF Dwn!IsFiniteSet, IsFiniteSet
<1> QED
  BY <1>1, <1>2

\* Two numbers make two names, whatever their letters.
LEMMA NumbersDiffer ==
  ASSUME NEW name, DOMAIN name = {"stem", "upper", "nums"}, name.nums \in Dwn!Seq(Nat),
         NEW n \in Nat, NEW m \in Nat, Dwn!Folded(Dwn!Numbered(name, n)) = Dwn!Folded(Dwn!Numbered(name, m))
  PROVE  n = m
<1> DEFINE nums == name.nums
           Suffixed(k) == IF k = 1 THEN nums ELSE Dwn!Append(nums, k)
<1>1. \A k \in Nat : Dwn!Folded(Dwn!Numbered(name, k)).nums = Suffixed(k)
  <2> SUFFICES ASSUME NEW k \in Nat PROVE Dwn!Folded(Dwn!Numbered(name, k)).nums = Suffixed(k)
    OBVIOUS
  <2>1. /\ "nums" \in DOMAIN Dwn!Numbered(name, k)
        /\ Dwn!Numbered(name, k).nums = Suffixed(k)
    BY DEF Dwn!Numbered
  <2>2. Dwn!Folded(Dwn!Numbered(name, k)).nums = Dwn!Numbered(name, k).nums
    BY <2>1 DEF Dwn!Folded
  <2> QED
    BY <2>1, <2>2
<1>2. Suffixed(n) = Suffixed(m)
  BY <1>1
<1>3. \A k \in Nat : /\ Dwn!Len(Dwn!Append(nums, k)) = Dwn!Len(nums) + 1 /\ Dwn!Len(nums) \in Nat
                     /\ Dwn!Append(nums, k)[Dwn!Len(nums) + 1] = k
  OBVIOUS
<1> HIDE DEF nums
<1>4. CASE n = 1
  <2>1. ~(m # 1)
    <3> SUFFICES ASSUME m # 1 PROVE FALSE
      OBVIOUS
    <3>1. nums = Dwn!Append(nums, m)
      BY <1>2, <1>4
    <3>2. Dwn!Len(nums) = Dwn!Len(nums) + 1 /\ Dwn!Len(nums) \in Nat
      BY <1>3, <3>1
    <3> QED
      BY <3>2
  <2> QED
    BY <1>4, <2>1
<1>5. CASE n # 1
  <2>1. m # 1
    <3> SUFFICES ASSUME m = 1 PROVE FALSE
      OBVIOUS
    <3>1. nums = Dwn!Append(nums, n)
      BY <1>2, <1>5
    <3>2. Dwn!Len(nums) = Dwn!Len(nums) + 1 /\ Dwn!Len(nums) \in Nat
      BY <1>3, <3>1
    <3> QED
      BY <3>2
  <2>2. Dwn!Append(nums, n) = Dwn!Append(nums, m)
    BY <1>2, <1>5, <2>1
  <2>3. Dwn!Append(nums, n)[Dwn!Len(nums) + 1] = n /\ Dwn!Append(nums, m)[Dwn!Len(nums) + 1] = m
    BY <1>3
  <2> QED
    BY <2>2, <2>3
<1> QED
  BY <1>4, <1>5

\* Of one number more than there are names, one is free: the first of them is found.
LEMMA FirstIsFree ==
  ASSUME NEW name, DOMAIN name = {"stem", "upper", "nums"}, name.nums \in Dwn!Seq(Nat),
         NEW used, Dwn!IsFiniteSet(used)
  PROVE  /\ Dwn!FirstFree(name, used) \in Nat
         /\ \A other \in used : Dwn!Folded(Dwn!Numbered(name, Dwn!FirstFree(name, used))) # Dwn!Folded(other)
<1> DEFINE taken == {Dwn!Folded(other) : other \in used}
           size == Dwn!Cardinality(used)
           few == 1..(size + 1)
           Free(n) == Dwn!Folded(Dwn!Numbered(name, n)) \notin taken
           open == {n \in few : Free(n)}
<1>1. size \in Nat
  BY FS_CardinalityType, DownloadsCounted
<1>2. Dwn!IsFiniteSet(taken) /\ Dwn!Cardinality(taken) \in Nat /\ Dwn!Cardinality(taken) <= size
  <2> DEFINE fold == [other \in used |-> Dwn!Folded(other)]
  <2>1. fold \in Surjection(used, taken)
    BY DEF Surjection
  <2> HIDE DEF fold, taken
  <2> QED
    BY <2>1, FS_Surjection, FS_CardinalityType, DownloadsCounted
<1>3. Dwn!IsFiniteSet(few) /\ Dwn!Cardinality(few) = size + 1
  <2>1. 1 \in Int /\ size + 1 \in Int /\ ~(1 > size + 1) /\ (size + 1) - 1 + 1 = size + 1
    BY <1>1
  <2> HIDE DEF size
  <2>2. /\ Dwn!IsFiniteSet(1..(size + 1))
        /\ Dwn!Cardinality(1..(size + 1)) = IF 1 > size + 1 THEN 0 ELSE (size + 1) - 1 + 1
    BY <2>1, FS_Interval, DownloadsCounted
  <2> QED
    BY <2>1, <2>2
<1>4. \E n \in few : Free(n)
  <2> SUFFICES ASSUME \A n \in few : ~Free(n) PROVE FALSE
    OBVIOUS
  <2> DEFINE given == [n \in few |-> Dwn!Folded(Dwn!Numbered(name, n))]
  <2>1. \A n \in few, m \in few : given[n] = given[m] => n = m
    <3>1. \A n \in few : n \in Nat
      BY <1>1
    <3> HIDE DEF few
    <3> QED
      BY <3>1, NumbersDiffer
  <2>2. \A n \in few : given[n] \in taken
    OBVIOUS
  <2>3. given \in Injection(few, taken)
    <3> HIDE DEF few, taken
    <3> QED
      BY <2>1, <2>2 DEF Injection, IsInjective
  <2> HIDE DEF given, few, taken
  <2>4. Dwn!Cardinality(few) <= Dwn!Cardinality(taken)
    BY <1>2, <2>3, FS_Injection, DownloadsCounted
  <2> HIDE DEF size
  <2> QED
    BY <1>1, <1>2, <1>3, <2>4
<1>5. open \in SUBSET Nat /\ open # {}
  <2>1. open \subseteq few /\ few \subseteq Nat
    BY <1>1
  <2> HIDE DEF few, Free
  <2> QED
    BY <1>4, <2>1
<1>6. PICK n \in open : \A m \in open : n <= m
  <2> HIDE DEF open
  <2> QED
    BY <1>5, LeastIsThere
<1>7. n \in few /\ Free(n) /\ \A m \in 1..(n - 1) : ~Free(m)
  <2>1. \A m \in 1..(n - 1) : m \in few /\ ~(n <= m)
    BY <1>1, <1>6
  <2> HIDE DEF few, Free
  <2> QED
    BY <1>6, <2>1
<1>8. Dwn!FirstFree(name, used) = CHOOSE k \in few : Free(k) /\ \A m \in 1..(k - 1) : ~Free(m)
  BY DEF Dwn!FirstFree
<1>9. Dwn!FirstFree(name, used) \in few /\ Free(Dwn!FirstFree(name, used))
  <2> HIDE DEF few, Free
  <2> QED
    BY <1>7, <1>8
<1> QED
  BY <1>1, <1>9

\* what an archive of the files S may hold
Entries(S) ==
  {[folder |-> Downloads.Folder[Downloads.Of[a]], name |-> Dwn!Numbered(Downloads.Name[a], n),
    of |-> a] : a \in S, n \in Nat}

\* no two entries fold to one
Apart(es) ==
  \A i, j \in DOMAIN es : i # j =>
    <<es[i].folder, Dwn!Folded(es[i].name)>> # <<es[j].folder, Dwn!Folded(es[j].name)>>

LEMMA AddedIsSound ==
  ASSUME Dwn!Proper, NEW S \in SUBSET Downloads.Attachments,
         NEW es \in Dwn!Seq(Entries(S)), Apart(es), NEW a \in S
  PROVE  Dwn!Added(es, a) \in Dwn!Seq(Entries(S)) /\ Apart(Dwn!Added(es, a))
<1> DEFINE Of == Downloads.Of  Folder == Downloads.Folder  Name == Downloads.Name
<1> DEFINE folder == Folder[Of[a]]
           same == {x \in Dwn!Members(es) : x.folder = folder}
           used == {e.name : e \in same}
           number == Dwn!FirstFree(Name[a], used)
           new == [folder |-> folder, name |-> Dwn!Numbered(Name[a], number), of |-> a]
           next == Dwn!Append(es, new)
<1>1. Dwn!IsFiniteSet(used)
  <2> DEFINE at == [i \in DOMAIN es |-> es[i]]
             named == [e \in same |-> e.name]
  <2>1. Dwn!IsFiniteSet(DOMAIN es)
    <3>1. DOMAIN es = 1..Dwn!Len(es) /\ Dwn!Len(es) \in Int /\ 1 \in Int
      OBVIOUS
    <3> QED
      BY <3>1, FS_Interval, DownloadsCounted
  <2>2. at \in Surjection(DOMAIN es, Dwn!Members(es))
    BY DEF Surjection, Dwn!Members
  <2>3. Dwn!IsFiniteSet(Dwn!Members(es))
    <3> HIDE DEF at
    <3> QED
      BY <2>1, <2>2, FS_Surjection, DownloadsCounted
  <2>4. Dwn!IsFiniteSet(same)
    BY <2>3, FS_Subset, DownloadsCounted
  <2> HIDE DEF same
  <2>5. named \in Surjection(same, used)
    BY DEF Surjection
  <2> HIDE DEF named, used
  <2> QED
    BY <2>4, <2>5, FS_Surjection, DownloadsCounted
<1>2. /\ number \in Nat
      /\ \A other \in used : Dwn!Folded(Dwn!Numbered(Name[a], number)) # Dwn!Folded(other)
  <2>1. DOMAIN Name[a] = {"stem", "upper", "nums"} /\ Name[a].nums \in Dwn!Seq(Nat)
    BY DEF Dwn!Proper
  <2> HIDE DEF used
  <2> QED
    BY <1>1, <2>1, FirstIsFree
<1>3. Dwn!Added(es, a) = next
  BY DEF Dwn!Added
<1>4. new \in Entries(S)
  <2> HIDE DEF number
  <2> QED
    BY <1>2 DEF Entries
<1> HIDE DEF number
<1>5. new.folder = folder /\ new.name = Dwn!Numbered(Name[a], number)
  OBVIOUS
<1> HIDE DEF new
<1>6. /\ next \in Dwn!Seq(Entries(S)) /\ DOMAIN next = 1..(Dwn!Len(es) + 1) /\ DOMAIN es = 1..Dwn!Len(es)
      /\ Dwn!Len(es) \in Nat /\ next[Dwn!Len(es) + 1] = new
      /\ \A i \in 1..Dwn!Len(es) : next[i] = es[i]
  BY <1>4
<1>7. \A i \in 1..Dwn!Len(es) :
        <<es[i].folder, Dwn!Folded(es[i].name)>> # <<new.folder, Dwn!Folded(new.name)>>
  <2> SUFFICES ASSUME NEW i \in 1..Dwn!Len(es), es[i].folder = folder
               PROVE  Dwn!Folded(es[i].name) # Dwn!Folded(new.name)
    BY <1>5
  <2>1. es[i] \in same
    BY <1>6 DEF Dwn!Members
  <2>2. es[i].name \in used
    BY <2>1
  <2> HIDE DEF used
  <2> QED
    BY <1>2, <1>5, <2>2
<1> HIDE DEF next
<1>8. Apart(next)
  <2> SUFFICES ASSUME NEW i \in DOMAIN next, NEW j \in DOMAIN next, i # j
               PROVE  <<next[i].folder, Dwn!Folded(next[i].name)>> # <<next[j].folder, Dwn!Folded(next[j].name)>>
    BY DEF Apart
  <2>1. CASE i \in 1..Dwn!Len(es) /\ j \in 1..Dwn!Len(es)
    BY <1>6, <2>1 DEF Apart
  <2>2. CASE i \in 1..Dwn!Len(es) /\ j = Dwn!Len(es) + 1
    BY <1>6, <1>7, <2>2
  <2>3. CASE i = Dwn!Len(es) + 1 /\ j \in 1..Dwn!Len(es)
    <3>1. <<es[j].folder, Dwn!Folded(es[j].name)>> # <<new.folder, Dwn!Folded(new.name)>>
      BY <1>7, <2>3
    <3>2. next[i] = new /\ next[j] = es[j]
      BY <1>6, <2>3
    <3> QED
      BY <3>1, <3>2
  <2> QED
    BY <1>6, <2>1, <2>2, <2>3
<1> QED
  BY <1>3, <1>6, <1>8

\* what f gives after each of the first k files
IsPacking(files, f, k) ==
  f = [n \in 0..k |-> IF n = 0 THEN <<>> ELSE Dwn!Added(f[n - 1], files[n])]

\* Packing is the function its recursive definition describes.
LEMMA PackingIsThere ==
  ASSUME NEW files, NEW B \in Nat
  PROVE  \E f : IsPacking(files, f, B)
<1> DEFINE Missing == {k \in 0..B : ~ \E f : IsPacking(files, f, k)}
<1>1. \E f : IsPacking(files, f, 0)
  <2> DEFINE f == [n \in 0..0 |-> <<>>]
  <2>1. IsPacking(files, f, 0)
    BY DEF IsPacking
  <2> QED
    BY <2>1
<1>2. ASSUME NEW k \in Nat, \E f : IsPacking(files, f, k) PROVE \E f : IsPacking(files, f, k + 1)
  <2>1. PICK f : IsPacking(files, f, k)
    BY <1>2
  <2> DEFINE g == [n \in 0..(k + 1) |-> IF n = k + 1 THEN Dwn!Added(f[k], files[n]) ELSE f[n]]
  <2>2. \A n \in 0..(k + 1) :
          g[n] = IF n = 0 THEN <<>> ELSE Dwn!Added(g[n - 1], files[n])
    <3> SUFFICES ASSUME NEW n \in 0..(k + 1)
                 PROVE  g[n] = IF n = 0 THEN <<>> ELSE Dwn!Added(g[n - 1], files[n])
      OBVIOUS
    <3>1. CASE n = k + 1
      <4>1. /\ g[n] = Dwn!Added(f[k], files[n]) /\ n - 1 = k /\ n # 0
            /\ k # k + 1 /\ k \in 0..(k + 1)
        BY <3>1
      <4>2. g[k] = f[k]
        BY <4>1
      <4> QED
        BY <4>1, <4>2
    <3>2. CASE n = 0
      <4>1. f[n] = <<>>
        BY <2>1, <3>2 DEF IsPacking
      <4> QED
        BY <3>2, <4>1
    <3>3. CASE n \in 1..k
      <4>1. n \in 0..k /\ n # 0 /\ n # k + 1 /\ n - 1 \in 0..(k + 1) /\ n - 1 # k + 1
        BY <3>3
      <4>2. f[n] = Dwn!Added(f[n - 1], files[n])
        BY <2>1, <4>1 DEF IsPacking
      <4>3. g[n] = f[n] /\ g[n - 1] = f[n - 1]
        BY <4>1
      <4> QED
        BY <4>1, <4>2, <4>3
    <3> QED
      BY <3>1, <3>2, <3>3
  <2>3. g = [n \in 0..(k + 1) |-> g[n]]
    OBVIOUS
  <2> HIDE DEF g
  <2>4. IsPacking(files, g, k + 1)
    BY <2>2, <2>3 DEF IsPacking
  <2> QED
    BY <2>4
<1> SUFFICES ASSUME ~ \E f : IsPacking(files, f, B) PROVE FALSE
  OBVIOUS
<1>3. B \in Missing /\ Missing \in SUBSET Nat
  OBVIOUS
<1>4. PICK k \in Missing : \A j \in Missing : k <= j
  <2> HIDE DEF Missing
  <2> QED
    BY <1>3, LeastIsThere
<1>5. k # 0 /\ k \in 0..B /\ ~ \E f : IsPacking(files, f, k)
  BY <1>1, <1>4
<1>6. k - 1 \in Nat /\ k - 1 \in 0..B /\ ~(k <= k - 1) /\ (k - 1) + 1 = k
  BY <1>5
<1>7. \E f : IsPacking(files, f, k - 1)
  BY <1>4, <1>6
<1>8. \E f : IsPacking(files, f, (k - 1) + 1)
  BY <1>2, <1>6, <1>7
<1> QED
  BY <1>5, <1>6, <1>8

\* the pairs of S of which the first goes before
Earlier(S) == {x \in S \X S : Dwn!Before(x[1], x[2])}

\* The files in order are files.
LEMMA OrderedAreFiles ==
  ASSUME Dwn!Proper, NEW S \in SUBSET Downloads.Attachments
  PROVE  Dwn!InOrder(S) \in Dwn!Seq(S) /\ Dwn!Len(Dwn!InOrder(S)) \in Nat
<1> DEFINE Of == Downloads.Of
<1> DEFINE Nth(n) == CHOOSE a \in S : Dwn!Cardinality({b \in S : Dwn!Before(b, a)}) = n - 1
           size == Dwn!Cardinality(S)
<1>1. Dwn!IsFiniteSet(S) /\ size \in Nat
  BY FS_Subset, FS_CardinalityType, DownloadsCounted DEF Dwn!Proper
<1>2. \A a \in S : a \in Int /\ Of[a] \in Int
  BY DEF Dwn!Proper
<1>3. Orders(Earlier(S), S)
  <2>1. \A a \in S, b \in S : <<a, b>> \in Earlier(S) <=> Dwn!Before(a, b)
    BY DEF Earlier
  <2>2. \A a \in S : ~Dwn!Before(a, a)
    BY <1>2 DEF Dwn!Before
  <2>3. \A a \in S, b \in S, c \in S : Dwn!Before(a, b) /\ Dwn!Before(b, c) => Dwn!Before(a, c)
    BY <1>2 DEF Dwn!Before
  <2>4. \A a \in S, b \in S : a # b => Dwn!Before(a, b) \/ Dwn!Before(b, a)
    BY <1>2 DEF Dwn!Before
  <2> QED
    BY <2>1, <2>2, <2>3, <2>4 DEF Orders
<1>4. ASSUME NEW a \in S
      PROVE  Dwn!Cardinality({b \in S : Dwn!Before(b, a)}) = Ahead(Earlier(S), S, a)
  <2>1. {b \in S : Dwn!Before(b, a)} = {b \in S : <<b, a>> \in Earlier(S)}
    BY DEF Earlier
  <2> QED
    BY <2>1, DownloadsCounted DEF Ahead
<1>5. \A n \in 1..size : Nth(n) \in S
  <2> SUFFICES ASSUME NEW n \in 1..size PROVE Nth(n) \in S
    OBVIOUS
  <2>1. n - 1 \in 0..(size - 1)
    BY <1>1
  <2>2. \E a \in S : Ahead(Earlier(S), S, a) = n - 1
    <3>1. \A k \in 0..(Dwn!Cardinality(S) - 1) : \E a \in S : Ahead(Earlier(S), S, a) = k
      BY <1>1, <1>3, AheadIsExact, DownloadsCounted
    <3> QED
      BY <2>1, <3>1
  <2>3. \E a \in S : Dwn!Cardinality({b \in S : Dwn!Before(b, a)}) = n - 1
    BY <1>4, <2>2
  <2> QED
    BY <2>3
<1>6. Dwn!InOrder(S) = [n \in 1..size |-> Nth(n)]
  BY DEF Dwn!InOrder
<1> HIDE DEF Nth, size
<1>7. Dwn!InOrder(S) \in Dwn!Seq(S)
  BY <1>1, <1>5, <1>6
<1> QED
  BY <1>7

\* What is packed are entries of the files, apart from each other.
LEMMA PackedIsSound ==
  ASSUME Dwn!Proper, NEW S \in SUBSET Downloads.Attachments
  PROVE  Dwn!Packed(S) \in Dwn!Seq(Entries(S)) /\ Apart(Dwn!Packed(S))
<1> DEFINE Attachments == Downloads.Attachments  Recorded == Downloads.Recorded
           Real == Downloads.Real
<1> DEFINE kept == {a \in S : Real[a] > 0 \/ Recorded[a] = 0}
           files == Dwn!InOrder(kept)
           after == CHOOSE f : IsPacking(files, f, Dwn!Len(files))
           Good(es) == es \in Dwn!Seq(Entries(kept)) /\ Apart(es)
           Wrong == {k \in 0..Dwn!Len(files) : ~Good(after[k])}
<1>1. kept \in SUBSET Attachments /\ kept \subseteq S
  OBVIOUS
<1>2. files \in Dwn!Seq(kept) /\ Dwn!Len(files) \in Nat
  <2> HIDE DEF kept
  <2> QED
    BY <1>1, OrderedAreFiles
<1>3. Dwn!Packed(S) = after[Dwn!Len(files)]
  BY DEF Dwn!Packed, IsPacking
<1> HIDE DEF files
<1>4. IsPacking(files, after, Dwn!Len(files))
  BY <1>2, PackingIsThere
<1> HIDE DEF after, kept
<1>5. \A n \in 0..Dwn!Len(files) :
        after[n] = IF n = 0 THEN <<>> ELSE Dwn!Added(after[n - 1], files[n])
  BY <1>4 DEF IsPacking
<1>6. Good(<<>>)
  BY DEF Apart
<1>7. ASSUME NEW n \in 1..Dwn!Len(files), Good(after[n - 1]) PROVE Good(after[n])
  <2>1. n \in 0..Dwn!Len(files) /\ n # 0 /\ files[n] \in kept
    BY <1>2
  <2>2. after[n] = Dwn!Added(after[n - 1], files[n])
    BY <1>5, <2>1
  <2>3. after[n - 1] \in Dwn!Seq(Entries(kept)) /\ Apart(after[n - 1])
    BY <1>7
  <2>4. Good(Dwn!Added(after[n - 1], files[n]))
    BY <1>1, <2>1, <2>3, AddedIsSound
  <2> HIDE DEF Good
  <2> QED
    BY <2>2, <2>4
<1> HIDE DEF Good
<1>8. Good(after[Dwn!Len(files)])
  <2> SUFFICES ASSUME ~Good(after[Dwn!Len(files)]) PROVE FALSE
    OBVIOUS
  <2>1. Dwn!Len(files) \in Wrong /\ Wrong \in SUBSET Nat
    BY <1>2
  <2>2. PICK k \in Wrong : \A j \in Wrong : k <= j
    <3> HIDE DEF Wrong
    <3> QED
      BY <2>1, LeastIsThere
  <2>3. k \in 0..Dwn!Len(files) /\ ~Good(after[k])
    BY <2>2
  <2>4. after[0] = <<>>
    BY <1>2, <1>5
  <2>5. k # 0
    BY <1>6, <2>3, <2>4
  <2>6. k \in 1..Dwn!Len(files) /\ k - 1 \in 0..Dwn!Len(files) /\ ~(k <= k - 1)
    BY <1>2, <2>3, <2>5
  <2>7. Good(after[k - 1])
    BY <2>2, <2>6
  <2> QED
    BY <1>7, <2>3, <2>6, <2>7
<1>9. Entries(kept) \subseteq Entries(S)
  BY <1>1 DEF Entries
<1>10. after[Dwn!Len(files)] \in Dwn!Seq(Entries(kept)) /\ Apart(after[Dwn!Len(files)])
  BY <1>8 DEF Good
<1>11. after[Dwn!Len(files)] \in Dwn!Seq(Entries(S))
  BY <1>9, <1>10
<1> QED
  BY <1>3, <1>10, <1>11

LEMMA ArchivesStart == ASSUME Dwn!Init PROVE Dwn!IInv
BY DEF Dwn!Init, Dwn!IInv

LEMMA FilesStay == ASSUME Dwn!IInv, [Dwn!Next]_(Dwn!vars) PROVE Dwn!IInv'
<1> DEFINE Users == Downloads.Users  Records == Downloads.Records
           Attachments == Downloads.Attachments  Limits == Downloads.Limits
<1>1. CASE UNCHANGED Dwn!vars
  BY <1>1 DEF Dwn!IInv, Dwn!vars
<1>2. ASSUME NEW u \in Users, Dwn!Download(u) \/ Dwn!Build(u) PROVE Dwn!IInv'
  BY <1>2 DEF Dwn!IInv, Dwn!Download, Dwn!Build
<1>3. ASSUME NEW u \in Users, NEW r \in Records, Dwn!ChangeAccess(u, r) PROVE Dwn!IInv'
  BY <1>3 DEF Dwn!IInv, Dwn!ChangeAccess
<1>4. ASSUME NEW a \in Attachments, Dwn!Attach(a) PROVE Dwn!IInv'
  BY <1>4 DEF Dwn!IInv, Dwn!Attach
<1>5. ASSUME NEW n \in Limits, Dwn!SetLimit(n) PROVE Dwn!IInv'
  BY <1>5 DEF Dwn!IInv, Dwn!SetLimit
<1> QED
  BY <1>1, <1>2, <1>3, <1>4, <1>5 DEF Dwn!Next

\* What a controller packs is of what it finds, and apart.
LEMMA ArchivesSound ==
  ASSUME Dwn!Proper, Dwn!IInv PROVE Dwn!ArchiveSound
<1> DEFINE there == s1  readable == s2  limit == s3  wizard == s4  archive == s5
           Users == Downloads.Users  Attachments == Downloads.Attachments  Of == Downloads.Of
           Real == Downloads.Real
<1> SUFFICES ASSUME NEW u \in Users, Dwn!Build(u)
             PROVE  LET es == archive'.entries
                        files == {e.of : e \in Dwn!Members(es)}
                    IN  /\ \A a \in files : a \in there /\ Of[a] \in wizard.ids \cap readable[u]
                        /\ limit > 0 => Dwn!Total(files, Real) <= limit
                        /\ \A i, j \in DOMAIN es : i # j =>
                             <<es[i].folder, Dwn!Folded(es[i].name)>> # <<es[j].folder, Dwn!Folded(es[j].name)>>
  BY DEF Dwn!ArchiveSound
<1> DEFINE found == Dwn!Found(u, wizard.ids)
           es == Dwn!Packed(found)
           files == {e.of : e \in Dwn!Members(es)}
<1>1. /\ archive' = [by |-> u, entries |-> es]
      /\ limit > 0 => Dwn!Total(files, Real) <= limit
  BY DEF Dwn!Build
<1>2. archive'.entries = es
  BY <1>1
<1>3. found \in SUBSET Attachments
  BY DEF Dwn!Found, Dwn!IInv
<1>4. es \in Dwn!Seq(Entries(found)) /\ Apart(es)
  <2> HIDE DEF found
  <2> QED
    BY <1>3, PackedIsSound
<1> HIDE DEF es
<1>5. \A a \in files : a \in found
  <2>1. \A e \in Dwn!Members(es) : e \in Entries(found)
    BY <1>4 DEF Dwn!Members
  <2>2. \A e \in Entries(found) : e.of \in found
    BY DEF Entries
  <2> HIDE DEF found
  <2> QED
    BY <2>1, <2>2
<1>6. \A a \in files : a \in there /\ Of[a] \in wizard.ids \cap readable[u]
  BY <1>5 DEF Dwn!Found
<1> QED
  BY <1>1, <1>2, <1>4, <1>6 DEF Apart

\* [][part = "download" => Dwn!ArchiveSound]_vars: what is packed is of the selected
\* records, of those the one who asks may read by then, within the limit of that moment,
\* and no two entries fold to one.
THEOREM ArchivesAreSound == Spec => ArchiveSound
<1>1. Init => (part = "download" => Dwn!IInv)
  BY ArchivesStart DEF Init
<1>2. (part = "download" => Dwn!IInv) /\ [Next]_vars => (part = "download" => Dwn!IInv)'
  <2> SUFFICES ASSUME part = "download" => Dwn!IInv, [Next]_vars, part' = "download"
               PROVE  Dwn!IInv'
    OBVIOUS
  <2>1. part = "download" /\ [Dwn!Next]_(Dwn!vars)
    BY PartStays DEF Next, vars, Dwn!vars
  <2> QED
    BY <2>1, FilesStay
<1>3. (part = "download" => Dwn!IInv) /\ [Next]_vars =>
        [part = "download" => Dwn!ArchiveSound]_vars
  BY AddOnsAssumption, ArchivesSound
<1> QED
  BY <1>1, <1>2, <1>3, PTL DEF Spec, ArchiveSound
=============================================================================
