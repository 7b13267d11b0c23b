----------------------------- MODULE ExternalIds -----------------------------
(***************************************************************************)
(* external_id_manager: a screen over ir.model.data.  The badge of a line  *)
(* is computed from the lines shown, the filters on it from one query per  *)
(* model; administrators delete external identifiers that are broken.      *)
(***************************************************************************)
EXTENDS Integers, FiniteSets

CONSTANTS
  Entries,
  Models,       \* numbers: the order of their names
  NoModel,
  Searchable,   \* models with a field to search a name on
  Readable,     \* models the user may read
  Ids,          \* ids of records: numbers from 1; 0 is no record
  Name,         \* [Models -> [Ids -> a name]]
  ModelLimit,   \* NAME_SEARCH_MODEL_LIMIT
  HitLimit,     \* NAME_SEARCH_HIT_LIMIT
  MaxEdits

VARIABLES
  entry,        \* [a subset of Entries -> [model, res]]: ir_model_data
  installed,    \* the models of the registry, with their tables
  rows,         \* [Models -> SUBSET Ids]: the records of their tables
  gone,         \* [Models -> SUBSET Ids]: ids that were deleted: none comes back
  request,      \* a deletion of broken entries
  edits

vars == <<entry, installed, rows, gone, request, edits>>

Live == DOMAIN entry

-----------------------------------------------------------------------------
(* The badge: _resolve, on the lines of the list *)

Badge(table, e) ==
  LET m == table[e].model
  IN  CASE m \notin installed -> "unknown_model"
        [] m \in installed /\ table[e].res \in rows[m] \ {0} -> "ok"
        [] OTHER -> "broken"

-----------------------------------------------------------------------------
(* The filters: _status_ids, on the whole table *)

Unknown ==
  {e \in Live : entry[e].model = NoModel}
    \cup {e \in Live : entry[e].model \in Models \ installed}

\* mutant: a join without the rows that point at nothing
BrokenJoined ==
  {e \in Live : entry[e].model \in installed /\ entry[e].res # 0
                  /\ entry[e].res \notin rows[entry[e].model]}

Broken ==
  {e \in Live : entry[e].model \in installed
                  /\ (entry[e].res = 0 \/ entry[e].res \notin rows[entry[e].model])}

\* a domain on the id
In(ids, positive) == IF positive THEN Live \cap ids ELSE Live \ ids

\* _search_is_broken
SearchBroken(values, positive) ==
  CASE values = {TRUE}  -> In(Broken, positive)
    [] values = {FALSE} -> In(Broken, ~positive)
    [] OTHER -> In({}, ~((values # {}) = positive))

\* _search_record_status
SearchStatus(values, positive) ==
  IF "ok" \in values
  THEN In((IF "broken" \in values THEN {} ELSE Broken)
            \cup (IF "unknown_model" \in values THEN {} ELSE Unknown), ~positive)
  ELSE In((IF "broken" \in values THEN Broken ELSE {})
            \cup (IF "unknown_model" \in values THEN Unknown ELSE {}), positive)

\* the first n: visited >= NAME_SEARCH_MODEL_LIMIT, limit=NAME_SEARCH_HIT_LIMIT
First(n, S) == {x \in S : Cardinality({y \in S : y < x}) < n}

\* name_search of one model: the first hits
Hits(m, name) == First(HitLimit, {r \in rows[m] : Name[m][r] = name})

\* _search_record_name
SearchName(name, positive) ==
  LET asked == {m \in installed \cap Searchable : \E e \in Live : entry[e].model = m}
      visited == First(ModelLimit, asked) \cap Readable
  IN  In({e \in Live : entry[e].model \in visited
                         /\ entry[e].res \in Hits(entry[e].model, name)}, positive)

-----------------------------------------------------------------------------
(* Deletion *)

NoRequest == [selected |-> {}]

\* a row that is written or deleted after the snapshot of the request
Spoil(es) ==
  IF request.selected = {} THEN request ELSE [request EXCEPT !.touched = @ \cup es]

\* action_delete_broken: refused when one of them is not broken
AcceptedSome(selected) == \E e \in selected : Badge(entry, e) = "broken"
Accepted(selected) == \A e \in selected : Badge(entry, e) = "broken"

DeleteStart ==
  /\ request.selected = {}
  /\ \E selected \in (SUBSET Live) \ {{}} :
       /\ Accepted(selected)
       /\ request' = [selected |-> selected, touched |-> {}]
  /\ UNCHANGED <<entry, installed, rows, gone, edits>>

DeleteCommit ==
  /\ request.selected # {} /\ request.touched \cap request.selected = {}
  /\ entry' = [e \in Live \ request.selected |-> entry[e]]
  /\ request' = NoRequest
  /\ UNCHANGED <<installed, rows, gone, edits>>

\* a row was written since, or something else failed
DeleteFails ==
  /\ request.selected # {}
  /\ request' = NoRequest
  /\ UNCHANGED <<entry, installed, rows, gone, edits>>

-----------------------------------------------------------------------------
(* Everybody else *)

Editing == edits < MaxEdits /\ edits' = edits + 1

\* a data file or a spreadsheet names a record, with a new identifier or an old one
Import(e, m, r) ==
  /\ Editing /\ m \in installed /\ r \in rows[m]
  /\ entry' = [x \in Live \cup {e} |-> IF x = e THEN [model |-> m, res |-> r] ELSE entry[x]]
  /\ request' = Spoil({e})
  /\ UNCHANGED <<installed, rows, gone>>

CreateRecord(m, r) ==
  /\ Editing /\ m \in installed /\ r \notin rows[m] \cup gone[m]
  /\ rows' = [rows EXCEPT ![m] = @ \cup {r}]
  /\ UNCHANGED <<entry, installed, gone, request>>

\* deleted by the database: with the ORM the identifiers go too
DeleteRecord(m, r) ==
  /\ Editing /\ m \in installed /\ r \in rows[m]
  /\ rows' = [rows EXCEPT ![m] = @ \ {r}]
  /\ gone' = [gone EXCEPT ![m] = @ \cup {r}]
  /\ \E orm \in BOOLEAN :
       LET named == {e \in Live : orm /\ entry[e].model = m /\ entry[e].res = r}
       IN  /\ entry' = [e \in Live \ named |-> entry[e]]
           /\ request' = Spoil(named)
  /\ UNCHANGED installed

Uninstall(m) ==
  /\ Editing /\ m \in installed
  /\ installed' = installed \ {m} /\ UNCHANGED <<entry, rows, gone, request>>

Init ==
  /\ entry \in [Entries -> [model : Models, res : {0} \cup Ids] \cup [model : {NoModel}, res : {0}]]
  /\ installed \in SUBSET Models
  /\ rows \in [Models -> SUBSET Ids]
  /\ gone = [m \in Models |-> {entry[e].res : e \in {x \in Entries : entry[x].model = m}} \ ({0} \cup rows[m])]
  /\ request = NoRequest /\ edits = 0

Next ==
  \/ DeleteStart \/ DeleteCommit \/ DeleteFails
  \/ \E e \in Entries, m \in Models, r \in Ids : Import(e, m, r)
  \/ \E m \in Models : Uninstall(m) \/ \E r \in Ids : CreateRecord(m, r) \/ DeleteRecord(m, r)

Spec == Init /\ [][Next]_vars

-----------------------------------------------------------------------------
(* Properties *)

\* "the badge on a line and the status filters can never disagree": a filter, in
\* either form and for any set of values, finds exactly the lines whose badge it
\* names, and a search by name only lines that show that name.
BadgeAgrees ==
  /\ \A values \in SUBSET {"ok", "broken", "unknown_model"}, positive \in BOOLEAN :
       SearchStatus(values, positive) = {e \in Live : Badge(entry, e) \in values <=> positive}
  /\ \A values \in SUBSET BOOLEAN, positive \in BOOLEAN :
       SearchBroken(values, positive) =
         {e \in Live : (\E v \in values : v <=> Badge(entry, e) = "broken") <=> positive}
  /\ \A m \in Models, r \in Ids : \A e \in SearchName(Name[m][r], TRUE) :
       Badge(entry, e) = "ok" /\ Name[entry[e].model][entry[e].res] = Name[m][r]

\* "live external IDs are never deleted here": when the deletion takes place none
\* of them points at a record, whatever was imported while it ran.
LiveKept ==
  DeleteCommit => \A e \in Live \ DOMAIN entry' : Badge(entry, e) # "ok"

-----------------------------------------------------------------------------
(* The inductive invariant *)

Proper == NoModel \notin Models /\ 0 \notin Ids

TableTyped ==
  /\ installed \subseteq Models
  /\ rows = [m \in Models |-> rows[m]] /\ \A m \in Models : rows[m] \subseteq Ids
  /\ \A e \in Live : entry[e].model \in Models \cup {NoModel}

\* an entry names a record that is there or was there, and no id comes back
IdsKnown ==
  /\ gone = [m \in Models |-> gone[m]] /\ \A m \in Models : gone[m] \cap rows[m] = {}
  /\ \A e \in Live : entry[e].model \in Models =>
       entry[e].res \in {0} \cup rows[entry[e].model] \cup gone[entry[e].model]

\* what is being deleted names nothing, unless it was written since
SelectedDead ==
  request.selected # {} =>
    /\ request = [selected |-> request.selected, touched |-> request.touched]
    /\ \A e \in request.selected \ request.touched : e \in Live /\ Badge(entry, e) # "ok"

IInv == TableTyped /\ IdsKnown /\ SelectedDead
=============================================================================
