--------------------------- MODULE MenuVisibility ---------------------------
(***************************************************************************)
(* menu_access_visibility: administrators change the groups of menu items, *)
(* from the items or from the groups, and preview the menu of a user.      *)
(*                                                                         *)
(* What a user sees is answered from a cache of the worker that serves the *)
(* request.  A worker that changes groups drops its own cache, commits,    *)
(* and then signals the others, which drop theirs when they begin their    *)
(* next request.  A worker serves one request at a time.                   *)
(***************************************************************************)
EXTENDS Naturals, TLAPS

CONSTANTS
  Menus, Root,
  Parent,       \* [Menus -> Menus \cup {Root}]
  Folders,      \* menus without an action
  Openable,     \* menus whose action exists, on a model the user may read
  Groups,
  Held,         \* the groups of the user, implied ones included
  Refusing,     \* menus that cannot be written
  Workers,
  Nothing,      \* an empty cache
  MaxEdits      \* changes of groups

VARIABLES
  groups,       \* [Menus -> SUBSET Groups]
  cache,        \* [Workers -> the visible menus, or Nothing]
  signalled,    \* the workers that are to drop their cache
  request,      \* [Workers -> the request it serves]
  shown,        \* what the preview that has just ended says of each menu
  edits

vars == <<groups, cache, signalled, request, shown, edits>>

Idle == [pc |-> "idle"]

-----------------------------------------------------------------------------
(* What Odoo answers *)

Chain[m \in Menus] ==
  IF Parent[m] = Root THEN {} ELSE {Parent[m]} \cup Chain[Parent[m]]

\* _visible_menu_ids: an item by its groups and its action, a folder by its
\* groups and what is below it
Visible(gs) ==
  LET allowed == {m \in Menus : gs[m] = {} \/ gs[m] \cap Held # {}}
      items == allowed \cap Openable
  IN  items \cup {m \in allowed \cap Folders : \E item \in items :
        m \in Chain[item] /\ {x \in Chain[item] : m \in Chain[x]} \subseteq allowed \cap Folders}

\* reachable: what the client draws
Drawn(visible) == {m \in visible : Chain[m] \subseteq visible}

-----------------------------------------------------------------------------
(* What the screens say *)

\* _mav_actions, and the read access on the model of the action
Action(m) ==
  CASE m \in Folders -> "folder" [] m \in Openable \ Folders -> "readable" [] OTHER -> "barred"

\* mutant: the groups of the nearest parent only
RequiredNearby(gs, m) == {gs[x] : x \in {m} \cup ({Parent[m]} \ {Root})} \ {{}}

\* _compute_mav_visibility: the groups on the item, and those every parent asks for
Required(gs, m) == {gs[x] : x \in {m} \cup Chain[m]} \ {{}}

\* mav_summary, mav_explanation: who sees an item, for the user at hand
Admits(gs, m) ==
  Action(m) = "readable" /\ \A asked \in Required(gs, m) : asked \cap Held # {}

\* mutant: the parent it hangs on, hidden or not
BlockedByParent(visible, m) == Parent[m]

\* blocking_parent: the nearest one that is hidden
BlockedBy(visible, m) ==
  LET hidden == Chain[m] \ visible
  IN  CHOOSE p \in hidden : hidden \subseteq {p} \cup Chain[p]

\* _explain
Why(gs, visible, m) ==
  CASE m \in Drawn(visible) -> <<"drawn">>
    [] m \in visible \ Drawn(visible) -> <<"parent", BlockedBy(visible, m)>>
    [] m \notin visible /\ gs[m] # {} /\ gs[m] \cap Held = {} -> <<"groups">>
    [] OTHER -> <<Action(m)>>

-----------------------------------------------------------------------------
(* Requests *)

\* late: a change was committed since, or was not signalled yet
Begin(w, pc, change) ==
  /\ request[w].pc = "idle"
  /\ request' = [request EXCEPT ![w] =
       [pc |-> pc, change |-> change, seen |-> groups, touched |-> {},
        late |-> \E v \in Workers : request[v].pc = "committed"]]
  /\ cache' = IF w \in signalled THEN [cache EXCEPT ![w] = Nothing] ELSE cache
  /\ signalled' = signalled \ {w}
  /\ shown' = <<>>
  /\ UNCHANGED groups

PreviewStart(w) == Begin(w, "preview", <<>>) /\ UNCHANGED edits

\* action_preview, visible_menu_ids
Preview(w) ==
  LET visible == IF cache[w] = Nothing THEN Visible(request[w].seen) ELSE cache[w]
  IN  /\ request[w].pc = "preview"
      /\ cache' = [cache EXCEPT ![w] = visible]
      /\ shown' = [m \in Menus |-> Why(request[w].seen, visible, m)]
      /\ request' = [request EXCEPT ![w] = Idle]
      /\ UNCHANGED <<groups, signalled, edits>>

\* the wizard: mode, menus and their sub-tree, groups
UpdateStart(w) ==
  /\ edits < MaxEdits /\ edits' = edits + 1
  /\ \E mode \in {"add", "remove"}, m \in Menus, g \in Groups, children \in BOOLEAN :
       Begin(w, "update", [mode |-> mode, groups |-> {g}, menus |->
                             {x \in Menus : x = m \/ (children /\ m \in Chain[x])}])

\* res.groups: write and create with menu_access
GroupStart(w) ==
  /\ edits < MaxEdits /\ edits' = edits + 1
  /\ \E mode \in {"add", "remove"}, m \in Menus, g \in Groups :
       Begin(w, "group", [mode |-> mode, groups |-> {g}, menus |-> {m}])

\* _resulting_groups
Resulting(change, gs) ==
  IF change.mode = "remove" THEN gs \ change.groups ELSE gs \cup change.groups

\* the rows of the relation that the request adds or deletes: a menu that was
\* written since is refused, alone
Written(r) ==
  {m \in r.change.menus : Resulting(r.change, r.seen[m]) # r.seen[m]}
    \ (IF r.pc = "update" THEN Refusing \cup r.touched ELSE {})

\* mutant: a write on the side of the groups leaves the cache
ClearedByMenus(w) == IF request[w].pc = "update" THEN [cache EXCEPT ![w] = Nothing] ELSE cache

\* clear_menu_caches
Cleared(w) == [cache EXCEPT ![w] = Nothing]

\* action_apply, and the overrides of write and create
Commit(w) ==
  /\ request[w].pc \in {"update", "group"}
  /\ LET done == Written(request[w])
     IN  /\ groups' = [m \in Menus |->
              IF m \in done THEN Resulting(request[w].change, groups[m]) ELSE groups[m]]
         /\ cache' = Cleared(w)
         /\ request' = [v \in Workers |->
              CASE v = w -> [pc |-> "committed"]
                [] request[v].pc \in {"idle", "committed"} -> request[v]
                [] OTHER -> [request[v] EXCEPT !.late = TRUE,
                              !.touched = @ \cup (IF request[w].pc = "update" THEN done ELSE {})]]
  /\ shown' = <<>>
  /\ UNCHANGED <<signalled, edits>>

\* signal_changes, once the request is committed
Signal(w) ==
  /\ request[w].pc = "committed"
  /\ signalled' = signalled \cup (Workers \ {w})
  /\ request' = [request EXCEPT ![w] = Idle]
  /\ shown' = <<>>
  /\ UNCHANGED <<groups, cache, edits>>

Fails(w) ==
  /\ request[w].pc \in {"update", "group", "preview"}
  /\ request' = [request EXCEPT ![w] = Idle]
  /\ shown' = <<>>
  /\ UNCHANGED <<groups, cache, signalled, edits>>

Init ==
  /\ groups \in [Menus -> {{}} \cup {{g} : g \in Groups \ Held}]
  /\ cache = [w \in Workers |-> Nothing]
  /\ signalled = {} /\ shown = <<>> /\ edits = 0
  /\ request = [w \in Workers |-> Idle]

Next == \E w \in Workers :
  \/ PreviewStart(w) \/ Preview(w) \/ UpdateStart(w) \/ GroupStart(w)
  \/ Commit(w) \/ Signal(w) \/ Fails(w)

Spec == Init /\ [][Next]_vars

-----------------------------------------------------------------------------
(* Properties *)

\* a preview during which no change is committed, and that no worker still owes a
\* signal when it ends
Fresh(w) ==
  Preview(w) /\ ~request[w].late /\ \A v \in Workers : request[v].pc # "committed"

\* "change the groups and the change takes effect": a preview that no change
\* overtakes draws exactly the items the groups allow whose parents they allow too.
TakesEffect ==
  \A w \in Workers : Fresh(w) =>
    {m \in Menus : shown'[m] = <<"drawn">>}
      = {m \in Menus : {m} \cup Chain[m] \subseteq Visible(groups)}

\* _explain, "never fall through to a confident wrong diagnosis": of an item that
\* is hidden such a preview names a parent that is hidden too, or that nothing
\* under it is drawn, or groups or an action that bar it; it is never at a loss.
ReasonsTell ==
  \A w \in Workers : Fresh(w) =>
    \A m \in Menus :
      /\ shown'[m][1] = "parent" => shown'[m][2] \in Chain[m] \ Visible(groups)
      /\ shown'[m] = <<"folder">> =>
           \A item \in Menus : m \in Chain[item] => shown'[item] # <<"drawn">>
      /\ shown'[m] # <<"readable">>

\* _mav_build_explanation, "Answered from: the groups on the item, the groups on
\* every parent menu, and the read access [...] the three inputs Odoo itself uses":
\* of an item below folders, the answer is what Odoo would draw, however the groups
\* were changed.
AnswersAgree ==
  \A m \in Menus \ Folders : Chain[m] \subseteq Folders =>
    (Admits(groups, m) <=> m \in Drawn(Visible(groups)))

-----------------------------------------------------------------------------
(* Proof *)

\* The items hang below each other, none below itself.
Proper ==
  /\ Folders \subseteq Menus /\ Root \notin Menus
  /\ Parent \in [Menus -> Menus \cup {Root}]
  /\ \A ms \in SUBSET Menus : ms # {} => \E m \in ms : Parent[m] \notin ms

Owed(w) == w \in signalled \/ \E v \in Workers \ {w} : request[v].pc = "committed"

Valid(w) == cache[w] = Nothing \/ cache[w] = Visible(groups)

Busy(w) == request[w].pc \in {"preview", "update", "group"}

\* the fields of a request that is served
Whole(r) == r = [pc |-> r.pc, change |-> r.change, seen |-> r.seen,
                 touched |-> r.touched, late |-> r.late]

\* A request that no change overtook reads what is committed, and its cache is
\* empty or answers from it; where the cache is older, or the request is about to
\* fill it with what is older, the worker is owed a signal it has not yet acted on.
SoundFor(w) ==
  /\ request[w].pc \in {"idle", "committed", "preview", "update", "group"}
  /\ request[w].pc = "idle" => Valid(w) \/ Owed(w)
  /\ request[w].pc = "committed" => cache[w] = Nothing
  /\ Busy(w) => Whole(request[w])
  /\ Busy(w) /\ request[w].late => Owed(w)
  /\ Busy(w) /\ ~request[w].late => request[w].seen = groups /\ Valid(w)

CachesSound ==
  /\ request = [w \in Workers |-> request[w]]
  /\ cache = [w \in Workers |-> cache[w]]
  /\ signalled \subseteq Workers
  /\ \A w \in Workers : SoundFor(w)

LEMMA BeginSound ==
  ASSUME CachesSound, NEW w \in Workers, NEW pc \in {"preview", "update", "group"}, NEW change,
         Begin(w, pc, change)
  PROVE  CachesSound'
<1> DEFINE late == \E v \in Workers : request[v].pc = "committed"
           new == [pc |-> pc, change |-> change, seen |-> groups, touched |-> {}, late |-> late]
<1>1. new.pc = pc /\ new.seen = groups /\ new.late = late /\ Whole(new)
  BY DEF Whole
<1>2. /\ request[w].pc = "idle" /\ request' = [request EXCEPT ![w] = new]
      /\ cache' = IF w \in signalled THEN [cache EXCEPT ![w] = Nothing] ELSE cache
      /\ signalled' = signalled \ {w} /\ groups' = groups
  BY DEF Begin
<1> HIDE DEF new, late
<1>3. /\ request'[w] = new
      /\ \A v \in Workers \ {w} : request'[v] = request[v] /\ cache'[v] = cache[v]
      /\ cache'[w] = IF w \in signalled THEN Nothing ELSE cache[w]
  BY <1>2 DEF CachesSound
<1>4. \A v \in Workers \ {w} : (Owed(v) => Owed(v)') /\ (Valid(v) => Valid(v)')
  BY <1>1, <1>2, <1>3 DEF Owed, Valid
<1>5. late => Owed(w)'
  BY <1>2, <1>3 DEF late, Owed
<1>6. ~late => Valid(w)'
  BY <1>2, <1>3 DEF late, Owed, Valid, SoundFor, CachesSound
<1>7. /\ request' = [v \in Workers |-> request'[v]] /\ cache' = [v \in Workers |-> cache'[v]]
      /\ signalled' \subseteq Workers
  BY <1>2 DEF CachesSound
<1>8. ASSUME NEW v \in Workers PROVE SoundFor(v)'
  <2>1. CASE v = w
    BY <1>1, <1>2, <1>3, <1>5, <1>6, <2>1 DEF Busy, SoundFor
  <2>2. CASE v # w
    BY <1>2, <1>3, <1>4, <2>2 DEF Busy, SoundFor, CachesSound
  <2> QED
    BY <2>1, <2>2
<1> QED
  BY <1>7, <1>8 DEF CachesSound

\* a request that ends leaves the cache as it is or as it has filled it
LEMMA EndSound ==
  ASSUME CachesSound, NEW w \in Workers, Busy(w), request' = [request EXCEPT ![w] = Idle],
         NEW visible, cache' = [cache EXCEPT ![w] = visible],
         request[w].late \/ visible \in {Nothing, Visible(groups)},
         UNCHANGED <<groups, signalled>>
  PROVE  CachesSound'
<1>1. /\ request'[w].pc = "idle" /\ cache'[w] = visible
      /\ \A v \in Workers \ {w} : request'[v] = request[v] /\ cache'[v] = cache[v]
  BY DEF CachesSound, Idle
<1>2. \A v \in Workers : (Owed(v) => Owed(v)') /\ (v # w /\ Valid(v) => Valid(v)')
  BY <1>1 DEF Owed, Valid, Busy
<1>3. ASSUME NEW v \in Workers PROVE SoundFor(v)'
  <2>1. CASE v = w
    BY <1>1, <1>2, <2>1 DEF Busy, Valid, SoundFor, CachesSound
  <2>2. CASE v # w
    BY <1>1, <1>2, <2>2 DEF Busy, SoundFor, CachesSound
  <2> QED
    BY <2>1, <2>2
<1> QED
  BY <1>3 DEF CachesSound

\* everybody else is owed a signal by whoever has committed
LEMMA CommitSound ==
  ASSUME CachesSound, NEW w \in Workers, Commit(w)
  PROVE  CachesSound'
<1>1. PICK done :
        request' = [v \in Workers |->
          CASE v = w -> [pc |-> "committed"]
            [] request[v].pc \in {"idle", "committed"} -> request[v]
            [] OTHER -> [request[v] EXCEPT !.late = TRUE,
                          !.touched = @ \cup (IF request[w].pc = "update" THEN done ELSE {})]]
  BY DEF Commit
<1>2. cache' = [cache EXCEPT ![w] = Nothing] /\ signalled' = signalled
  BY DEF Commit, Cleared
<1>3. request'[w].pc = "committed" /\ cache'[w] = Nothing
  <2>1. request[w].pc \in {"update", "group"}
    BY DEF Commit
  <2>2. request'[w] = [pc |-> "committed"]
    BY <1>1, <2>1
  <2>3. cache'[w] = Nothing
    BY <1>2 DEF CachesSound
  <2> QED
    BY <2>2, <2>3
<1>4. \A v \in Workers \ {w} : Owed(v)' /\ cache'[v] = cache[v]
  BY <1>2, <1>3 DEF Owed, CachesSound
<1>5. ASSUME NEW v \in Workers \ {w}, Busy(v)
      PROVE  request'[v].pc = request[v].pc /\ request'[v].late /\ Whole(request'[v])
  <2>1. Whole(request[v])
    BY <1>5 DEF CachesSound, SoundFor
  <2>2. request'[v] = [request[v] EXCEPT !.late = TRUE,
                        !.touched = @ \cup (IF request[w].pc = "update" THEN done ELSE {})]
    BY <1>1, <1>5 DEF Busy
  <2> QED
    BY <2>1, <2>2 DEF Whole
<1>6. ASSUME NEW v \in Workers \ {w}, ~Busy(v) PROVE request'[v] = request[v]
  BY <1>1, <1>6 DEF Busy, CachesSound, SoundFor
<1>7. ASSUME NEW v \in Workers PROVE SoundFor(v)'
  <2>1. CASE v = w
    BY <1>3, <2>1 DEF Busy, SoundFor
  <2>2. CASE v # w /\ Busy(v)
    BY <1>4, <1>5, <2>2 DEF Busy, SoundFor
  <2>3. CASE v # w /\ ~Busy(v)
    BY <1>4, <1>6, <2>3 DEF Busy, SoundFor, CachesSound
  <2> QED
    BY <2>1, <2>2, <2>3
<1>8. /\ request' = [v \in Workers |-> request'[v]] /\ cache' = [v \in Workers |-> cache'[v]]
      /\ signalled' \subseteq Workers
  <2> DEFINE after(v) == CASE v = w -> [pc |-> "committed"]
                           [] request[v].pc \in {"idle", "committed"} -> request[v]
                           [] OTHER -> [request[v] EXCEPT !.late = TRUE,
                                !.touched = @ \cup (IF request[w].pc = "update" THEN done ELSE {})]
  <2>1. request' = [v \in Workers |-> after(v)]
    BY <1>1
  <2> HIDE DEF after
  <2>2. request' = [v \in Workers |-> request'[v]]
    BY <2>1
  <2> QED
    BY <1>2, <2>2 DEF CachesSound
<1> QED
  BY <1>7, <1>8 DEF CachesSound

LEMMA SignalSound ==
  ASSUME CachesSound, NEW w \in Workers, Signal(w)
  PROVE  CachesSound'
<1>1. /\ request[w].pc = "committed" /\ request' = [request EXCEPT ![w] = Idle]
      /\ signalled' = signalled \cup (Workers \ {w}) /\ UNCHANGED <<groups, cache>>
  BY DEF Signal
<1>2. /\ request'[w].pc = "idle" /\ Valid(w)'
      /\ \A v \in Workers \ {w} : request'[v] = request[v] /\ Owed(v)' /\ (Valid(v) => Valid(v)')
  BY <1>1 DEF CachesSound, SoundFor, Idle, Owed, Valid
<1>3. ASSUME NEW v \in Workers PROVE SoundFor(v)'
  <2>1. CASE v = w
    BY <1>2, <2>1 DEF Busy, SoundFor
  <2>2. CASE v # w
    BY <1>1, <1>2, <2>2 DEF Busy, SoundFor, CachesSound
  <2> QED
    BY <2>1, <2>2
<1> QED
  BY <1>1, <1>3 DEF CachesSound

LEMMA CachesBegin == Init => CachesSound
BY DEF Init, CachesSound, SoundFor, Valid, Idle, Busy

LEMMA CachesStep ==
  ASSUME CachesSound, [Next]_vars
  PROVE  CachesSound'
<1>1. ASSUME NEW w \in Workers, PreviewStart(w) \/ UpdateStart(w) \/ GroupStart(w) PROVE CachesSound'
  BY <1>1, BeginSound DEF PreviewStart, UpdateStart, GroupStart
<1>2. ASSUME NEW w \in Workers, Preview(w) PROVE CachesSound'
  <2> DEFINE visible == IF cache[w] = Nothing THEN Visible(request[w].seen) ELSE cache[w]
  <2>1. /\ Busy(w) /\ request' = [request EXCEPT ![w] = Idle]
        /\ cache' = [cache EXCEPT ![w] = visible] /\ UNCHANGED <<groups, signalled>>
    BY <1>2 DEF Preview, Busy
  <2>2. request[w].late \/ visible \in {Nothing, Visible(groups)}
    BY <2>1 DEF CachesSound, SoundFor, Valid
  <2> HIDE DEF visible
  <2> QED
    BY <2>1, <2>2, EndSound
<1>3. ASSUME NEW w \in Workers, Fails(w) PROVE CachesSound'
  <2>1. /\ Busy(w) /\ request' = [request EXCEPT ![w] = Idle]
        /\ cache' = [cache EXCEPT ![w] = cache[w]] /\ UNCHANGED <<groups, signalled>>
    BY <1>3 DEF Fails, Busy, CachesSound
  <2>2. request[w].late \/ cache[w] \in {Nothing, Visible(groups)}
    BY <2>1 DEF CachesSound, SoundFor, Valid
  <2> QED
    BY <2>1, <2>2, EndSound
<1>4. CASE UNCHANGED vars
  BY <1>4 DEF vars, CachesSound, SoundFor, Valid, Owed, Busy
<1> QED
  BY <1>1, <1>2, <1>3, <1>4, CommitSound, SignalSound DEF Next

LEMMA DrawnIsSaid ==
  ASSUME NEW gs, NEW visible, NEW m \in Menus
  PROVE  Why(gs, visible, m) = <<"drawn">> <=> m \in Drawn(visible)
<1>1. /\ Action(m) \in {"folder", "readable", "barred"}
      /\ \A p : <<"parent", p>> # <<"drawn">>
      /\ <<"groups">> # <<"drawn">> /\ <<Action(m)>> # <<"drawn">>
  <2>1. Action(m) \in {"folder", "readable", "barred"}
    BY DEF Action
  <2>2. <<Action(m)>> # <<"drawn">> /\ <<"groups">> # <<"drawn">>
    BY <2>1
  <2>3. \A p : <<"parent", p>> # <<"drawn">>
    OBVIOUS
  <2> QED
    BY <2>1, <2>2, <2>3
<1>2. CASE m \in Drawn(visible)
  BY <1>2 DEF Why, Drawn
<1>3. CASE m \in visible \ Drawn(visible)
  BY <1>1, <1>3 DEF Why
<1>4. CASE m \notin visible
  BY <1>1, <1>4 DEF Why, Drawn
<1> QED
  BY <1>2, <1>3, <1>4 DEF Drawn

\* However changes, signals and previews interleave, a preview that no change
\* overtakes draws what the groups allow.
LEMMA PreviewsTell == ASSUME CachesSound PROVE TakesEffect
<1> SUFFICES ASSUME NEW w \in Workers, Fresh(w)
             PROVE  {m \in Menus : shown'[m] = <<"drawn">>}
                      = {m \in Menus : {m} \cup Chain[m] \subseteq Visible(groups)}
  BY DEF TakesEffect
<1> DEFINE visible == IF cache[w] = Nothing THEN Visible(request[w].seen) ELSE cache[w]
<1>1. visible = Visible(groups)
  BY DEF Fresh, Preview, CachesSound, SoundFor, Valid, Busy
<1>2. shown' = [m \in Menus |-> Why(request[w].seen, visible, m)]
  BY DEF Fresh, Preview
<1> HIDE DEF visible
<1>3. \A m \in Menus : shown'[m] = <<"drawn">> <=> m \in Drawn(visible)
  BY <1>2, DrawnIsSaid
<1> QED
  BY <1>1, <1>3 DEF Drawn

-----------------------------------------------------------------------------
(* What is above an item *)

Hangs(f) == f = [m \in Menus |-> IF Parent[m] = Root THEN {} ELSE {Parent[m]} \cup f[Parent[m]]]

\* what every set holds that has the parent of m, and that of each of its own
Closed(ms) == ms \subseteq Menus /\ \A m \in ms : Parent[m] \in ms \cup {Root}
Above(m) ==
  {x \in Menus : Parent[m] # Root /\ \A ms \in SUBSET Menus : Closed(ms) /\ Parent[m] \in ms => x \in ms}

\* Chain is the function its recursive definition describes.
LEMMA ChainUnfolds ==
  ASSUME Proper, NEW m \in Menus
  PROVE  Chain[m] = IF Parent[m] = Root THEN {} ELSE {Parent[m]} \cup Chain[Parent[m]]
<1> DEFINE above == [x \in Menus |-> Above(x)]
<1>1. ASSUME NEW x \in Menus, Parent[x] = Root PROVE Above(x) = {}
  BY <1>1 DEF Above
<1>2. ASSUME NEW x \in Menus, Parent[x] # Root PROVE Above(x) = {Parent[x]} \cup Above(Parent[x])
  <2> DEFINE p == Parent[x]
  <2>1. p \in Menus
    BY <1>2 DEF Proper
  <2>2. p \in Above(x)
    BY <1>2, <2>1 DEF Above
  <2>3. ASSUME NEW y \in Above(p) PROVE y \in Above(x)
    <3>1. Parent[p] # Root /\ y \in Menus
      BY <2>3 DEF Above
    <3>2. \A ms \in SUBSET Menus : Closed(ms) /\ p \in ms => Parent[p] \in ms
      BY <3>1 DEF Closed
    <3>3. \A ms \in SUBSET Menus : Closed(ms) /\ p \in ms => y \in ms
      BY <2>3, <3>2 DEF Above
    <3> QED
      BY <1>2, <3>1, <3>3 DEF Above
  <2>4. ASSUME NEW y \in Above(x), y # p PROVE y \in Above(p)
    <3> DEFINE all == {p} \cup Above(p)
    <3>1. Closed(all)
      <4>1. all \subseteq Menus
        BY <2>1 DEF Above
      <4>2. Parent[p] \in all \cup {Root}
        <5>1. Parent[p] \in Menus \cup {Root}
          BY <2>1 DEF Proper
        <5>2. Parent[p] # Root => Parent[p] \in Above(p)
          BY <5>1 DEF Above
        <5> QED
          BY <5>2
      <4>3. ASSUME NEW z \in Above(p) PROVE Parent[z] \in all \cup {Root}
        <5>1. z \in Menus /\ Parent[p] # Root
          BY DEF Above
        <5>2. Parent[z] \in Menus \cup {Root}
          BY <5>1 DEF Proper
        <5>3. ASSUME Parent[z] # Root, NEW ms \in SUBSET Menus, Closed(ms), Parent[p] \in ms
              PROVE  Parent[z] \in ms
          <6>1. z \in ms
            BY <5>3 DEF Above
          <6> QED
            BY <5>3, <6>1 DEF Closed
        <5>4. Parent[z] # Root => Parent[z] \in Above(p)
          BY <5>1, <5>2, <5>3 DEF Above
        <5> QED
          BY <5>4
      <4> QED
        BY <4>1, <4>2, <4>3 DEF Closed
    <3>2. all \in SUBSET Menus
      BY <3>1 DEF Closed
    <3>3. y \in all
      BY <2>4, <3>1, <3>2 DEF Above
    <3> QED
      BY <2>4, <3>3
  <2>5. \A y : y \in Above(x) <=> y \in {p} \cup Above(p)
    BY <2>2, <2>3, <2>4
  <2> QED
    BY <2>5
<1>3. Hangs(above)
  <2>1. \A x \in Menus :
          Above(x) = IF Parent[x] = Root THEN {} ELSE {Parent[x]} \cup above[Parent[x]]
    <3> SUFFICES ASSUME NEW x \in Menus
                 PROVE  Above(x) = IF Parent[x] = Root THEN {} ELSE {Parent[x]} \cup above[Parent[x]]
      OBVIOUS
    <3>1. Parent[x] # Root => Parent[x] \in Menus
      BY DEF Proper
    <3> QED
      BY <1>1, <1>2, <3>1
  <2> QED
    BY <2>1 DEF Hangs
<1> HIDE DEF above
<1>4. \E f : Hangs(f)
  BY <1>3
<1>5. Chain = CHOOSE f : Hangs(f)
  BY DEF Chain, Hangs
<1>6. Hangs(Chain)
  BY <1>4, <1>5
<1> QED
  BY <1>6 DEF Hangs

LEMMA ChainsAreMenus == ASSUME Proper, NEW m \in Menus PROVE Chain[m] \subseteq Menus
<1> DEFINE bad == {x \in Menus : ~(Chain[x] \subseteq Menus)}
<1> SUFFICES ASSUME bad # {} PROVE FALSE
  OBVIOUS
<1>1. PICK x \in bad : Parent[x] \notin bad
  BY DEF Proper
<1>2. Parent[x] = Root \/ (Parent[x] \in Menus /\ Chain[Parent[x]] \subseteq Menus)
  BY <1>1 DEF Proper
<1>3. Chain[x] = IF Parent[x] = Root THEN {} ELSE {Parent[x]} \cup Chain[Parent[x]]
  BY <1>1, ChainUnfolds
<1> QED
  BY <1>1, <1>2, <1>3

\* Of some items above another one is the nearest: the others are above it.
LEMMA NearestIsThere ==
  ASSUME Proper, NEW m \in Menus, NEW some \in SUBSET Chain[m], some # {}
  PROVE  \E p \in some : some \subseteq {p} \cup Chain[p]
<1> DEFINE Near(ms) == \E p \in ms : ms \subseteq {p} \cup Chain[p]
           bad == {x \in Menus : \E ms \in SUBSET Chain[x] : ms # {} /\ ~Near(ms)}
<1> SUFFICES ASSUME bad # {} PROVE FALSE
  OBVIOUS
<1>1. PICK x \in bad : Parent[x] \notin bad
  BY DEF Proper
<1>2. PICK ms \in SUBSET Chain[x] : ms # {} /\ ~Near(ms)
  BY <1>1
<1> DEFINE p == Parent[x]
<1>3. /\ Chain[x] = IF p = Root THEN {} ELSE {p} \cup Chain[p]
      /\ p = Root \/ p \in Menus
  <2>1. x \in Menus
    BY <1>1
  <2>2. p = Root \/ p \in Menus
    BY <2>1 DEF Proper
  <2> QED
    BY <2>1, <2>2, ChainUnfolds
<1>4. p # Root /\ p \in Menus /\ Chain[x] = {p} \cup Chain[p]
  BY <1>2, <1>3
<1>5. CASE p \in ms
  BY <1>2, <1>4, <1>5
<1>6. CASE p \notin ms
  <2>1. ms \in SUBSET Chain[p]
    BY <1>2, <1>4, <1>6
  <2>2. p \in bad
    BY <1>2, <1>4, <2>1
  <2> QED
    BY <1>1, <2>2
<1> QED
  BY <1>5, <1>6

-----------------------------------------------------------------------------
(* What is said of the items *)

\* The reasons of a preview that no change overtakes hold.
LEMMA ReasonsFollow == ASSUME Proper, CachesSound PROVE ReasonsTell
<1> SUFFICES ASSUME NEW w \in Workers, Fresh(w), NEW m \in Menus
             PROVE  /\ shown'[m][1] = "parent" => shown'[m][2] \in Chain[m] \ Visible(groups)
                    /\ shown'[m] = <<"folder">> =>
                         \A item \in Menus : m \in Chain[item] => shown'[item] # <<"drawn">>
                    /\ shown'[m] # <<"readable">>
  BY DEF ReasonsTell
<1> DEFINE before == IF cache[w] = Nothing THEN Visible(request[w].seen) ELSE cache[w]
           visible == Visible(groups)
<1>1. before = visible /\ request[w].seen = groups
  BY DEF Fresh, Preview, CachesSound, SoundFor, Valid, Busy
<1>2. shown' = [x \in Menus |-> Why(request[w].seen, before, x)]
  BY DEF Fresh, Preview
<1> HIDE DEF before
<1>3. \A x \in Menus : shown'[x] = Why(groups, visible, x)
  BY <1>1, <1>2
<1>4. visible \subseteq Menus
  BY DEF Visible, Proper
<1>5. m \in Menus \ Folders /\ m \in Openable /\ (groups[m] = {} \/ groups[m] \cap Held # {})
        => m \in visible
  BY DEF Visible
<1> HIDE DEF visible
<1>6. CASE m \in Drawn(visible)
  <2>1. Why(groups, visible, m) = <<"drawn">>
    BY <1>6 DEF Why, Drawn
  <2> QED
    BY <1>3, <2>1
<1>7. CASE m \in visible \ Drawn(visible)
  <2>1. Why(groups, visible, m) = <<"parent", BlockedBy(visible, m)>>
    BY <1>7 DEF Why
  <2> DEFINE hidden == Chain[m] \ visible
  <2>2. hidden # {} /\ hidden \in SUBSET Chain[m]
    BY <1>7 DEF Drawn
  <2>3. \E p \in hidden : hidden \subseteq {p} \cup Chain[p]
    <3> HIDE DEF hidden
    <3> QED
      BY <2>2, NearestIsThere
  <2>4. BlockedBy(visible, m) = CHOOSE p \in hidden : hidden \subseteq {p} \cup Chain[p]
    BY DEF BlockedBy
  <2>5. BlockedBy(visible, m) \in hidden
    <3> HIDE DEF hidden
    <3> QED
      BY <2>3, <2>4
  <2> QED
    BY <1>3, <2>1, <2>5 DEF visible
<1>8. CASE m \notin visible /\ groups[m] # {} /\ groups[m] \cap Held = {}
  <2>1. Why(groups, visible, m) = <<"groups">>
    BY <1>8 DEF Why, Drawn
  <2> QED
    BY <1>3, <2>1
<1>9. CASE m \notin visible /\ ~(groups[m] # {} /\ groups[m] \cap Held = {})
  <2>1. Why(groups, visible, m) = <<Action(m)>>
    BY <1>9 DEF Why, Drawn
  <2>2. Action(m) \in {"folder", "readable", "barred"} /\ (Action(m) = "readable" => m \in Openable \ Folders)
    BY DEF Action
  <2>3. Action(m) # "readable"
    BY <1>5, <1>9, <2>2
  <2>4. ASSUME NEW item \in Menus, m \in Chain[item] PROVE item \notin Drawn(visible)
    BY <1>9, <2>4 DEF Drawn
  <2>5. \A item \in Menus : m \in Chain[item] => shown'[item] # <<"drawn">>
    BY <1>3, <2>4, DrawnIsSaid
  <2>6. shown'[m] = <<Action(m)>>
    BY <1>3, <2>1
  <2>7. <<Action(m)>>[1] # "parent" /\ <<Action(m)>> # <<"readable">>
    BY <2>2, <2>3
  <2> QED
    BY <2>5, <2>6, <2>7
<1> QED
  BY <1>6, <1>7, <1>8, <1>9 DEF Drawn

\* What the screen answers of an item below folders is what is drawn.
LEMMA AnswersFollow == ASSUME Proper PROVE AnswersAgree
<1> SUFFICES ASSUME NEW m \in Menus \ Folders, Chain[m] \subseteq Folders
             PROVE  Admits(groups, m) <=> m \in Drawn(Visible(groups))
  BY DEF AnswersAgree
<1> DEFINE allowed == {x \in Menus : groups[x] = {} \/ groups[x] \cap Held # {}}
           up == {m} \cup Chain[m]
<1>1. up \subseteq Menus
  BY DEF Proper
<1>2. Admits(groups, m) <=> m \in Openable /\ up \subseteq allowed
  <2>1. Action(m) = "readable" <=> m \in Openable
    BY DEF Action
  <2>2. (\A asked \in Required(groups, m) : asked \cap Held # {}) <=> up \subseteq allowed
    BY <1>1 DEF Required
  <2> QED
    BY <2>1, <2>2 DEF Admits
<1>3. ASSUME m \in Openable, up \subseteq allowed PROVE m \in Drawn(Visible(groups))
  <2>1. m \in Visible(groups)
    BY <1>3 DEF Visible
  <2>2. ASSUME NEW p \in Chain[m] PROVE p \in Visible(groups)
    <3>1. p \in allowed \cap Folders /\ {x \in Chain[m] : p \in Chain[x]} \subseteq allowed \cap Folders
      BY <1>3
    <3> QED
      BY <1>3, <3>1 DEF Visible
  <2> QED
    BY <2>1, <2>2 DEF Drawn
<1>4. ASSUME m \in Drawn(Visible(groups)) PROVE m \in Openable /\ up \subseteq allowed
  <2>1. up \subseteq Visible(groups)
    BY <1>4 DEF Drawn
  <2>2. Visible(groups) \subseteq allowed
    BY DEF Visible
  <2>3. m \in Openable
    BY <2>1 DEF Visible
  <2> QED
    BY <2>1, <2>2, <2>3
<1> QED
  BY <1>2, <1>3, <1>4
=============================================================================
