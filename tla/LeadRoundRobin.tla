--------------------------- MODULE LeadRoundRobin ---------------------------
(***************************************************************************)
(* crm_lead_round_robin: leads without a salesperson are given to the      *)
(* members of their team in rotation, by the create() of whoever creates   *)
(* the lead and by an hourly catch-up run.  The rotation is kept in one    *)
(* pointer per team.                                                       *)
(*                                                                         *)
(* Creations and the run are transactions on a snapshot.  A creation       *)
(* writes the pointer right after it has read it, so that it waits for     *)
(* whoever holds the row and, if it was changed, is retried on a fresh     *)
(* snapshot: planning with the committed pointer while nobody else holds   *)
(* it.  The run reads its snapshot once, at its start; what others commit  *)
(* until it writes the same row is a serialization failure that aborts it. *)
(***************************************************************************)
EXTENDS Naturals, FiniteSets

CONSTANTS
  Members,      \* ids of the users who may be salespeople
  Named,        \* those whom callers and people pick by hand
  Companies, NoCompany,
  Allowed,      \* [Members -> SUBSET Companies], company_ids
  Teams,
  TeamCompany,  \* [Teams -> Companies \cup {NoCompany}]
  Rosters,      \* values of [Teams -> [members, round_robin]]
  Leads,        \* 1..n, the leads that may be created, in id order
  Sessions,     \* requests that create leads
  MaxCreate,    \* bound on the length of a vals_list
  Batch,        \* RR_CRON_BATCH
  NoUser        \* no salesperson

VARIABLES
  lead,     \* [Leads -> Lead \cup {NoLead}]: the committed leads
  pointer,  \* [Teams -> Members \cup {NoUser}], rr_last_member_id
  roster,   \* the active members of each team, and whether it rotates
  session,  \* what each creating request is doing
  run,      \* what the catch-up run is doing
  turns     \* history: how many more leads each member of a team got, since the
            \* roster last changed, than the member served least

vars == <<lead, pointer, roster, session, run, turns>>

ASSUME ConstantsAssumption ==
  /\ Members \subseteq Nat /\ NoUser \notin Members /\ NoCompany \notin Companies
  /\ Allowed \in [Members -> SUBSET Companies]
  /\ TeamCompany \in [Teams -> Companies \cup {NoCompany}]
  /\ Rosters \subseteq [Teams -> [members : SUBSET Members, round_robin : BOOLEAN]]
  /\ IsFiniteSet(Members) /\ IsFiniteSet(Teams) /\ IsFiniteSet(Leads)
  /\ Named \subseteq Members
  /\ Leads \subseteq Nat /\ Batch \in Nat /\ MaxCreate \in Nat

Lead == [team : Teams, company : Companies \cup {NoCompany},
         user : Members \cup {NoUser}, active : BOOLEAN]

NoLead == [team |-> NoCompany, company |-> NoCompany, user |-> NoUser, active |-> FALSE]

-----------------------------------------------------------------------------
(* The rotation *)

\* mutant: the companies of the members are not looked at
CandidatesAll(members, company) == members

Candidates(members, company) ==
  IF company = NoCompany THEN members
                         ELSE {u \in members : company \in Allowed[u]}

Position(ids, u) == Cardinality({v \in ids : v < u})

MemberAt(ids, n) == CHOOSE u \in ids : Position(ids, u) = n

\* mutant: the rotation begins with the last member served
StartAgain(ids, last) == IF last \in ids THEN Position(ids, last) ELSE 0

Start(ids, last) == IF last \in ids THEN Position(ids, last) + 1 ELSE 0

\* the n-th of the members planned, for ids # {}
Pick(ids, last, n) ==
  MemberAt(ids, (Start(ids, last) + n - 1) % Cardinality(ids))

CompanyFor(t, company) == IF company = NoCompany THEN TeamCompany[t] ELSE company

-----------------------------------------------------------------------------
(* create() *)

NoPlan == [pc |-> "idle", team |-> NoCompany, company |-> NoCompany,
           user |-> [n \in {} |-> NoUser], last |-> NoUser, planned |-> FALSE, current |-> TRUE]

\* Writing the value that is there already is not counted on to lock the row:
\* .last is NoUser where a plan ends on the member it began after.
Moved(from, last) == IF last = from THEN NoUser ELSE last

Holds(t) == {s \in Sessions : session[s].team = t /\ session[s].last # NoUser}

RunHolds(t) == run.pc = "running" /\ run.last[t] # NoUser

CreateAs(s, t, company, users, last, planned) ==
  /\ session[s].pc = "idle"
  /\ session' = [session EXCEPT ![s] =
       [pc |-> "created", team |-> t, company |-> company, user |-> users,
        last |-> last, planned |-> planned, current |-> TRUE]]
  /\ UNCHANGED <<lead, pointer, roster, run, turns>>

Ring(t, company) == Candidates(roster[t].members, CompanyFor(t, company))

Rotates(t, company) == roster[t].round_robin /\ Ring(t, company) # {}

\* leads of one team and company without a user_id: each is planned in turn
CreatePlanned(s, t, company, count) ==
  LET plan == [n \in 1..count |-> Pick(Ring(t, company), pointer[t], n)]
      last == Moved(pointer[t], plan[count])
  IN  /\ Rotates(t, company)
      /\ last # NoUser => Holds(t) = {} /\ ~RunHolds(t)
      /\ CreateAs(s, t, company, plan, last, TRUE)

\* the caller names the salesperson, or nobody is eligible, or the team does
\* not rotate: what the caller or the default of the field says is kept
CreateGiven(s, t, company, user) ==
  /\ user = NoUser => ~Rotates(t, company)
  /\ CreateAs(s, t, company, [n \in 1..1 |-> user], NoUser, FALSE)

Unused == {l \in Leads : lead[l] = NoLead}

Fresh(n) == CHOOSE l \in Unused : Cardinality({k \in Unused : k < l}) = n - 1

\* counted from the member of the team served least, and from nought when the
\* roster is no longer the one planned with; two more is as far as it counts
AtMostTwo(n) == IF n > 2 THEN 2 ELSE n

TurnsAfter(t, current, got) ==
  LET all == [u \in Members |-> turns[t][u] + got[u]]
      few == {u \in roster[t].members : \A v \in roster[t].members : all[u] <= all[v]}
  IN  [u \in Members |->
        IF current /\ u \in roster[t].members
        THEN AtMostTwo(all[u] - all[CHOOSE v \in few : TRUE]) ELSE 0]

\* the snapshot of the run is outdated for what is committed meanwhile
Outdated(teams, leads) ==
  IF run.pc = "running"
  THEN run' = [run EXCEPT !.teams_changed = @ \cup teams,
                          !.leads_changed = @ \cup leads]
  ELSE UNCHANGED run

CreateCommit(s) ==
  LET p == session[s]
      count == Cardinality(DOMAIN p.user)
  IN  /\ p.pc = "created" /\ count <= Cardinality(Unused)
      /\ lead' = [l \in Leads |->
           IF \E n \in 1..count : l = Fresh(n)
           THEN [team |-> p.team, company |-> p.company, active |-> TRUE,
                 user |-> p.user[CHOOSE n \in 1..count : l = Fresh(n)]]
           ELSE lead[l]]
      /\ IF p.last = NoUser
         THEN UNCHANGED <<pointer, run>>
         ELSE /\ pointer' = [pointer EXCEPT ![p.team] = p.last]
              /\ Outdated({p.team}, {})
      /\ turns' = [turns EXCEPT ![p.team] =
           IF ~p.planned THEN @
           ELSE TurnsAfter(p.team, p.current, [u \in Members |->
                  Cardinality({n \in 1..count : p.user[n] = u})])]
      /\ session' = [session EXCEPT ![s] = NoPlan]
      /\ UNCHANGED roster

\* the request fails and is rolled back, the advanced pointer with it
CreateRollback(s) ==
  /\ session[s].pc = "created"
  /\ session' = [session EXCEPT ![s] = NoPlan]
  /\ UNCHANGED <<lead, pointer, roster, run, turns>>

-----------------------------------------------------------------------------
(* _cron_rr_assign_leads *)

NoRun == [pc |-> "idle", open |-> {}, roster |-> <<>>, pointer |-> <<>>, todo |-> {},
          last |-> [t \in Teams |-> NoUser],
          user |-> [l \in Leads |-> NoUser],
          teams_changed |-> {}, leads_changed |-> {}]

\* mutant: the catch-up takes the leads that have a salesperson too
UnassignedOrNot == {l \in Leads : lead[l].active}

Unassigned == {l \in Leads : lead[l].active /\ lead[l].user = NoUser}

Rotating(r) == {t \in Teams : r[t].round_robin}

RunStart ==
  /\ run.pc = "idle" /\ Rotating(roster) # {}
  /\ run' = [NoRun EXCEPT !.pc = "running", !.open = Unassigned,
                          !.roster = roster, !.pointer = pointer,
                          !.todo = Rotating(roster)]
  /\ UNCHANGED <<lead, pointer, roster, session, turns>>

PerTeam == LET share == Batch \div Cardinality(Rotating(run.roster))
           IN  IF share < 1 THEN 1 ELSE share

Lowest(leads, n) == {l \in leads : Cardinality({k \in leads : k < l}) < n}

TeamLeads(t) == Lowest({l \in run.open : lead[l].team = t}, PerTeam)

\* the buckets of a team in the order in which their first leads come
Bucket(leads, company) == {l \in leads : lead[l].company = company}

Before(leads, company) ==
  LET Earlier(c) == \E l \in Bucket(leads, c) : \A k \in Bucket(leads, company) : l < k
  IN  Cardinality({c \in {lead[l].company : l \in leads} : Earlier(c)})

BucketOrder(leads) ==
  LET found == {lead[l].company : l \in leads}
  IN  [n \in 1..Cardinality(found) |->
        CHOOSE c \in found : Before(leads, c) = n - 1]

Eligible(t, company) == Candidates(run.roster[t].members, CompanyFor(t, company))

\* the member served last, when the n-th bucket of the leads has been given out
ServedLast(t, leads) ==
  LET order == BucketOrder(leads)
      last[n \in 0..Cardinality(DOMAIN order)] ==
        IF n = 0 THEN run.pointer[t]
        ELSE LET ids == Eligible(t, order[n])
             IN  IF ids = {} THEN last[n - 1]
                 ELSE Pick(ids, last[n - 1], Cardinality(Bucket(leads, order[n])))
  IN  last

\* what the run gives out of the leads of a team, bucket after bucket
TeamPlan(t, leads) ==
  LET last == ServedLast(t, leads)
      Nth(company, l) == Pick(Eligible(t, company), last[Before(leads, company)],
                              Position(Bucket(leads, company), l) + 1)
  IN  [last |-> last[Cardinality(DOMAIN BucketOrder(leads))],
       user |-> [l \in Leads |->
         IF l \in leads /\ Eligible(t, lead[l].company) # {}
         THEN Nth(lead[l].company, l) ELSE NoUser]]

Given(t) == TeamPlan(t, TeamLeads(t))

RunTeam(t) ==
  LET plan  == Given(t)
      given == {l \in Leads : plan.user[l] # NoUser}
      last  == Moved(run.pointer[t], plan.last)
  IN  /\ run.pc = "running" /\ t \in run.todo
      /\ last # NoUser => Holds(t) = {} /\ t \notin run.teams_changed
      /\ given \cap run.leads_changed = {}
      /\ run' = [run EXCEPT
           !.todo = @ \ {t}, !.last[t] = last,
           !.user = [l \in Leads |-> IF l \in given THEN plan.user[l] ELSE @[l]]]
      /\ UNCHANGED <<lead, pointer, roster, session, turns>>

\* an exception while a team is handled: its savepoint is rolled back
RunSkip(t) ==
  /\ run.pc = "running" /\ t \in run.todo
  /\ run' = [run EXCEPT !.todo = @ \ {t}]
  /\ UNCHANGED <<lead, pointer, roster, session, turns>>

\* a row changed since the snapshot, or the connection is lost: re-raised
RunAbort ==
  /\ run.pc = "running"
  /\ run' = NoRun
  /\ UNCHANGED <<lead, pointer, roster, session, turns>>

RunCommit ==
  /\ run.pc = "running" /\ run.todo = {}
  /\ lead' = [l \in Leads |-> IF run.user[l] = NoUser THEN lead[l]
                              ELSE [lead[l] EXCEPT !.user = run.user[l]]]
  /\ pointer' = [t \in Teams |-> IF run.last[t] = NoUser THEN pointer[t]
                                 ELSE run.last[t]]
  /\ turns' = [t \in Teams |->
       IF \A l \in Leads : run.user[l] # NoUser => lead[l].team # t THEN turns[t]
       ELSE TurnsAfter(t, run.roster = roster, [u \in Members |->
              Cardinality({l \in Leads : lead[l].team = t /\ run.user[l] = u})])]
  /\ run' = NoRun
  /\ UNCHANGED <<roster, session>>

-----------------------------------------------------------------------------
(* The people *)

\* the rows that the run has written and not yet committed are locked
Unlocked(l) == run.pc = "running" => run.user[l] = NoUser

SetSalesperson(l, u) ==
  /\ lead[l] # NoLead /\ lead[l].user # u /\ Unlocked(l)
  /\ lead' = [lead EXCEPT ![l].user = u]
  /\ Outdated({}, {l})
  /\ UNCHANGED <<pointer, roster, session, turns>>

MarkLost(l) ==
  /\ lead[l] # NoLead /\ lead[l].active /\ Unlocked(l)
  /\ lead' = [lead EXCEPT ![l].active = FALSE]
  /\ Outdated({}, {l})
  /\ UNCHANGED <<pointer, roster, session, turns>>

ChangeRoster(r) ==
  /\ roster' = r /\ r # roster
  /\ turns' = [t \in Teams |-> [u \in Members |-> 0]]
  /\ session' = [s \in Sessions |-> [session[s] EXCEPT !.current = (@ /\ session[s].pc = "idle")]]
  /\ UNCHANGED <<lead, pointer, run>>

-----------------------------------------------------------------------------
Init ==
  /\ lead = [l \in Leads |-> NoLead]
  /\ pointer = [t \in Teams |-> NoUser]
  /\ roster \in Rosters
  /\ session = [s \in Sessions |-> NoPlan]
  /\ run = NoRun
  /\ turns = [t \in Teams |-> [u \in Members |-> 0]]

CatchUp == \/ RunStart
           \/ \E t \in Teams : RunTeam(t)
           \/ RunCommit

Next ==
  \/ \E s \in Sessions : \/ \E t \in Teams, c \in Companies \cup {NoCompany} :
                              \/ \E n \in 1..MaxCreate : CreatePlanned(s, t, c, n)
                              \/ \E u \in Named \cup {NoUser} :
                                   CreateGiven(s, t, c, u)
                         \/ CreateCommit(s)
                         \/ CreateRollback(s)
  \/ CatchUp
  \/ \E t \in Teams : RunSkip(t)
  \/ RunAbort
  \/ \E l \in Leads : \/ \E u \in Named \cup {NoUser} : SetSalesperson(l, u)
                      \/ MarkLost(l)
  \/ \E r \in Rosters : ChangeRoster(r)

Spec == Init /\ [][Next]_vars

-----------------------------------------------------------------------------
(* Properties *)

\* every lead of the team may go to every member
OneRing(t) ==
  \A c \in Companies \cup {NoCompany} :
    Candidates(roster[t].members, c) = roster[t].members

\* README: "6 leads over 3 members means exactly 2 each".  Whatever creations
\* and runs overlap, fail or are rolled back, the shares of the members of a
\* team differ by at most one lead.
FairShare ==
  \A t \in Teams : OneRing(t) =>
    \A u, v \in roster[t].members : turns[t][u] <= turns[t][v] + 1

\* README: "nothing is ever reassigned".  A run that overlaps with people who
\* pick a salesperson, or who lose the lead, never overwrites their choice.
NeverReassigned ==
  [][RunCommit => \A l \in Leads : lead'[l].user # lead[l].user
                    => lead[l].user = NoUser /\ lead[l].active]_vars

\* README: "rotation only picks members allowed in the lead's company".
\* Whatever the order of buckets and the roster changes while it runs.
OnlyAllowed ==
  [][\A l \in Leads :
       RunCommit /\ lead'[l].user # lead[l].user
         => LET u == lead'[l].user
                c == CompanyFor(lead[l].team, lead[l].company)
            IN  /\ u \in run.roster[lead[l].team].members
                /\ c # NoCompany => c \in Allowed[u]]_vars
=============================================================================
