------------------------ MODULE LeadRoundRobin_proofs ------------------------
(***************************************************************************)
(* What the catch-up run of LeadRoundRobin may do to a lead, and that the  *)
(* turns come out even, for any teams, rosters, companies and leads.       *)
(***************************************************************************)
EXTENDS LeadRoundRobin, FiniteSetTheorems, TLAPS

-----------------------------------------------------------------------------
(* The rotation: whoever it takes up after, it picks one of its members.   *)

LEMMA PositionIsBelow ==
  ASSUME NEW ids \in SUBSET Nat, IsFiniteSet(ids), NEW u \in ids
  PROVE  Position(ids, u) \in 0..(Cardinality(ids) - 1) /\ Cardinality(ids) \in Nat \ {0}
<1> DEFINE below == {v \in ids : v < u}
<1>1. below \in SUBSET (ids \ {u})
  OBVIOUS
<1>2. /\ IsFiniteSet(ids \ {u}) /\ Cardinality(ids \ {u}) = Cardinality(ids) - 1
      /\ Cardinality(ids \ {u}) \in Nat /\ Cardinality(ids) \in Nat
  BY FS_RemoveElement, FS_CardinalityType
<1> HIDE DEF below
<1>3. Cardinality(below) <= Cardinality(ids \ {u}) /\ Cardinality(below) \in Nat
  BY <1>1, <1>2, FS_Subset, FS_CardinalityType
<1> QED
  BY <1>2, <1>3 DEF Position, below

LEMMA PositionGrows ==
  ASSUME NEW ids \in SUBSET Nat, IsFiniteSet(ids), NEW u \in ids, NEW v \in ids, u < v
  PROVE  Position(ids, u) # Position(ids, v)
<1> DEFINE under == {w \in ids : w < u}
           over  == {w \in ids : w < v}
<1>1. under \in SUBSET over /\ u \in over /\ u \notin under
  <2>1. u \in Nat /\ v \in Nat /\ \A w \in ids : w \in Nat
    OBVIOUS
  <2>2. \A w \in ids : w < u => w < v
    BY <2>1
  <2>3. under \in SUBSET over
    BY <2>2
  <2>4. u \in over
    OBVIOUS
  <2>5. u \notin under
    BY <2>1
  <2> QED
    BY <2>3, <2>4, <2>5
<1>2. IsFiniteSet(over)
  BY FS_Subset
<1> HIDE DEF under, over
<1>3. Cardinality(over) # Cardinality(under)
  BY <1>1, <1>2, FS_Subset
<1> QED
  BY <1>3 DEF Position, under, over

\* Every position from 0 is somebody's.
LEMMA MemberAtIsThere ==
  ASSUME NEW ids \in SUBSET Nat, IsFiniteSet(ids), NEW n \in 0..(Cardinality(ids) - 1)
  PROVE  MemberAt(ids, n) \in ids /\ Position(ids, MemberAt(ids, n)) = n
<1> DEFINE T == 0..(Cardinality(ids) - 1)
           f == [u \in ids |-> Position(ids, u)]
<1>1. Cardinality(ids) \in Nat
  BY FS_CardinalityType
<1>2. IsFiniteSet(T) /\ Cardinality(T) = Cardinality(ids)
  BY <1>1, FS_Interval
<1>3. f \in [ids -> T]
  BY PositionIsBelow
<1>4. \A u, v \in ids : u # v => f[u] # f[v]
  <2>1. ASSUME NEW u \in ids, NEW v \in ids, u # v PROVE Position(ids, u) # Position(ids, v)
    <3>1. u < v \/ v < u
      BY <2>1
    <3> QED
      BY <3>1, PositionGrows
  <2> QED
    BY <2>1
<1>5. f \in Injection(ids, T)
  BY <1>3, <1>4 DEF Injection, IsInjective
<1>6. f \in Surjection(ids, T)
  BY <1>2, <1>5, FS_Injection
<1>7. \E u \in ids : f[u] = n
  BY <1>6 DEF Surjection
<1>8. \E u \in ids : Position(ids, u) = n
  BY <1>7
<1> QED
  BY <1>8 DEF MemberAt

LEMMA RemainderIsBelow ==
  ASSUME NEW x \in Nat, NEW n \in Nat \ {0}
  PROVE  x % n \in 0..(n - 1)
OBVIOUS

LEMMA PickIsMember ==
  ASSUME NEW ids \in SUBSET Nat, IsFiniteSet(ids), ids # {}, NEW last,
         NEW n \in Nat \ {0}
  PROVE  Pick(ids, last, n) \in ids
<1>1. Cardinality(ids) \in Nat \ {0}
  <2>1. PICK u \in ids : TRUE
    OBVIOUS
  <2> QED
    BY <2>1, PositionIsBelow
<1>2. Start(ids, last) \in Nat
  <2>1. last \in ids => Position(ids, last) \in Nat
    BY <1>1, PositionIsBelow
  <2> QED
    BY <2>1 DEF Start
<1> DEFINE at == Start(ids, last) + n - 1
<1>3. at \in Nat
  BY <1>2
<1> HIDE DEF at
<1>4. at % Cardinality(ids) \in 0..(Cardinality(ids) - 1)
  BY <1>1, <1>3, RemainderIsBelow
<1> QED
  BY <1>4, MemberAtIsThere DEF Pick, at

-----------------------------------------------------------------------------
(* The shapes of leads, requests and runs, as far as the argument goes     *)

UserIds == Members \cup {NoUser}
CompanyIds == Companies \cup {NoCompany}

LeadRow == [team : Teams \cup {NoCompany}, company : CompanyIds, user : UserIds,
            active : BOOLEAN]

IsPlan(p) ==
  /\ p = [pc |-> p.pc, team |-> p.team, company |-> p.company, user |-> p.user,
          last |-> p.last, planned |-> p.planned, current |-> p.current]
  /\ p.pc = "created" => /\ p.team \in Teams /\ p.company \in CompanyIds
                         /\ \E count \in Nat : p.user \in [1..count -> UserIds]

IsRun(r) ==
  /\ r = [pc |-> r.pc, open |-> r.open, roster |-> r.roster, pointer |-> r.pointer,
          todo |-> r.todo, last |-> r.last, user |-> r.user,
          teams_changed |-> r.teams_changed, leads_changed |-> r.leads_changed]
  /\ r.open \in SUBSET Leads /\ r.leads_changed \in SUBSET Leads
  /\ r.todo \in SUBSET Teams /\ r.user \in [Leads -> UserIds]

Typed ==
  /\ lead \in [Leads -> LeadRow]
  /\ session = [s \in Sessions |-> session[s]]
  /\ \A s \in Sessions : IsPlan(session[s])
  /\ roster \in Rosters
  /\ IsRun(run)

\* the leads a run may still write: those nobody changed since its snapshot
Settled == run.open \ run.leads_changed

\* What a run has given out, it found without a salesperson, nobody changed it
\* since, and it is for a member of the roster who is allowed in its company.
RunSound ==
  run.pc = "running" =>
    /\ run.roster \in Rosters
    /\ \A l \in Settled : lead[l].active /\ lead[l].user = NoUser
    /\ \A l \in Leads : run.user[l] # NoUser =>
         /\ l \in Settled
         /\ lead[l].team \in Teams
         /\ run.user[l] \in Eligible(lead[l].team, lead[l].company)

IInv == Typed /\ RunSound

-----------------------------------------------------------------------------
(* Creations *)

LEMMA CandidatesAreMembers ==
  ASSUME NEW r \in Rosters, NEW t \in Teams, NEW company
  PROVE  /\ Candidates(r[t].members, company) \in SUBSET Members
         /\ Candidates(r[t].members, company) \in SUBSET Nat
         /\ IsFiniteSet(Candidates(r[t].members, company))
<1>1. r[t].members \in SUBSET Members /\ Members \in SUBSET Nat
  BY ConstantsAssumption
<1>2. Candidates(r[t].members, company) \in SUBSET r[t].members
  BY DEF Candidates
<1> QED
  BY <1>1, <1>2, ConstantsAssumption, FS_Subset

LEMMA CreateAsTyped ==
  ASSUME Typed, NEW s \in Sessions, NEW t \in Teams, NEW company \in CompanyIds,
         NEW count \in Nat, NEW users \in [1..count -> UserIds], NEW last, NEW planned,
         CreateAs(s, t, company, users, last, planned)
  PROVE  Typed'
<1> DEFINE p == [pc |-> "created", team |-> t, company |-> company, user |-> users,
                 last |-> last, planned |-> planned, current |-> TRUE]
<1>1. session' = [session EXCEPT ![s] = p] /\ UNCHANGED <<lead, roster, run>>
  BY DEF CreateAs
<1>2. IsPlan(p)
  BY DEF IsPlan
<1> HIDE DEF p
<1>3. session' = [v \in Sessions |-> session'[v]] /\ \A v \in Sessions : IsPlan(session'[v])
  BY <1>1, <1>2 DEF Typed
<1> QED
  BY <1>1, <1>3 DEF Typed

LEMMA CreatesTyped ==
  ASSUME Typed, NEW s \in Sessions, NEW t \in Teams, NEW company \in CompanyIds,
         \/ \E n \in 1..MaxCreate : CreatePlanned(s, t, company, n)
         \/ \E u \in Named \cup {NoUser} : CreateGiven(s, t, company, u)
  PROVE  Typed' /\ UNCHANGED <<lead, roster, run>>
<1>1. ASSUME NEW n \in 1..MaxCreate, CreatePlanned(s, t, company, n) PROVE Typed'
  <2> DEFINE plan == [k \in 1..n |-> Pick(Ring(t, company), pointer[t], k)]
  <2>1. Ring(t, company) # {}
    BY <1>1 DEF CreatePlanned, Rotates
  <2>2. /\ Ring(t, company) \in SUBSET Members /\ Ring(t, company) \in SUBSET Nat
        /\ IsFiniteSet(Ring(t, company))
    BY CandidatesAreMembers DEF Ring, Typed
  <2>3. \A k \in 1..n : Pick(Ring(t, company), pointer[t], k) \in Members
    BY <2>1, <2>2, PickIsMember
  <2>4. plan \in [1..n -> UserIds] /\ n \in Nat
    BY <2>3, ConstantsAssumption DEF UserIds
  <2>5. CreateAs(s, t, company, plan, Moved(pointer[t], plan[n]), TRUE)
    BY <1>1 DEF CreatePlanned
  <2> HIDE DEF plan
  <2> QED
    BY <2>4, <2>5, CreateAsTyped
<1>2. ASSUME NEW u \in Named \cup {NoUser}, CreateGiven(s, t, company, u) PROVE Typed'
  <2> DEFINE users == [n \in 1..1 |-> u]
  <2>1. users \in [1..1 -> UserIds]
    BY ConstantsAssumption DEF UserIds
  <2>2. CreateAs(s, t, company, users, NoUser, FALSE)
    BY <1>2 DEF CreateGiven
  <2> HIDE DEF users
  <2> QED
    BY <2>1, <2>2, CreateAsTyped
<1> QED
  BY <1>1, <1>2 DEF CreatePlanned, CreateGiven, CreateAs

LEMMA FreshIsUnused ==
  ASSUME NEW n \in 1..Cardinality(Unused)
  PROVE  Fresh(n) \in Unused
<1>1. Unused \in SUBSET Nat /\ IsFiniteSet(Unused)
  BY ConstantsAssumption, FS_Subset DEF Unused
<1>2. n - 1 \in 0..(Cardinality(Unused) - 1)
  BY <1>1, FS_CardinalityType
<1>3. \E l \in Unused : Position(Unused, l) = n - 1
  BY <1>1, <1>2, MemberAtIsThere
<1> QED
  BY <1>3 DEF Fresh, Position

\* A creation writes new leads, and of the run only what it is too late for.
LEMMA CommitWrites ==
  ASSUME Typed, NEW s \in Sessions, CreateCommit(s)
  PROVE  /\ lead' \in [Leads -> LeadRow]
         /\ \A l \in Leads : lead[l] # NoLead => lead'[l] = lead[l]
         /\ IsRun(run)' /\ run'.pc = run.pc /\ run'.open = run.open
         /\ run'.leads_changed = run.leads_changed /\ run'.user = run.user
         /\ run'.roster = run.roster
<1> DEFINE p == session[s]
           count == Cardinality(DOMAIN p.user)
<1>1. PICK k \in Nat : p.user \in [1..k -> UserIds]
  BY DEF Typed, IsPlan, CreateCommit
<1>2. count = k /\ DOMAIN p.user = 1..k
  BY <1>1, FS_Interval
<1>3. p.team \in Teams /\ p.company \in CompanyIds /\ k <= Cardinality(Unused)
  BY <1>2 DEF Typed, IsPlan, CreateCommit
<1>4. \A n \in 1..k : Fresh(n) \in Unused
  <2>1. Cardinality(Unused) \in Nat
    BY ConstantsAssumption, FS_Subset, FS_CardinalityType DEF Unused
  <2> QED
    BY <1>1, <1>3, <2>1, FreshIsUnused
<1>5. \A l \in Leads : lead'[l] =
        IF \E n \in 1..k : l = Fresh(n)
        THEN [team |-> p.team, company |-> p.company, active |-> TRUE,
              user |-> p.user[CHOOSE n \in 1..k : l = Fresh(n)]]
        ELSE lead[l]
  BY <1>2 DEF CreateCommit
<1>6. \A l \in Leads : lead'[l] \in LeadRow
  <2> SUFFICES ASSUME NEW l \in Leads PROVE lead'[l] \in LeadRow
    OBVIOUS
  <2>1. CASE \E n \in 1..k : l = Fresh(n)
    <3> DEFINE i == CHOOSE n \in 1..k : l = Fresh(n)
    <3>1. i \in 1..k
      BY <2>1
    <3>2. lead'[l] = [team |-> p.team, company |-> p.company, active |-> TRUE,
                      user |-> p.user[i]]
      BY <1>5, <2>1
    <3> HIDE DEF i
    <3>3. p.user[i] \in UserIds
      BY <1>1, <3>1
    <3> QED
      BY <1>3, <3>2, <3>3 DEF LeadRow
  <2>2. CASE ~\E n \in 1..k : l = Fresh(n)
    BY <1>5, <2>2 DEF Typed
  <2> QED
    BY <2>1, <2>2
<1>7. lead' = [l \in Leads |-> lead'[l]]
  BY DEF CreateCommit
<1>8. \A l \in Leads : lead[l] # NoLead => lead'[l] = lead[l]
  BY <1>4, <1>5 DEF Unused
<1>9. /\ IsRun(run)' /\ run'.pc = run.pc /\ run'.open = run.open
      /\ run'.leads_changed = run.leads_changed /\ run'.user = run.user
      /\ run'.roster = run.roster
  <2>1. run' = run \/ run' = [run EXCEPT !.teams_changed = @ \cup {p.team},
                                          !.leads_changed = @ \cup {}]
    BY DEF CreateCommit, Outdated
  <2>2. CASE run' = run
    BY <2>2 DEF Typed, IsRun
  <2>3. CASE run' = [run EXCEPT !.teams_changed = @ \cup {p.team},
                                !.leads_changed = @ \cup {}]
    BY <2>3 DEF Typed, IsRun
  <2> QED
    BY <2>1, <2>2, <2>3
<1> QED
  BY <1>6, <1>7, <1>8, <1>9

-----------------------------------------------------------------------------
(* The run *)

\* a step that leaves the run and the leads it may write as they were
LEMMA SoundKept ==
  ASSUME IInv, Typed',
         run'.pc = "running" => run.pc = "running",
         run'.open = run.open, run'.user = run.user, run'.roster = run.roster,
         run.leads_changed \subseteq run'.leads_changed,
         \A l \in Settled' : lead'[l] = lead[l],
         \A l \in Leads : run.user[l] # NoUser => l \in Settled'
  PROVE  RunSound'
<1> SUFFICES ASSUME run'.pc = "running" PROVE RunSound'
  BY DEF RunSound
<1>1. RunSound /\ run.pc = "running"
  BY DEF IInv
<1>2. \A l \in Settled' : l \in Settled
  BY DEF Settled
<1>3. \A t, company : Eligible(t, company)' = Eligible(t, company)
  BY DEF Eligible
<1>4. Settled \subseteq Leads
  BY DEF IInv, Typed, IsRun, Settled
<1> QED
  BY <1>1, <1>2, <1>3, <1>4 DEF RunSound

LEMMA RunStartSound ==
  ASSUME IInv, RunStart
  PROVE  IInv'
<1>1. /\ run' = [NoRun EXCEPT !.pc = "running", !.open = Unassigned, !.roster = roster,
                              !.pointer = pointer, !.todo = Rotating(roster)]
      /\ UNCHANGED <<lead, session, roster>>
  BY DEF RunStart
<1>2. Unassigned \in SUBSET Leads /\ Rotating(roster) \in SUBSET Teams
  BY DEF Unassigned, Rotating
<1>3. /\ run'.open = Unassigned /\ run'.leads_changed = {} /\ run'.roster = roster
      /\ \A l \in Leads : run'.user[l] = NoUser
  BY <1>1 DEF NoRun
<1>4. IsRun(run')
  BY <1>1, <1>2 DEF IsRun, NoRun, UserIds
<1>5. Typed'
  BY <1>1, <1>4 DEF IInv, Typed, IsPlan, IsRun
<1>6. RunSound'
  BY <1>1, <1>3 DEF RunSound, Settled, Unassigned, IInv, Typed
<1> QED
  BY <1>5, <1>6 DEF IInv

\* What a team gives out: to leads of its own that the run may still write, and
\* to members who are allowed in their companies.
LEMMA GivenIsEligible ==
  ASSUME IInv, run.pc = "running", NEW t \in Teams, NEW l \in Leads,
         Given(t).user[l] # NoUser
  PROVE  /\ l \in run.open /\ lead[l].team = t
         /\ Given(t).user[l] \in Eligible(t, lead[l].company)
<1> DEFINE leads == TeamLeads(t)
           company == lead[l].company
           last == ServedLast(t, leads)[Before(leads, company)]
           n == Position(Bucket(leads, company), l) + 1
<1>1. Given(t).user[l] = IF l \in leads /\ Eligible(t, company) # {}
                         THEN Pick(Eligible(t, company), last, n) ELSE NoUser
  BY DEF Given, TeamPlan
<1>2. l \in leads /\ Eligible(t, company) # {}
  BY <1>1
<1>3. /\ leads \in SUBSET Leads /\ leads \in SUBSET run.open
      /\ \A k \in leads : lead[k].team = t
  BY DEF TeamLeads, Lowest, IInv, Typed, IsRun
<1>4. n \in Nat \ {0}
  <2> DEFINE b == Bucket(leads, company)
  <2>1. b \in SUBSET Leads /\ l \in b
    BY <1>2, <1>3 DEF Bucket
  <2> HIDE DEF b
  <2>2. b \in SUBSET Nat /\ IsFiniteSet(b)
    BY <2>1, ConstantsAssumption, FS_Subset
  <2>3. Position(b, l) \in Nat
    BY <2>1, <2>2, PositionIsBelow
  <2> QED
    BY <2>3 DEF b
<1>5. /\ Eligible(t, company) \in SUBSET Nat /\ IsFiniteSet(Eligible(t, company))
  BY CandidatesAreMembers DEF Eligible, IInv, RunSound
<1> HIDE DEF leads, company, last, n
<1>6. Pick(Eligible(t, company), last, n) \in Eligible(t, company)
  BY <1>2, <1>4, <1>5, PickIsMember
<1> QED
  BY <1>1, <1>2, <1>3, <1>6 DEF company

LEMMA RunTeamSound ==
  ASSUME IInv, NEW t \in Teams, RunTeam(t)
  PROVE  IInv'
<1> DEFINE plan == Given(t)
           given == {l \in Leads : plan.user[l] # NoUser}
           last == Moved(run.pointer[t], plan.last)
           users == [l \in Leads |-> IF l \in given THEN plan.user[l] ELSE run.user[l]]
<1>1. /\ run.pc = "running" /\ given \cap run.leads_changed = {}
      /\ run' = [run EXCEPT !.todo = @ \ {t}, !.last[t] = last, !.user = users]
      /\ UNCHANGED <<lead, session, roster>>
  BY DEF RunTeam
<1>2. \A l \in given : /\ l \in run.open /\ lead[l].team = t
                       /\ plan.user[l] \in Eligible(t, lead[l].company)
  BY <1>1, GivenIsEligible
<1>3. \A company : Eligible(t, company) \in SUBSET Members
  BY <1>1, CandidatesAreMembers DEF Eligible, IInv, RunSound
<1>4. users \in [Leads -> UserIds]
  BY <1>2, <1>3 DEF IInv, Typed, IsRun, UserIds
<1>5. \A l \in Leads : users[l] = IF l \in given THEN plan.user[l] ELSE run.user[l]
  OBVIOUS
<1>6. given \subseteq Leads
  OBVIOUS
<1> HIDE DEF plan, given, last, users
<1>7. /\ run'.pc = run.pc /\ run'.open = run.open /\ run'.roster = run.roster
      /\ run'.leads_changed = run.leads_changed /\ run'.user = users
      /\ IsRun(run')
  BY <1>1, <1>4 DEF IInv, Typed, IsRun
<1>8. Typed'
  BY <1>1, <1>7 DEF IInv, Typed, IsPlan, IsRun
<1>9. RunSound'
  <2>1. Settled' = Settled /\ \A u, company : Eligible(u, company)' = Eligible(u, company)
    BY <1>7 DEF Settled, Eligible
  <2>2. \A l \in given : l \in Settled
    BY <1>1, <1>2 DEF Settled
  <2>3. \A l \in Leads : users[l] # NoUser =>
          /\ l \in Settled /\ lead[l].team \in Teams
          /\ users[l] \in Eligible(lead[l].team, lead[l].company)
    BY <1>1, <1>2, <1>5, <2>2 DEF IInv, RunSound
  <2> QED
    BY <1>1, <1>7, <2>1, <2>3 DEF IInv, RunSound
<1> QED
  BY <1>8, <1>9 DEF IInv

LEMMA RunEndsSound ==
  ASSUME IInv, run' = NoRun, lead' \in [Leads -> LeadRow], UNCHANGED <<session, roster>>
  PROVE  IInv'
<1>1. IsRun(run') /\ run'.pc # "running"
  BY DEF IsRun, NoRun, UserIds
<1> QED
  BY <1>1 DEF IInv, Typed, RunSound, IsPlan, IsRun

LEMMA RunCommitSound ==
  ASSUME IInv, RunCommit
  PROVE  /\ IInv'
         /\ \A l \in Leads : lead'[l].user # lead[l].user =>
              /\ run.user[l] # NoUser /\ lead'[l].user = run.user[l]
<1>1. /\ \A l \in Leads : lead'[l] = IF run.user[l] = NoUser THEN lead[l]
                                     ELSE [lead[l] EXCEPT !.user = run.user[l]]
      /\ lead' = [l \in Leads |-> lead'[l]]
      /\ run' = NoRun /\ UNCHANGED <<session, roster>>
  BY DEF RunCommit
<1>2. \A l \in Leads : lead[l] \in LeadRow /\ run.user[l] \in UserIds
  BY DEF IInv, Typed, IsRun
<1>3. \A l \in Leads : /\ lead'[l] \in LeadRow
                       /\ lead'[l].user = IF run.user[l] = NoUser THEN lead[l].user
                                          ELSE run.user[l]
  BY <1>1, <1>2 DEF LeadRow
<1>4. lead' \in [Leads -> LeadRow]
  BY <1>1, <1>3
<1> QED
  BY <1>1, <1>3, <1>4, RunEndsSound

-----------------------------------------------------------------------------
(* The people *)

\* somebody writes a lead that the run has not written
LEMMA PersonSound ==
  ASSUME IInv, NEW l \in Leads, NEW r \in LeadRow, Unlocked(l),
         lead' = [lead EXCEPT ![l] = r], Outdated({}, {l}), UNCHANGED <<session, roster>>
  PROVE  IInv'
<1>1. CASE run.pc = "running"
  <2>1. run' = [run EXCEPT !.teams_changed = @ \cup {}, !.leads_changed = @ \cup {l}]
    BY <1>1 DEF Outdated
  <2>2. /\ IsRun(run') /\ run'.pc = run.pc /\ run'.open = run.open
        /\ run'.user = run.user /\ run'.roster = run.roster
        /\ run'.leads_changed = run.leads_changed \cup {l}
    BY <2>1 DEF IInv, Typed, IsRun
  <2>3. Typed'
    BY <2>2 DEF IInv, Typed, IsPlan, IsRun
  <2>4. run.user[l] = NoUser
    BY <1>1 DEF Unlocked
  <2>5. Settled' = Settled \ {l}
    BY <2>2 DEF Settled
  <2>6. \A k \in Leads : run.user[k] # NoUser => k \in Settled'
    BY <1>1, <2>4, <2>5 DEF IInv, RunSound
  <2>7. \A k \in Settled' : lead'[k] = lead[k]
    BY <2>5 DEF IInv, Typed, Settled, IsRun
  <2> QED
    BY <2>2, <2>3, <2>6, <2>7, SoundKept DEF IInv
<1>2. CASE run.pc # "running"
  <2>1. run' = run
    BY <1>2 DEF Outdated
  <2> QED
    BY <1>2, <2>1 DEF IInv, Typed, RunSound, IsPlan, IsRun
<1> QED
  BY <1>1, <1>2

LEMMA PeopleSound ==
  ASSUME IInv, NEW l \in Leads,
         \/ \E u \in Named \cup {NoUser} : SetSalesperson(l, u)
         \/ MarkLost(l)
  PROVE  IInv'
<1>0. lead[l] \in LeadRow
  BY DEF IInv, Typed
<1>1. ASSUME NEW u \in Named \cup {NoUser}, SetSalesperson(l, u) PROVE IInv'
  <2> DEFINE r == [lead[l] EXCEPT !.user = u]
  <2>1. r \in LeadRow
    BY <1>0, ConstantsAssumption DEF LeadRow, UserIds
  <2>2. lead' = [lead EXCEPT ![l] = r]
    BY <1>1 DEF SetSalesperson
  <2> HIDE DEF r
  <2> QED
    BY <1>1, <2>1, <2>2, PersonSound DEF SetSalesperson
<1>2. CASE MarkLost(l)
  <2> DEFINE r == [lead[l] EXCEPT !.active = FALSE]
  <2>1. r \in LeadRow
    BY <1>0 DEF LeadRow
  <2>2. lead' = [lead EXCEPT ![l] = r]
    BY <1>2 DEF MarkLost
  <2> HIDE DEF r
  <2> QED
    BY <1>2, <2>1, <2>2, PersonSound DEF MarkLost
<1> QED
  BY <1>1, <1>2

\* a step of a request that writes no lead
LEMMA NothingWritten ==
  ASSUME IInv, Typed', UNCHANGED <<lead, run>>
  PROVE  IInv'
BY DEF IInv, RunSound, Settled, Eligible

LEMMA SessionsSound ==
  ASSUME IInv, NEW s \in Sessions,
         \/ \E t \in Teams, c \in Companies \cup {NoCompany} :
              \/ \E n \in 1..MaxCreate : CreatePlanned(s, t, c, n)
              \/ \E u \in Named \cup {NoUser} : CreateGiven(s, t, c, u)
         \/ CreateCommit(s)
         \/ CreateRollback(s)
  PROVE  IInv'
<1>1. IsPlan(NoPlan)
  BY DEF IsPlan, NoPlan
<1>2. ASSUME session' = [session EXCEPT ![s] = NoPlan]
      PROVE  /\ session' = [v \in Sessions |-> session'[v]]
             /\ \A v \in Sessions : IsPlan(session'[v])
  BY <1>1, <1>2 DEF IInv, Typed
<1>3. CASE CreateRollback(s)
  <2>1. Typed'
    BY <1>2, <1>3 DEF CreateRollback, IInv, Typed, IsRun
  <2> QED
    BY <1>3, <2>1, NothingWritten DEF CreateRollback
<1>4. CASE CreateCommit(s)
  <2>1. /\ lead' \in [Leads -> LeadRow]
        /\ \A l \in Leads : lead[l] # NoLead => lead'[l] = lead[l]
        /\ IsRun(run)' /\ run'.pc = run.pc /\ run'.open = run.open
        /\ run'.leads_changed = run.leads_changed /\ run'.user = run.user
        /\ run'.roster = run.roster
    BY <1>4, CommitWrites DEF IInv
  <2>2. Typed'
    BY <1>2, <1>4, <2>1 DEF CreateCommit, IInv, Typed
  <2>3. CASE run.pc = "running"
    <3>1. \A l \in Settled : l \in Leads /\ lead[l].active
      BY <2>3 DEF IInv, RunSound, Typed, IsRun, Settled
    <3>2. Settled' = Settled /\ \A l \in Settled' : lead'[l] = lead[l]
      BY <2>1, <3>1 DEF Settled, NoLead
    <3>3. \A l \in Leads : run.user[l] # NoUser => l \in Settled'
      BY <2>3, <3>2 DEF IInv, RunSound
    <3> QED
      BY <2>1, <2>2, <3>2, <3>3, SoundKept DEF IInv
  <2>4. CASE run.pc # "running"
    BY <2>1, <2>2, <2>4 DEF IInv, RunSound
  <2> QED
    BY <2>3, <2>4
<1>5. ASSUME NEW t \in Teams, NEW c \in Companies \cup {NoCompany},
             \/ \E n \in 1..MaxCreate : CreatePlanned(s, t, c, n)
             \/ \E u \in Named \cup {NoUser} : CreateGiven(s, t, c, u)
      PROVE  IInv'
  BY <1>5, CreatesTyped, NothingWritten DEF IInv, CompanyIds
<1> QED
  BY <1>3, <1>4, <1>5

LEMMA RosterSound ==
  ASSUME IInv, NEW r \in Rosters, ChangeRoster(r)
  PROVE  IInv'
<1>1. \A s \in Sessions : session'[s] =
        [session[s] EXCEPT !.current = (@ /\ session[s].pc = "idle")]
  BY DEF ChangeRoster
<1>2. session' = [s \in Sessions |-> session'[s]]
  BY DEF ChangeRoster
<1>3. ASSUME NEW s \in Sessions PROVE IsPlan(session'[s])
  <2> DEFINE current == session[s].current /\ session[s].pc = "idle"
  <2>1. IsPlan(session[s]) /\ session'[s] = [session[s] EXCEPT !.current = current]
    BY <1>1 DEF IInv, Typed
  <2> HIDE DEF current
  <2> QED
    BY <2>1 DEF IsPlan
<1>4. Typed' /\ UNCHANGED <<lead, run>>
  BY <1>2, <1>3 DEF ChangeRoster, IInv, Typed, IsRun
<1> QED
  BY <1>4, NothingWritten

-----------------------------------------------------------------------------
LEMMA Initially == Init => IInv
<1> SUFFICES ASSUME Init PROVE IInv
  OBVIOUS
<1>1. NoLead \in LeadRow /\ IsPlan(NoPlan) /\ IsRun(NoRun) /\ NoRun.pc # "running"
  BY DEF NoLead, LeadRow, CompanyIds, UserIds, IsPlan, NoPlan, IsRun, NoRun
<1> QED
  BY <1>1 DEF Init, IInv, Typed, RunSound

LEMMA IInvIsInductive == IInv /\ [Next]_vars => IInv'
<1> SUFFICES ASSUME IInv, [Next]_vars PROVE IInv'
  OBVIOUS
<1>1. CASE RunAbort
  BY <1>1, RunEndsSound DEF RunAbort, IInv, Typed
<1>2. ASSUME NEW t \in Teams, RunSkip(t) PROVE IInv'
  <2>1. /\ run' = [run EXCEPT !.todo = @ \ {t}] /\ UNCHANGED <<lead, session, roster>>
    BY <1>2 DEF RunSkip
  <2>2. /\ IsRun(run') /\ run'.pc = run.pc /\ run'.open = run.open
        /\ run'.leads_changed = run.leads_changed /\ run'.user = run.user
        /\ run'.roster = run.roster
    BY <2>1 DEF IInv, Typed, IsRun
  <2>3. Typed'
    BY <2>1, <2>2 DEF IInv, Typed, IsPlan, IsRun
  <2>4. Settled' = Settled
    BY <2>2 DEF Settled
  <2> QED
    BY <1>2, <2>1, <2>2, <2>3, <2>4, SoundKept DEF RunSkip, IInv, RunSound
<1>3. CASE UNCHANGED vars
  BY <1>3, NothingWritten DEF vars, IInv, Typed, IsPlan, IsRun
<1> QED
  BY <1>1, <1>2, <1>3, SessionsSound, RunStartSound, RunTeamSound, RunCommitSound,
     PeopleSound, RosterSound DEF Next, CatchUp

LEMMA Invariance == Spec => []IInv
BY Initially, IInvIsInductive, PTL DEF Spec

\* Whatever creations, salespeople picked by hand, lost leads and aborts the run
\* overlaps with, in any number: it gives no lead to anybody that has a
\* salesperson, or is no longer active, when it commits.
THEOREM NothingIsReassigned == Spec => NeverReassigned
<1>1. IInv /\ [Next]_vars =>
        [RunCommit => \A l \in Leads : lead'[l].user # lead[l].user
                        => lead[l].user = NoUser /\ lead[l].active]_vars
  <2> SUFFICES ASSUME IInv, RunCommit, NEW l \in Leads, lead'[l].user # lead[l].user
               PROVE  lead[l].user = NoUser /\ lead[l].active
    OBVIOUS
  <2>1. run.user[l] # NoUser /\ run.pc = "running"
    BY RunCommitSound DEF RunCommit
  <2> QED
    BY <2>1 DEF IInv, RunSound
<1> QED
  BY <1>1, Invariance, PTL DEF Spec, NeverReassigned

\* For any teams, rosters, companies and backlog: whom the run picks is a member
\* of the roster it reads, and allowed in the company of the lead.
THEOREM OnlyAllowedAreGiven == Spec => OnlyAllowed
<1>1. IInv /\ [Next]_vars =>
        [\A l \in Leads :
           RunCommit /\ lead'[l].user # lead[l].user
             => LET u == lead'[l].user
                    c == CompanyFor(lead[l].team, lead[l].company)
                IN  /\ u \in run.roster[lead[l].team].members
                    /\ c # NoCompany => c \in Allowed[u]]_vars
  <2> SUFFICES ASSUME IInv, NEW l \in Leads, RunCommit, lead'[l].user # lead[l].user
               PROVE  LET u == lead'[l].user
                          c == CompanyFor(lead[l].team, lead[l].company)
                      IN  /\ u \in run.roster[lead[l].team].members
                          /\ c # NoCompany => c \in Allowed[u]
    OBVIOUS
  <2>1. run.user[l] # NoUser /\ run.pc = "running" /\ lead'[l].user = run.user[l]
    BY RunCommitSound DEF RunCommit
  <2>2. run.user[l] \in Eligible(lead[l].team, lead[l].company)
    BY <2>1 DEF IInv, RunSound
  <2> QED
    BY <2>1, <2>2 DEF Eligible, Candidates
<1> QED
  BY <1>1, Invariance, PTL DEF Spec, OnlyAllowed

-----------------------------------------------------------------------------
(* Numbers: induction over a set, and remainders that go round            *)

\* Every set of numbers that has 0, and with a number its successor, has all.
LEMMA SetInduction ==
  ASSUME NEW S, 0 \in S, \A n \in Nat : n \in S => n + 1 \in S
  PROVE  \A n \in Nat : n \in S
<1> SUFFICES ASSUME NEW n \in Nat, n \notin S PROVE FALSE
  OBVIOUS
<1> DEFINE out == {m \in 0..n : m \notin S}
           least == MemberAt(out, 0)
<1>1. out \in SUBSET Nat /\ IsFiniteSet(out) /\ n \in out
  <2>1. IsFiniteSet(0..n)
    BY FS_Interval
  <2> QED
    BY <2>1, FS_Subset
<1>2. \A m \in out : m \in 0..n /\ m \notin S
  OBVIOUS
<1>3. \A m \in 0..n : m \notin S => m \in out
  OBVIOUS
<1> HIDE DEF out
<1>4. 0 \in 0..(Cardinality(out) - 1)
  BY <1>1, PositionIsBelow
<1>5. least \in out /\ Position(out, least) = 0
  BY <1>1, <1>4, MemberAtIsThere
<1> HIDE DEF least
<1>6. least - 1 \in 0..n
  BY <1>2, <1>5
<1>7. CASE least - 1 \in out
  <2>1. Position(out, least - 1) \in Nat /\ least - 1 < least
    BY <1>1, <1>5, <1>7, PositionIsBelow
  <2>2. least - 1 \in {v \in out : v < least}
    BY <1>7, <2>1
  <2>3. IsFiniteSet({v \in out : v < least})
    BY <1>1, FS_Subset
  <2> QED
    BY <1>5, <2>2, <2>3, FS_EmptySet DEF Position
<1>8. CASE least - 1 \notin out
  <2>1. least - 1 \in S
    BY <1>3, <1>6, <1>8
  <2>2. (least - 1) + 1 \in S
    BY <1>6, <2>1
  <2> QED
    BY <1>2, <1>5, <2>2, <1>6
<1> QED
  BY <1>7, <1>8

LEMMA TimesAtLeast ==
  ASSUME NEW c \in Nat \ {0}, NEW d \in Int
  PROVE  (d >= 1 => c * d >= c) /\ (d <= -1 => c * d <= -c) /\ (d >= 2 => c * d >= c + c) /\ c * 0 = 0 /\ c * 1 = c
OBVIOUS

\* The remainders of successive numbers go round.
LEMMA NextRemainder ==
  ASSUME NEW x \in Nat, NEW c \in Nat \ {0}
  PROVE  (x + 1) % c = IF (x % c) + 1 = c THEN 0 ELSE (x % c) + 1
<1> DEFINE q == x \div c
           r == x % c
           q2 == (x + 1) \div c
           r2 == (x + 1) % c
<1>1. q \in Int /\ r \in 0..(c - 1) /\ x = c * q + r
  OBVIOUS
<1>2. q2 \in Int /\ r2 \in 0..(c - 1) /\ x + 1 = c * q2 + r2
  OBVIOUS
<1> HIDE DEF q, r, q2, r2
<1>3. c * (q2 - q) = (r + 1) - r2
  <2>1. c * (q2 - q) = c * q2 - c * q
    BY <1>1, <1>2
  <2> QED
    BY <1>1, <1>2, <2>1
<1>4. q2 - q \in Int /\ (q2 - q = 0 \/ q2 - q = 1)
  <2>1. q2 - q \in Int
    BY <1>1, <1>2
  <2> DEFINE d == q2 - q
  <2> HIDE DEF d
  <2>2. d \in Int /\ c * d = (r + 1) - r2
    BY <1>3, <2>1 DEF d
  <2>3. ~(d >= 2) /\ ~(d <= -1)
    BY <1>1, <1>2, <2>2, TimesAtLeast
  <2> QED
    BY <2>2, <2>3 DEF d
<1>5. c * (q2 - q) = 0 \/ c * (q2 - q) = c
  BY <1>4, TimesAtLeast
<1>6. r2 = IF r + 1 = c THEN 0 ELSE r + 1
  BY <1>1, <1>2, <1>3, <1>5
<1> QED
  BY <1>6 DEF r, r2

LEMMA SmallRemainder ==
  ASSUME NEW c \in Nat \ {0}, NEW x \in 0..(c - 1)
  PROVE  x % c = x
OBVIOUS

LEMMA FullRemainder ==
  ASSUME NEW c \in Nat \ {0}
  PROVE  c % c = 0
OBVIOUS

LEMMA MemberAtPosition ==
  ASSUME NEW ids \in SUBSET Nat, IsFiniteSet(ids), NEW u \in ids
  PROVE  MemberAt(ids, Position(ids, u)) = u
<1>1. /\ MemberAt(ids, Position(ids, u)) \in ids
      /\ Position(ids, MemberAt(ids, Position(ids, u))) = Position(ids, u)
  BY PositionIsBelow, MemberAtIsThere
<1>2. ASSUME NEW v \in ids, v # u PROVE Position(ids, v) # Position(ids, u)
  <2>1. u < v \/ v < u
    BY <1>2
  <2> QED
    BY <2>1, PositionGrows
<1> QED
  BY <1>1, <1>2

\* whose turn it is after the last one served
NextUp(ids, last) == Start(ids, last) % Cardinality(ids)

LEMMA NextUpIsBelow ==
  ASSUME NEW ids \in SUBSET Nat, IsFiniteSet(ids), ids # {}, NEW last
  PROVE  /\ Start(ids, last) \in Nat /\ Cardinality(ids) \in Nat \ {0}
         /\ NextUp(ids, last) \in 0..(Cardinality(ids) - 1)
<1>1. PICK u \in ids : TRUE
  OBVIOUS
<1>2. Cardinality(ids) \in Nat \ {0}
  BY <1>1, PositionIsBelow
<1>3. Start(ids, last) \in Nat
  <2>1. last \in ids => Position(ids, last) \in Nat
    BY <1>2, PositionIsBelow
  <2> QED
    BY <2>1 DEF Start
<1> QED
  BY <1>2, <1>3, RemainderIsBelow DEF NextUp

\* The n-th pick has the position it is looked for at, and the next one after.
LEMMA PickPosition ==
  ASSUME NEW ids \in SUBSET Nat, IsFiniteSet(ids), ids # {}, NEW last,
         NEW n \in Nat \ {0}
  PROVE  /\ Pick(ids, last, n) \in ids
         /\ Position(ids, Pick(ids, last, n)) = (Start(ids, last) + (n - 1)) % Cardinality(ids)
         /\ NextUp(ids, Pick(ids, last, n)) = (Start(ids, last) + n) % Cardinality(ids)
<1> DEFINE c == Cardinality(ids)
           x == Start(ids, last) + (n - 1)
           u == Pick(ids, last, n)
<1>1. c \in Nat \ {0} /\ Start(ids, last) \in Nat
  BY NextUpIsBelow
<1>2. x \in Nat /\ Start(ids, last) + n - 1 = x /\ Start(ids, last) + n = x + 1
  BY <1>1
<1>3. u = MemberAt(ids, x % c)
  BY <1>2 DEF Pick
<1>4. x % c \in 0..(c - 1)
  BY <1>1, <1>2, RemainderIsBelow
<1>5. u \in ids /\ Position(ids, u) = x % c
  BY <1>3, <1>4, MemberAtIsThere
<1>6. Start(ids, u) = (x % c) + 1
  BY <1>5 DEF Start
<1> HIDE DEF x, c, u
<1>7. ((x % c) + 1) % c = (x + 1) % c
  <2> DEFINE r == x % c
  <2>1. (x + 1) % c = IF r + 1 = c THEN 0 ELSE r + 1
    BY <1>1, <1>2, NextRemainder
  <2>2. r \in 0..(c - 1)
    BY <1>4
  <2> HIDE DEF r
  <2>3. CASE r + 1 = c
    BY <2>1, <2>3, <1>1, FullRemainder DEF r
  <2>4. CASE r + 1 # c
    <3>1. r + 1 \in 0..(c - 1)
      BY <1>1, <2>2, <2>4
    <3> QED
      BY <2>1, <2>4, <3>1, <1>1, SmallRemainder DEF r
  <2> QED
    BY <2>3, <2>4
<1> QED
  BY <1>2, <1>5, <1>6, <1>7 DEF NextUp, u, c, x

-----------------------------------------------------------------------------
(* Shares as arcs of the rotation *)

\* the positions served when the rotation has gone on from e to s
InArc(e, s, p) == IF e <= s THEN e <= p /\ p < s ELSE e <= p \/ p < s

Extra(e, s, p) == IF InArc(e, s, p) THEN 1 ELSE 0

\* everybody has had the same share, and those from e to before s one more
Arc(ids, g, e, s) ==
  \E b \in Nat : \A u \in ids : g[u] = b + Extra(e, s, Position(ids, u))

LEMMA ExtrasAdd ==
  ASSUME NEW c \in Nat \ {0}, NEW e \in 0..(c - 1), NEW m \in 0..(c - 1), NEW s \in 0..(c - 1)
  PROVE  \E k \in {0, 1} : \A p \in 0..(c - 1) :
           Extra(e, m, p) + Extra(m, s, p) = Extra(e, s, p) + k
<1>1. CASE \A p \in 0..(c - 1) : Extra(e, m, p) + Extra(m, s, p) = Extra(e, s, p)
  <2>1. \A p \in 0..(c - 1) : Extra(e, m, p) + Extra(m, s, p) = Extra(e, s, p) + 0
    BY <1>1 DEF Extra
  <2> QED
    BY <2>1
<1>2. CASE \A p \in 0..(c - 1) : Extra(e, m, p) + Extra(m, s, p) = Extra(e, s, p) + 1
  BY <1>2
<1>3. \/ \A p \in 0..(c - 1) : Extra(e, m, p) + Extra(m, s, p) = Extra(e, s, p)
      \/ \A p \in 0..(c - 1) : Extra(e, m, p) + Extra(m, s, p) = Extra(e, s, p) + 1
  <2>1. CASE e <= m /\ m <= s
    BY <2>1 DEF Extra, InArc
  <2>2. CASE e <= m /\ s < m /\ e <= s
    BY <2>2 DEF Extra, InArc
  <2>3. CASE e <= m /\ s < m /\ s < e
    BY <2>3 DEF Extra, InArc
  <2>4. CASE m < e /\ s < m
    BY <2>4 DEF Extra, InArc
  <2>5. CASE m < e /\ m <= s /\ e <= s
    BY <2>5 DEF Extra, InArc
  <2>6. CASE m < e /\ m <= s /\ s < e
    BY <2>6 DEF Extra, InArc
  <2> QED
    BY <2>1, <2>2, <2>3, <2>4, <2>5, <2>6
<1> QED
  BY <1>1, <1>2, <1>3

\* Two rounds that follow each other are one.
LEMMA ArcsJoin ==
  ASSUME NEW ids \in SUBSET Nat, IsFiniteSet(ids), NEW f, NEW g, NEW h,
         NEW e \in 0..(Cardinality(ids) - 1), NEW m \in 0..(Cardinality(ids) - 1),
         NEW s \in 0..(Cardinality(ids) - 1),
         Arc(ids, f, e, m), Arc(ids, g, m, s), \A u \in ids : h[u] = f[u] + g[u]
  PROVE  Arc(ids, h, e, s)
<1>1. Cardinality(ids) \in Nat \ {0}
  BY FS_CardinalityType
<1>2. PICK a \in Nat : \A u \in ids : f[u] = a + Extra(e, m, Position(ids, u))
  BY DEF Arc
<1>3. PICK b \in Nat : \A u \in ids : g[u] = b + Extra(m, s, Position(ids, u))
  BY DEF Arc
<1>4. PICK k \in {0, 1} : \A p \in 0..(Cardinality(ids) - 1) :
                            Extra(e, m, p) + Extra(m, s, p) = Extra(e, s, p) + k
  BY <1>1, ExtrasAdd
<1>5. \A u \in ids : h[u] = (a + b + k) + Extra(e, s, Position(ids, u))
  <2> SUFFICES ASSUME NEW u \in ids
               PROVE  h[u] = (a + b + k) + Extra(e, s, Position(ids, u))
    OBVIOUS
  <2> DEFINE p == Position(ids, u)
  <2>1. p \in 0..(Cardinality(ids) - 1)
    BY PositionIsBelow
  <2> HIDE DEF p
  <2>2. Extra(e, m, p) + Extra(m, s, p) = Extra(e, s, p) + k
    BY <1>4, <2>1
  <2>3. Extra(e, m, p) \in Nat /\ Extra(m, s, p) \in Nat /\ Extra(e, s, p) \in Nat
    BY DEF Extra
  <2>4. h[u] = (a + Extra(e, m, p)) + (b + Extra(m, s, p))
    BY <1>2, <1>3 DEF p
  <2> QED
    BY <2>2, <2>3, <2>4, <1>4 DEF p
<1>6. a + b + k \in Nat
  BY <1>2, <1>3, <1>4
<1> QED
  BY <1>5, <1>6 DEF Arc

\* Equal shares are an arc from anywhere to where it began.
LEMMA ArcOfEqual ==
  ASSUME NEW ids \in SUBSET Nat, IsFiniteSet(ids), NEW g, NEW b \in Nat,
         NEW s \in 0..(Cardinality(ids) - 1), \A u \in ids : g[u] = b
  PROVE  Arc(ids, g, s, s)
<1>1. \A u \in ids : Extra(s, s, Position(ids, u)) = 0
  <2> SUFFICES ASSUME NEW u \in ids PROVE Extra(s, s, Position(ids, u)) = 0
    OBVIOUS
  <2> DEFINE p == Position(ids, u)
  <2>1. p \in 0..(Cardinality(ids) - 1) /\ Cardinality(ids) \in Nat
    BY PositionIsBelow
  <2> HIDE DEF p
  <2>2. Extra(s, s, p) = 0
    BY <2>1 DEF Extra, InArc
  <2> QED
    BY <2>2 DEF p
<1> QED
  BY <1>1 DEF Arc

LEMMA OneTurn ==
  ASSUME NEW c \in Nat \ {0}, NEW s \in 0..(c - 1), NEW n \in 0..(c - 1),
         n = IF s + 1 = c THEN 0 ELSE s + 1
  PROVE  \E k \in {0, 1} : \A p \in 0..(c - 1) :
           (IF p = s THEN 1 ELSE 0) = k + Extra(s, n, p)
<1>1. CASE s + 1 = c /\ s = 0
  <2>1. \A p \in 0..(c - 1) : (IF p = s THEN 1 ELSE 0) = 1 + Extra(s, n, p)
    BY <1>1 DEF Extra, InArc
  <2> QED
    BY <2>1
<1>2. CASE ~(s + 1 = c /\ s = 0)
  <2>1. \A p \in 0..(c - 1) : (IF p = s THEN 1 ELSE 0) = 0 + Extra(s, n, p)
    BY <1>2 DEF Extra, InArc
  <2> QED
    BY <2>1
<1> QED
  BY <1>1, <1>2

\* how often u is among the first n picks
Served(ids, last, n, u) == Cardinality({i \in 1..n : Pick(ids, last, i) = u})

LEMMA OneMoreServed ==
  ASSUME NEW ids, NEW last, NEW n \in Nat, NEW u
  PROVE  /\ Served(ids, last, n, u) \in Nat
         /\ Served(ids, last, n + 1, u) =
              Served(ids, last, n, u) + (IF Pick(ids, last, n + 1) = u THEN 1 ELSE 0)
<1> DEFINE before == {i \in 1..n : Pick(ids, last, i) = u}
           after == {i \in 1..(n + 1) : Pick(ids, last, i) = u}
<1>1. IsFiniteSet(before)
  <2>1. IsFiniteSet(1..n)
    BY FS_Interval
  <2> QED
    BY <2>1, FS_Subset
<1>2. n + 1 \notin before
  OBVIOUS
<1>3. 1..(n + 1) = (1..n) \cup {n + 1}
  OBVIOUS
<1>4. CASE Pick(ids, last, n + 1) = u
  <2>1. after = before \cup {n + 1}
    BY <1>3, <1>4
  <2> HIDE DEF before, after
  <2>2. Cardinality(before \cup {n + 1}) = Cardinality(before) + 1 /\ Cardinality(before) \in Nat
    BY <1>1, <1>2, FS_AddElement, FS_CardinalityType
  <2> QED
    BY <1>4, <2>1, <2>2 DEF Served, before, after
<1>5. CASE Pick(ids, last, n + 1) # u
  <2>1. after = before
    BY <1>3, <1>5
  <2> HIDE DEF before, after
  <2>2. Cardinality(before) \in Nat
    BY <1>1, FS_CardinalityType
  <2> QED
    BY <1>5, <2>1, <2>2 DEF Served, before, after
<1> QED
  BY <1>4, <1>5

\* Picks in a row serve an arc: nobody twice before everybody once.
LEMMA PicksServeAnArc ==
  ASSUME NEW ids \in SUBSET Nat, IsFiniteSet(ids), ids # {}, NEW last
  PROVE  \A n \in Nat : Arc(ids, [u \in ids |-> Served(ids, last, n, u)], NextUp(ids, last),
                            (Start(ids, last) + n) % Cardinality(ids))
<1> DEFINE c == Cardinality(ids)
           first == Start(ids, last)
           from == NextUp(ids, last)
           share(n) == [u \in ids |-> Served(ids, last, n, u)]
           S == {n \in Nat : Arc(ids, share(n), from, (first + n) % c)}
<1>1. c \in Nat \ {0} /\ first \in Nat /\ from \in 0..(c - 1)
  BY NextUpIsBelow
<1>2. 0 \in S
  <2>1. \A u \in ids : share(0)[u] = 0
    <3>1. \A u \in ids : {i \in 1..0 : Pick(ids, last, i) = u} = {}
      OBVIOUS
    <3> QED
      BY <3>1, FS_EmptySet DEF Served
  <2>2. (first + 0) % c = from
    BY <1>1 DEF NextUp
  <2> HIDE DEF share, c, first, from
  <2>3. Arc(ids, share(0), from, from)
    BY <1>1, <2>1, ArcOfEqual DEF c
  <2> QED
    BY <2>2, <2>3
<1>3. ASSUME NEW n \in Nat, n \in S PROVE n + 1 \in S
  <2> DEFINE m == (first + n) % c
             s == (first + (n + 1)) % c
             q == Pick(ids, last, n + 1)
             one == [u \in ids |-> IF q = u THEN 1 ELSE 0]
  <2>0. first + n \in Nat /\ first + (n + 1) = (first + n) + 1
    BY <1>1
  <2>1. m \in 0..(c - 1) /\ s \in 0..(c - 1)
    <3> HIDE DEF c, first
    <3>1. (first + n) + 1 \in Nat
      BY <2>0
    <3> QED
      BY <1>1, <2>0, <3>1, RemainderIsBelow
  <2>2. s = IF m + 1 = c THEN 0 ELSE m + 1
    <3> HIDE DEF c, first
    <3>1. ((first + n) + 1) % c = IF ((first + n) % c) + 1 = c THEN 0 ELSE ((first + n) % c) + 1
      BY <1>1, <2>0, NextRemainder
    <3> QED
      BY <2>0, <3>1
  <2>3. q \in ids /\ Position(ids, q) = m
    <3>1. n + 1 \in Nat \ {0} /\ (n + 1) - 1 = n
      OBVIOUS
    <3> QED
      BY <3>1, PickPosition
  <2>4. Arc(ids, share(n), from, m)
    BY <1>3
  <2>5. \A u \in ids : share(n + 1)[u] = share(n)[u] + one[u]
    BY OneMoreServed
  <2> HIDE DEF share, m, s, c, first, from, q
  <2>6. \A u \in ids : one[u] = IF Position(ids, u) = m THEN 1 ELSE 0
    BY <2>3, MemberAtPosition
  <2>7. PICK k \in {0, 1} : \A p \in 0..(c - 1) : (IF p = m THEN 1 ELSE 0) = k + Extra(m, s, p)
    <3>1. c \in Nat \ {0}
      BY <1>1
    <3> QED
      BY <2>1, <2>2, <3>1, OneTurn
  <2>8. \A u \in ids : one[u] = k + Extra(m, s, Position(ids, u))
    <3> SUFFICES ASSUME NEW u \in ids PROVE one[u] = k + Extra(m, s, Position(ids, u))
      OBVIOUS
    <3>1. Position(ids, u) \in 0..(c - 1)
      BY PositionIsBelow DEF c
    <3> QED
      BY <2>6, <2>7, <3>1
  <2> HIDE DEF one
  <2>9. Arc(ids, one, m, s)
    BY <2>7, <2>8 DEF Arc
  <2>10. Arc(ids, share(n + 1), from, s)
    BY <1>1, <2>1, <2>4, <2>5, <2>9, ArcsJoin DEF c
  <2> QED
    BY <2>10 DEF s
<1> HIDE DEF S
<1>4. \A n \in Nat : n \in S
  BY <1>2, <1>3, SetInduction
<1> QED
  BY <1>4 DEF S

LEMMA PicksArc ==
  ASSUME NEW ids \in SUBSET Nat, IsFiniteSet(ids), ids # {}, NEW last, NEW n \in Nat \ {0}
  PROVE  Arc(ids, [u \in ids |-> Served(ids, last, n, u)], NextUp(ids, last),
             NextUp(ids, Pick(ids, last, n)))
BY PicksServeAnArc, PickPosition

LEMMA ArcExt ==
  ASSUME NEW ids, NEW f, NEW g, NEW e, NEW s, Arc(ids, f, e, s), \A u \in ids : g[u] = f[u]
  PROVE  Arc(ids, g, e, s)
BY DEF Arc

-----------------------------------------------------------------------------
(* The buckets of a team *)

Found(leads) == {lead[l].company : l \in leads}

\* the first lead of a bucket
First(leads, c) == MemberAt(Bucket(leads, c), 0)

LEMMA FirstIsLeast ==
  ASSUME NEW ids \in SUBSET Nat, IsFiniteSet(ids), ids # {}
  PROVE  /\ MemberAt(ids, 0) \in ids
         /\ \A k \in ids : MemberAt(ids, 0) <= k
<1>1. PICK u \in ids : TRUE
  OBVIOUS
<1>2. 0 \in 0..(Cardinality(ids) - 1)
  BY PositionIsBelow
<1> DEFINE m == MemberAt(ids, 0)
<1>3. m \in ids /\ Position(ids, m) = 0
  BY <1>2, MemberAtIsThere
<1> HIDE DEF m
<1>4. ASSUME NEW k \in ids, k < m PROVE FALSE
  <2>1. IsFiniteSet({v \in ids : v < m})
    BY FS_Subset
  <2> QED
    BY <1>3, <1>4, <2>1, FS_EmptySet DEF Position
<1>5. \A k \in ids : m <= k
  <2>1. \A k \in ids : k \in Nat /\ m \in Nat
    BY <1>3
  <2> QED
    BY <2>1, <1>4
<1> QED
  BY <1>3, <1>5 DEF m

LEMMA BucketFacts ==
  ASSUME NEW leads \in SUBSET Nat, IsFiniteSet(leads), NEW c \in Found(leads)
  PROVE  /\ Bucket(leads, c) \in SUBSET leads /\ Bucket(leads, c) \in SUBSET Nat
         /\ IsFiniteSet(Bucket(leads, c)) /\ Bucket(leads, c) # {}
         /\ First(leads, c) \in Bucket(leads, c)
         /\ \A k \in Bucket(leads, c) : First(leads, c) <= k
<1>1. /\ Bucket(leads, c) \in SUBSET leads /\ Bucket(leads, c) \in SUBSET Nat
      /\ Bucket(leads, c) # {}
  BY DEF Bucket, Found
<1>2. IsFiniteSet(Bucket(leads, c))
  BY <1>1, FS_Subset
<1> QED
  BY <1>1, <1>2, FirstIsLeast DEF First

LEMMA SameSize ==
  ASSUME NEW S, NEW T, NEW f \in Bijection(S, T), IsFiniteSet(T)
  PROVE  IsFiniteSet(S) /\ Cardinality(S) = Cardinality(T)
<1>1. f \in Injection(S, T) /\ f \in Surjection(S, T)
  BY DEF Bijection
<1> QED
  BY <1>1, FS_Injection

\* The buckets come in the order of their first leads.
LEMMA BeforeIsPosition ==
  ASSUME NEW leads \in SUBSET Nat, IsFiniteSet(leads), NEW c \in Found(leads)
  PROVE  LET firsts == {First(leads, d) : d \in Found(leads)}
         IN  /\ firsts \in SUBSET Nat /\ IsFiniteSet(firsts)
             /\ Cardinality(firsts) = Cardinality(Found(leads))
             /\ Before(leads, c) = Position(firsts, First(leads, c))
<1> DEFINE firsts == {First(leads, d) : d \in Found(leads)}
           earlier == {d \in Found(leads) : First(leads, d) < First(leads, c)}
           ahead == {v \in firsts : v < First(leads, c)}
           key == [d \in Found(leads) |-> First(leads, d)]
           part == [d \in earlier |-> First(leads, d)]
<1>1. \A d \in Found(leads) : First(leads, d) \in Bucket(leads, d) /\ First(leads, d) \in leads
                              /\ First(leads, d) \in Nat /\ lead[First(leads, d)].company = d
  <2> SUFFICES ASSUME NEW d \in Found(leads)
               PROVE  First(leads, d) \in Bucket(leads, d) /\ First(leads, d) \in leads
                      /\ First(leads, d) \in Nat /\ lead[First(leads, d)].company = d
    OBVIOUS
  <2> QED
    BY BucketFacts DEF Bucket
<1>2. firsts \in SUBSET leads /\ firsts \in SUBSET Nat
  BY <1>1
<1>3. IsFiniteSet(firsts)
  BY <1>2, FS_Subset
<1>4. key \in Bijection(Found(leads), firsts)
  BY <1>1 DEF Bijection, Injection, Surjection, IsInjective
<1>5. part \in Bijection(earlier, ahead)
  BY <1>1 DEF Bijection, Injection, Surjection, IsInjective
<1>6. IsFiniteSet(Found(leads)) /\ Cardinality(Found(leads)) = Cardinality(firsts)
  <2> HIDE DEF key, firsts
  <2> QED
    BY <1>3, <1>4, SameSize
<1>7. Cardinality(earlier) = Cardinality(ahead)
  <2>1. IsFiniteSet(ahead)
    BY <1>3, FS_Subset
  <2> HIDE DEF part, earlier, ahead
  <2> QED
    BY <1>5, <2>1, SameSize
<1>8. \A d \in Found(leads) :
        (\E l \in Bucket(leads, d) : \A k \in Bucket(leads, c) : l < k)
          <=> First(leads, d) < First(leads, c)
  <2> SUFFICES ASSUME NEW d \in Found(leads)
               PROVE  (\E l \in Bucket(leads, d) : \A k \in Bucket(leads, c) : l < k)
                        <=> First(leads, d) < First(leads, c)
    OBVIOUS
  <2>1. /\ First(leads, d) \in Bucket(leads, d) /\ Bucket(leads, d) \in SUBSET Nat
        /\ \A k \in Bucket(leads, d) : First(leads, d) <= k
    BY BucketFacts
  <2>2. /\ First(leads, c) \in Bucket(leads, c) /\ Bucket(leads, c) \in SUBSET Nat
        /\ \A k \in Bucket(leads, c) : First(leads, c) <= k
    BY BucketFacts
  <2>3. ASSUME First(leads, d) < First(leads, c), NEW k \in Bucket(leads, c)
        PROVE  First(leads, d) < k
    BY <2>1, <2>2, <2>3
  <2>4. ASSUME NEW l \in Bucket(leads, d), \A k \in Bucket(leads, c) : l < k
        PROVE  First(leads, d) < First(leads, c)
    BY <2>1, <2>2, <2>4
  <2> QED
    BY <2>1, <2>3, <2>4
<1>9. Before(leads, c) = Cardinality(earlier)
  <2>1. {d \in Found(leads) : \E l \in Bucket(leads, d) : \A k \in Bucket(leads, c) : l < k}
          = earlier
    BY <1>8
  <2> QED
    BY <2>1 DEF Before, Found
<1> QED
  BY <1>2, <1>3, <1>6, <1>7, <1>9 DEF Position

LEMMA BucketsInOrder ==
  ASSUME NEW leads \in SUBSET Nat, IsFiniteSet(leads)
  PROVE  /\ Cardinality(Found(leads)) \in Nat
         /\ DOMAIN BucketOrder(leads) = 1..Cardinality(Found(leads))
         /\ Cardinality(DOMAIN BucketOrder(leads)) = Cardinality(Found(leads))
         /\ \A c \in Found(leads) : /\ Before(leads, c) \in 0..(Cardinality(Found(leads)) - 1)
                                    /\ BucketOrder(leads)[Before(leads, c) + 1] = c
         /\ \A n \in 1..Cardinality(Found(leads)) : /\ BucketOrder(leads)[n] \in Found(leads)
                                                    /\ Before(leads, BucketOrder(leads)[n]) = n - 1
<1> DEFINE firsts == {First(leads, d) : d \in Found(leads)}
           count == Cardinality(Found(leads))
           order == BucketOrder(leads)
<1>1. \A c \in Found(leads) : 
             /\ firsts \in SUBSET Nat /\ IsFiniteSet(firsts)
             /\ Cardinality(firsts) = count
             /\ Before(leads, c) = Position(firsts, First(leads, c))
  BY BeforeIsPosition
<1>2. IsFiniteSet(Found(leads)) /\ count \in Nat
  <2>1. CASE Found(leads) = {}
    BY <2>1, FS_EmptySet
  <2>2. CASE Found(leads) # {}
    <3>1. firsts \in SUBSET Nat /\ IsFiniteSet(firsts) /\ Cardinality(firsts) = count
      BY <1>1, <2>2
    <3> DEFINE f == [l \in leads |-> lead[l].company]
    <3>2. f \in Surjection(leads, Found(leads))
      BY DEF Surjection, Found
    <3> HIDE DEF f
    <3>3. IsFiniteSet(Found(leads))
      BY <3>2, FS_Surjection
    <3> QED
      BY <3>3, FS_CardinalityType
  <2> QED
    BY <2>1, <2>2
<1>3. /\ DOMAIN order = 1..count
      /\ \A n \in 1..count : order[n] = CHOOSE c \in Found(leads) : Before(leads, c) = n - 1
  BY DEF BucketOrder, Found
<1>4. Cardinality(1..count) = count
  BY <1>2, FS_Interval
<1>5. ASSUME NEW c \in Found(leads), NEW d \in Found(leads), Before(leads, c) = Before(leads, d)
      PROVE  c = d
  <2>1. First(leads, c) \in firsts /\ First(leads, d) \in firsts
    OBVIOUS
  <2>2. MemberAt(firsts, Before(leads, c)) = First(leads, c)
    BY <1>1, <2>1, MemberAtPosition
  <2>3. MemberAt(firsts, Before(leads, d)) = First(leads, d)
    BY <1>1, <2>1, MemberAtPosition
  <2>4. First(leads, c) = First(leads, d)
    BY <1>5, <2>2, <2>3
  <2>5. First(leads, c) \in Bucket(leads, c) /\ First(leads, d) \in Bucket(leads, d)
    BY BucketFacts
  <2> HIDE DEF firsts
  <2> QED
    BY <2>4, <2>5 DEF Bucket
<1>6. ASSUME NEW n \in 1..count PROVE \E c \in Found(leads) : Before(leads, c) = n - 1
  <2>1. PICK d \in Found(leads) : TRUE
    <3>1. Found(leads) # {}
      BY <1>2, FS_EmptySet
    <3> QED
      BY <3>1
  <2>2. n - 1 \in 0..(Cardinality(firsts) - 1)
    BY <1>1, <1>2, <2>1
  <2>3. MemberAt(firsts, n - 1) \in firsts /\ Position(firsts, MemberAt(firsts, n - 1)) = n - 1
    BY <1>1, <2>1, <2>2, MemberAtIsThere
  <2> QED
    BY <1>1, <2>3
<1>7. ASSUME NEW c \in Found(leads) PROVE Before(leads, c) \in 0..(count - 1)
  <2>1. First(leads, c) \in firsts
    OBVIOUS
  <2> HIDE DEF firsts
  <2> QED
    BY <1>1, <2>1, PositionIsBelow
<1>8. ASSUME NEW n \in 1..count PROVE order[n] \in Found(leads) /\ Before(leads, order[n]) = n - 1
  BY <1>3, <1>6
<1>9. ASSUME NEW c \in Found(leads) PROVE order[Before(leads, c) + 1] = c
  <2> DEFINE n == Before(leads, c) + 1
  <2>1. n \in 1..count /\ n - 1 = Before(leads, c)
    BY <1>2, <1>7
  <2> HIDE DEF n, order
  <2>2. order[n] \in Found(leads) /\ Before(leads, order[n]) = n - 1
    BY <1>8, <2>1
  <2>3. order[n] = c
    BY <1>5, <2>1, <2>2
  <2> QED
    BY <2>3 DEF n
<1> QED
  BY <1>2, <1>3, <1>4, <1>7, <1>8, <1>9

-----------------------------------------------------------------------------
(* What the run gives to a team *)

\* who has been served last when the n-th bucket is given out after x
Serve(t, leads, n, x) ==
  LET ids == Eligible(t, BucketOrder(leads)[n])
  IN  IF ids = {} THEN x ELSE Pick(ids, x, Cardinality(Bucket(leads, BucketOrder(leads)[n])))

\* ServedLast is the function its recursive definition describes.
LEMMA ServedLastUnfolds ==
  ASSUME NEW leads, NEW t, Cardinality(DOMAIN BucketOrder(leads)) \in Nat
  PROVE  \A n \in 0..Cardinality(DOMAIN BucketOrder(leads)) :
           ServedLast(t, leads)[n] =
             IF n = 0 THEN run.pointer[t] ELSE Serve(t, leads, n, ServedLast(t, leads)[n - 1])
<1> DEFINE B == Cardinality(DOMAIN BucketOrder(leads))
           Is(f, k) == f = [n \in 0..k |-> IF n = 0 THEN run.pointer[t]
                                           ELSE Serve(t, leads, n, f[n - 1])]
           S == {k \in Nat : \E f : Is(f, k)}
<1>1. 0 \in S
  <2> DEFINE f == [n \in 0..0 |-> run.pointer[t]]
  <2>1. Is(f, 0)
    OBVIOUS
  <2> QED
    BY <2>1
<1>2. ASSUME NEW k \in Nat, k \in S PROVE k + 1 \in S
  <2>1. PICK f : Is(f, k)
    BY <1>2
  <2> DEFINE g == [n \in 0..(k + 1) |-> IF n = k + 1 THEN Serve(t, leads, n, f[k]) ELSE f[n]]
  <2>2. \A n \in 0..(k + 1) : g[n] = IF n = 0 THEN run.pointer[t]
                                     ELSE Serve(t, leads, n, g[n - 1])
    <3> SUFFICES ASSUME NEW n \in 0..(k + 1)
                 PROVE  g[n] = IF n = 0 THEN run.pointer[t] ELSE Serve(t, leads, n, g[n - 1])
      OBVIOUS
    <3>1. CASE n = k + 1
      <4>1. g[n] = Serve(t, leads, n, f[k]) /\ n - 1 = k /\ n # 0 /\ k # k + 1 /\ k \in 0..(k + 1)
        BY <3>1
      <4>2. g[k] = f[k]
        BY <4>1
      <4> QED
        BY <4>1, <4>2
    <3>2. CASE n = 0
      <4>1. f[n] = run.pointer[t]
        BY <2>1, <3>2
      <4> QED
        BY <3>2, <4>1
    <3>3. CASE n \in 1..k
      <4>1. n \in 0..k /\ n # 0 /\ n # k + 1 /\ n - 1 \in 0..(k + 1) /\ n - 1 # k + 1
        BY <3>3
      <4>2. f[n] = Serve(t, leads, n, f[n - 1])
        BY <2>1, <4>1
      <4>3. g[n] = f[n] /\ g[n - 1] = f[n - 1]
        BY <4>1
      <4> QED
        BY <4>1, <4>2, <4>3
    <3> QED
      BY <3>1, <3>2, <3>3
  <2>3. g = [n \in 0..(k + 1) |-> g[n]]
    OBVIOUS
  <2> HIDE DEF g
  <2>4. Is(g, k + 1)
    BY <2>2, <2>3
  <2> QED
    BY <2>4
<1> HIDE DEF S
<1>3. B \in S
  BY <1>1, <1>2, SetInduction
<1>4. \E f : Is(f, B)
  BY <1>3 DEF S
<1> HIDE DEF B
<1>5. ServedLast(t, leads) = CHOOSE f : Is(f, B)
  BY DEF ServedLast, Serve, B
<1> HIDE DEF Is
<1>6. Is(ServedLast(t, leads), B)
  BY <1>4, <1>5
<1> QED
  BY <1>6 DEF Is, B

LEMMA PlanOfBucket ==
  ASSUME NEW t, NEW leads \in SUBSET Leads, NEW l \in leads,
         Eligible(t, lead[l].company) # {}
  PROVE  LET c == lead[l].company
         IN  TeamPlan(t, leads).user[l] =
               Pick(Eligible(t, c), ServedLast(t, leads)[Before(leads, c)],
                    Position(Bucket(leads, c), l) + 1)
BY DEF TeamPlan

\* What a bucket gives to a member is what its picks in a row are.
LEMMA BucketServes ==
  ASSUME NEW t, NEW leads \in SUBSET Leads, NEW c \in Found(leads),
         NEW ids \in SUBSET Nat, IsFiniteSet(ids), ids # {}, Eligible(t, c) = ids, NEW u
  PROVE  /\ IsFiniteSet({l \in Bucket(leads, c) : TeamPlan(t, leads).user[l] = u})
         /\ Cardinality({l \in Bucket(leads, c) : TeamPlan(t, leads).user[l] = u}) =
              Served(ids, ServedLast(t, leads)[Before(leads, c)],
                     Cardinality(Bucket(leads, c)), u)
<1> DEFINE b == Bucket(leads, c)
           n == Cardinality(b)
           x == ServedLast(t, leads)[Before(leads, c)]
           here == {l \in b : TeamPlan(t, leads).user[l] = u}
           turns_of == {i \in 1..n : Pick(ids, x, i) = u}
           f == [l \in here |-> Position(b, l) + 1]
<1>1. leads \in SUBSET Nat /\ IsFiniteSet(leads)
  BY ConstantsAssumption, FS_Subset
<1>2. b \in SUBSET leads /\ b \in SUBSET Nat /\ IsFiniteSet(b) /\ n \in Nat
  BY <1>1, BucketFacts, FS_CardinalityType
<1>3. \A l \in b : TeamPlan(t, leads).user[l] = Pick(ids, x, Position(b, l) + 1)
  <2> SUFFICES ASSUME NEW l \in b
               PROVE  TeamPlan(t, leads).user[l] = Pick(ids, x, Position(b, l) + 1)
    OBVIOUS
  <2>1. lead[l].company = c /\ l \in leads
    BY DEF Bucket
  <2> QED
    BY <2>1, PlanOfBucket
<1>4. \A l \in b : Position(b, l) \in 0..(n - 1)
  BY <1>2, PositionIsBelow
<1> HIDE DEF b, n, x
<1>5. \A l \in here : Position(b, l) + 1 \in turns_of
  BY <1>2, <1>3, <1>4
<1>6. \A k, l \in here : Position(b, k) + 1 = Position(b, l) + 1 => k = l
  <2> SUFFICES ASSUME NEW k \in b, NEW l \in b, Position(b, k) + 1 = Position(b, l) + 1
               PROVE  k = l
    OBVIOUS
  <2>1. Position(b, k) = Position(b, l)
    BY <1>2, <1>4
  <2>2. MemberAt(b, Position(b, k)) = k /\ MemberAt(b, Position(b, l)) = l
    BY <1>2, MemberAtPosition
  <2> QED
    BY <2>1, <2>2
<1>7. ASSUME NEW i \in turns_of PROVE \E l \in here : Position(b, l) + 1 = i
  <2>1. i \in 1..n /\ i - 1 \in 0..(n - 1) /\ Pick(ids, x, i) = u
    BY <1>2
  <2> DEFINE l == MemberAt(b, i - 1)
  <2>2. l \in b /\ Position(b, l) = i - 1
    BY <1>2, <2>1, MemberAtIsThere DEF n
  <2> HIDE DEF l
  <2>3. Position(b, l) + 1 = i
    BY <2>1, <2>2
  <2>4. l \in here
    BY <1>3, <2>1, <2>2, <2>3
  <2> QED
    BY <2>3, <2>4
<1>8. IsFiniteSet(turns_of)
  <2>1. IsFiniteSet(1..n)
    BY <1>2, FS_Interval
  <2> QED
    BY <2>1, FS_Subset
<1>9. f \in Bijection(here, turns_of)
  <2> HIDE DEF here, turns_of
  <2> QED
    BY <1>5, <1>6, <1>7 DEF Bijection, Injection, Surjection, IsInjective
<1> HIDE DEF f, here, turns_of
<1>10. IsFiniteSet(here) /\ Cardinality(here) = Cardinality(turns_of)
  BY <1>8, <1>9, SameSize
<1> QED
  BY <1>10 DEF here, turns_of, b, n, x, Served

\* what u is given out of the first n buckets
GivenIn(t, leads, n, u) ==
  {l \in leads : Before(leads, lead[l].company) < n /\ TeamPlan(t, leads).user[l] = u}

LEMMA BucketsAdd ==
  ASSUME NEW t, NEW leads \in SUBSET Leads,
         NEW n \in Nat, n + 1 \in 1..Cardinality(Found(leads)),
         NEW ids \in SUBSET Nat, IsFiniteSet(ids), ids # {},
         Eligible(t, BucketOrder(leads)[n + 1]) = ids, NEW u
  PROVE  LET b == Bucket(leads, BucketOrder(leads)[n + 1])
         IN  Cardinality(GivenIn(t, leads, n + 1, u)) =
               Cardinality(GivenIn(t, leads, n, u))
                 + Served(ids, ServedLast(t, leads)[n], Cardinality(b), u)
<1> DEFINE c == BucketOrder(leads)[n + 1]
           here == {l \in Bucket(leads, c) : TeamPlan(t, leads).user[l] = u}
           old == GivenIn(t, leads, n, u)
           new == GivenIn(t, leads, n + 1, u)
<1>1. leads \in SUBSET Nat /\ IsFiniteSet(leads)
  BY ConstantsAssumption, FS_Subset
<1>2. c \in Found(leads) /\ Before(leads, c) = n
  BY <1>1, BucketsInOrder
<1>3. \A l \in leads : lead[l].company \in Found(leads)
  BY DEF Found
<1>4. \A d \in Found(leads) : Before(leads, d) \in Nat /\ BucketOrder(leads)[Before(leads, d) + 1] = d
  BY <1>1, BucketsInOrder
<1> HIDE DEF c
<1>5. \A l \in leads : lead[l].company = c <=> Before(leads, lead[l].company) = n
  BY <1>2, <1>3, <1>4 DEF c
<1>6. new = old \cup here
  BY <1>3, <1>4, <1>5 DEF GivenIn, Bucket
<1>7. old \cap here = {}
  BY <1>2 DEF GivenIn, Bucket
<1>8. IsFiniteSet(old)
  BY <1>1, FS_Subset DEF GivenIn
<1>9. /\ IsFiniteSet(here)
      /\ Cardinality(here) = Served(ids, ServedLast(t, leads)[n], Cardinality(Bucket(leads, c)), u)
  <2>1. Eligible(t, c) = ids
    BY DEF c
  <2> HIDE DEF c
  <2> QED
    BY <1>2, <2>1, BucketServes
<1> HIDE DEF old, new, here
<1>10. Cardinality(old \cup here) = Cardinality(old) + Cardinality(here)
  <2>1. Cardinality({}) = 0 /\ Cardinality(old) \in Nat /\ Cardinality(here) \in Nat
    BY <1>8, <1>9, FS_EmptySet, FS_CardinalityType
  <2> QED
    BY <1>7, <1>8, <1>9, <2>1, FS_Union
<1> QED
  BY <1>6, <1>9, <1>10 DEF old, new, c

\* Bucket after bucket, the rotation goes on where it stopped.
LEMMA BucketsServeAnArc ==
  ASSUME NEW t, NEW leads \in SUBSET Leads,
         NEW ids \in SUBSET Nat, IsFiniteSet(ids), ids # {},
         \A c \in Found(leads) : Eligible(t, c) = ids
  PROVE  \A n \in 0..Cardinality(Found(leads)) :
           Arc(ids, [u \in ids |-> Cardinality(GivenIn(t, leads, n, u))],
               NextUp(ids, run.pointer[t]), NextUp(ids, ServedLast(t, leads)[n]))
<1> DEFINE B == Cardinality(Found(leads))
           last == ServedLast(t, leads)
           share(n) == [u \in ids |-> Cardinality(GivenIn(t, leads, n, u))]
           e == NextUp(ids, run.pointer[t])
           S == {n \in Nat : n <= B => Arc(ids, share(n), e, NextUp(ids, last[n]))}
<1>1. leads \in SUBSET Nat /\ IsFiniteSet(leads)
  BY ConstantsAssumption, FS_Subset
<1>2. /\ B \in Nat /\ Cardinality(DOMAIN BucketOrder(leads)) = B
      /\ \A n \in 1..B : /\ BucketOrder(leads)[n] \in Found(leads)
                         /\ Before(leads, BucketOrder(leads)[n]) = n - 1
      /\ \A c \in Found(leads) : Before(leads, c) \in 0..(B - 1)
  BY <1>1, BucketsInOrder
<1>3. \A n \in 0..B : last[n] = IF n = 0 THEN run.pointer[t] ELSE Serve(t, leads, n, last[n - 1])
  BY <1>2, ServedLastUnfolds
<1>4. \A x : NextUp(ids, x) \in 0..(Cardinality(ids) - 1)
  BY NextUpIsBelow
<1>5. 0 \in S
  <2>1. last[0] = run.pointer[t]
    BY <1>2, <1>3
  <2>2. \A u \in ids : share(0)[u] = 0
    <3>1. \A u \in ids : GivenIn(t, leads, 0, u) = {}
      <4>1. \A l \in leads : lead[l].company \in Found(leads)
        BY DEF Found
      <4> QED
        BY <1>2, <4>1 DEF GivenIn
    <3> QED
      BY <3>1, FS_EmptySet
  <2> HIDE DEF share, last, e
  <2>3. Arc(ids, share(0), e, e)
    BY <1>4, <2>2, ArcOfEqual DEF e
  <2> QED
    BY <2>1, <2>3 DEF e
<1>6. ASSUME NEW n \in Nat, n \in S PROVE n + 1 \in S
  <2> SUFFICES ASSUME n + 1 <= B
               PROVE  Arc(ids, share(n + 1), e, NextUp(ids, last[n + 1]))
    OBVIOUS
  <2> DEFINE c == BucketOrder(leads)[n + 1]
             k == Cardinality(Bucket(leads, c))
             one == [u \in ids |-> Served(ids, last[n], k, u)]
  <2>1. n + 1 \in 1..B /\ n + 1 \in 0..B /\ (n + 1) - 1 = n /\ n + 1 # 0 /\ n <= B
    BY <1>2
  <2>2. c \in Found(leads) /\ Eligible(t, c) = ids
    BY <1>2, <2>1
  <2>3. k \in Nat \ {0}
    <3>1. IsFiniteSet(Bucket(leads, c)) /\ Bucket(leads, c) # {}
      BY <1>1, <2>2, BucketFacts
    <3> QED
      BY <3>1, FS_EmptySet, FS_CardinalityType
  <2>4. last[n + 1] = Pick(ids, last[n], k)
    BY <1>3, <2>1, <2>2 DEF Serve
  <2>5. \A u \in ids : share(n + 1)[u] = share(n)[u] + one[u]
    BY <2>1, <2>2, BucketsAdd
  <2>6. Arc(ids, share(n), e, NextUp(ids, last[n]))
    BY <1>6, <2>1
  <2> HIDE DEF last, share, k, c, e
  <2>7. Arc(ids, one, NextUp(ids, last[n]), NextUp(ids, last[n + 1]))
    BY <2>3, <2>4, PicksArc
  <2> HIDE DEF one
  <2> QED
    BY <1>4, <2>5, <2>6, <2>7, ArcsJoin DEF e
<1> HIDE DEF S
<1>7. \A n \in Nat : n \in S
  BY <1>5, <1>6, SetInduction
<1>8. \A n \in 0..B : n \in S /\ n <= B
  BY <1>2, <1>7
<1> QED
  BY <1>8 DEF S

\* What a run gives to a team whose members may all get every lead is an arc of
\* the rotation, from where it begins to where it stops.
LEMMA GivenIsAnArc ==
  ASSUME NEW t \in Teams, TeamLeads(t) \in SUBSET Leads,
         NEW ids \in SUBSET Nat, IsFiniteSet(ids), ids # {}, NoUser \notin ids,
         \A c \in Found(TeamLeads(t)) : Eligible(t, c) = ids
  PROVE  Arc(ids, [u \in ids |-> Cardinality({l \in Leads : Given(t).user[l] = u})],
             NextUp(ids, run.pointer[t]), NextUp(ids, Given(t).last))
<1> DEFINE leads == TeamLeads(t)
           B == Cardinality(Found(leads))
<1>1. leads \in SUBSET Nat /\ IsFiniteSet(leads)
  BY ConstantsAssumption, FS_Subset
<1>2. /\ B \in Nat /\ Cardinality(DOMAIN BucketOrder(leads)) = B
      /\ \A c \in Found(leads) : Before(leads, c) \in 0..(B - 1)
  BY <1>1, BucketsInOrder
<1>3. Given(t).last = ServedLast(t, leads)[B]
  BY <1>2 DEF Given, TeamPlan
<1>4. \A l \in Leads \ leads : Given(t).user[l] = NoUser
  BY DEF Given, TeamPlan
<1>5. \A u \in ids : {l \in Leads : Given(t).user[l] = u} = GivenIn(t, leads, B, u)
  <2>1. \A l \in leads : lead[l].company \in Found(leads)
    BY DEF Found
  <2>2. \A l \in leads : Before(leads, lead[l].company) < B
    BY <1>2, <2>1
  <2>3. Given(t) = TeamPlan(t, leads)
    BY DEF Given
  <2> HIDE DEF leads, B
  <2> QED
    BY <1>4, <2>2, <2>3 DEF GivenIn, leads
<1>6. Arc(ids, [u \in ids |-> Cardinality(GivenIn(t, leads, B, u))],
          NextUp(ids, run.pointer[t]), NextUp(ids, ServedLast(t, leads)[B]))
  <2>1. B \in 0..B
    BY <1>2
  <2> QED
    BY <2>1, BucketsServeAnArc
<1> QED
  BY <1>3, <1>5, <1>6, ArcExt

\* When nobody is given anything the pointer stays where it was.
LEMMA NothingGiven ==
  ASSUME NEW t \in Teams, TeamLeads(t) \in SUBSET Leads,
         \A c \in Found(TeamLeads(t)) : /\ Eligible(t, c) \in SUBSET Nat
                                        /\ IsFiniteSet(Eligible(t, c))
                                        /\ NoUser \notin Eligible(t, c),
         \A l \in Leads : Given(t).user[l] = NoUser
  PROVE  Given(t).last = run.pointer[t]
<1> DEFINE leads == TeamLeads(t)
           B == Cardinality(Found(leads))
           last == ServedLast(t, leads)
           S == {n \in Nat : n <= B => last[n] = run.pointer[t]}
<1>1. leads \in SUBSET Nat /\ IsFiniteSet(leads)
  BY ConstantsAssumption, FS_Subset
<1>2. /\ B \in Nat /\ Cardinality(DOMAIN BucketOrder(leads)) = B
      /\ \A n \in 1..B : BucketOrder(leads)[n] \in Found(leads)
  BY <1>1, BucketsInOrder
<1>3. \A n \in 0..B : last[n] = IF n = 0 THEN run.pointer[t] ELSE Serve(t, leads, n, last[n - 1])
  BY <1>2, ServedLastUnfolds
<1>4. Given(t).last = last[B]
  BY <1>2 DEF Given, TeamPlan
<1>5. ASSUME NEW c \in Found(leads) PROVE Eligible(t, c) = {}
  <2> SUFFICES ASSUME Eligible(t, c) # {} PROVE FALSE
    OBVIOUS
  <2>1. PICK l \in leads : lead[l].company = c
    BY DEF Found
  <2> DEFINE b == Bucket(leads, c)
             n == Position(b, l) + 1
             x == last[Before(leads, c)]
  <2>2. Given(t).user[l] = Pick(Eligible(t, c), x, n)
    BY <2>1, PlanOfBucket DEF Given
  <2>3. n \in Nat \ {0}
    <3>1. b \in SUBSET Nat /\ IsFiniteSet(b) /\ l \in b
      <4>1. c \in Found(leads)
        BY <2>1 DEF Found
      <4>2. b \in SUBSET Nat /\ IsFiniteSet(b)
        BY <1>1, <4>1, BucketFacts
      <4> QED
        BY <2>1, <4>2 DEF Bucket
    <3> HIDE DEF b
    <3>2. Position(b, l) \in Nat
      BY <3>1, PositionIsBelow
    <3> QED
      BY <3>2
  <2> HIDE DEF n, x, leads
  <2>4. Pick(Eligible(t, c), x, n) \in Eligible(t, c)
    BY <2>3, PickIsMember DEF leads
  <2> QED
    BY <2>1, <2>2, <2>4 DEF leads
<1>6. 0 \in S
  BY <1>2, <1>3
<1>7. ASSUME NEW n \in Nat, n \in S PROVE n + 1 \in S
  <2> SUFFICES ASSUME n + 1 <= B PROVE last[n + 1] = run.pointer[t]
    OBVIOUS
  <2>1. n + 1 \in 1..B /\ n + 1 \in 0..B /\ (n + 1) - 1 = n /\ n + 1 # 0 /\ n <= B
    BY <1>2
  <2>2. Eligible(t, BucketOrder(leads)[n + 1]) = {}
    BY <1>2, <1>5, <2>1
  <2>3. last[n] = run.pointer[t]
    BY <1>7, <2>1
  <2> HIDE DEF last
  <2> QED
    BY <1>3, <2>1, <2>2, <2>3 DEF Serve
<1> HIDE DEF S
<1>8. B \in S /\ B <= B
  BY <1>2, <1>6, <1>7, SetInduction
<1> QED
  BY <1>4, <1>8 DEF S

-----------------------------------------------------------------------------
(* What is counted of the turns *)

\* Counted from the member served least, an arc stays the arc it is.
LEMMA CountedFromLeast ==
  ASSUME NEW t \in Teams, NEW got, NEW current, current,
         roster[t].members \in SUBSET Members, IsFiniteSet(roster[t].members),
         NEW e \in 0..(Cardinality(roster[t].members) - 1),
         NEW s \in 0..(Cardinality(roster[t].members) - 1),
         Arc(roster[t].members, [u \in Members |-> turns[t][u] + got[u]], e, s)
  PROVE  Arc(roster[t].members, TurnsAfter(t, current, got), e, s)
<1> DEFINE ids == roster[t].members
           all == [u \in Members |-> turns[t][u] + got[u]]
           few == {u \in ids : \A v \in ids : all[u] <= all[v]}
           x(u) == Extra(e, s, Position(ids, u))
           z == MemberAt(ids, s)
<1>1. PICK b \in Nat : \A u \in ids : all[u] = b + x(u)
  BY DEF Arc
<1>2. \A u \in ids : x(u) \in {0, 1}
  BY DEF Extra
<1>3. \A u \in ids : TurnsAfter(t, current, got)[u] = AtMostTwo(all[u] - all[CHOOSE v \in few : TRUE])
  BY DEF TurnsAfter
<1>4. z \in ids /\ x(z) = 0
  <2>1. z \in ids /\ Position(ids, z) = s
    BY ConstantsAssumption, MemberAtIsThere
  <2>2. e \in Int /\ s \in Int
    OBVIOUS
  <2> HIDE DEF z, ids
  <2>3. Extra(e, s, s) = 0
    BY <2>2 DEF Extra, InArc
  <2> QED
    BY <2>1, <2>3
<1> HIDE DEF x, all, ids, z
<1>5. \A u \in ids : all[u] \in {b, b + 1}
  BY <1>1, <1>2
<1>6. all[z] = b
  BY <1>1, <1>4
<1>7. z \in few
  <2>1. \A v \in ids : all[z] <= all[v]
    BY <1>5, <1>6
  <2> QED
    BY <1>4, <2>1
<1>8. PICK w \in few : w = CHOOSE v \in few : TRUE
  BY <1>7
<1>9. w \in ids /\ all[w] = b
  <2>1. w \in ids /\ all[w] <= all[z]
    BY <1>4, <1>8
  <2> QED
    BY <1>5, <1>6, <2>1
<1>10. \A u \in ids : TurnsAfter(t, current, got)[u] = 0 + x(u)
  <2> SUFFICES ASSUME NEW u \in ids PROVE TurnsAfter(t, current, got)[u] = 0 + x(u)
    OBVIOUS
  <2>1. TurnsAfter(t, current, got)[u] = AtMostTwo(all[u] - all[w])
    BY <1>3, <1>8
  <2>2. all[u] = b + x(u) /\ x(u) \in {0, 1}
    BY <1>1, <1>2
  <2>3. all[u] - all[w] = x(u)
    BY <1>9, <2>2
  <2>4. AtMostTwo(x(u)) = x(u) /\ 0 + x(u) = x(u)
    BY <2>2 DEF AtMostTwo
  <2> QED
    BY <2>1, <2>3, <2>4
<1> QED
  BY <1>10 DEF Arc, x, ids

LEMMA NotCurrentIsNought ==
  ASSUME NEW t, NEW got, NEW current, ~current
  PROVE  \A u \in Members : TurnsAfter(t, current, got)[u] = 0
BY DEF TurnsAfter

\* An arc that ends where it began is the same share for everybody.
LEMMA FullRound ==
  ASSUME NEW ids \in SUBSET Nat, IsFiniteSet(ids), NEW g,
         NEW s \in 0..(Cardinality(ids) - 1), NEW m \in 0..(Cardinality(ids) - 1),
         Arc(ids, g, s, s)
  PROVE  Arc(ids, g, m, m)
<1>1. PICK b \in Nat : \A u \in ids : g[u] = b + Extra(s, s, Position(ids, u))
  BY DEF Arc
<1>2. \A u \in ids : g[u] = b
  <2> SUFFICES ASSUME NEW u \in ids PROVE g[u] = b
    OBVIOUS
  <2> DEFINE p == Position(ids, u)
  <2>1. p \in 0..(Cardinality(ids) - 1) /\ Cardinality(ids) \in Nat /\ g[u] = b + Extra(s, s, p)
    BY <1>1, PositionIsBelow
  <2> HIDE DEF p
  <2> QED
    BY <2>1 DEF Extra, InArc
<1> QED
  BY <1>2, ArcOfEqual

-----------------------------------------------------------------------------
(* The turns, from plan to commit *)

Whole(members) == \A c \in CompanyIds : Candidates(members, c) = members

\* A plan goes on from the pointer that is there when it is committed, or moves
\* nothing: then it has gone round to where it began.
PlanInTurn(p, ids, was) ==
  p.pc = "created" /\ p.planned /\ p.current /\ Whole(ids) =>
    \E k \in Nat \ {0} : \E from :
      /\ ids # {} /\ p.user = [n \in 1..k |-> Pick(ids, from, n)]
      /\ p.last = Moved(from, p.user[k])
      /\ p.last # NoUser => from = was

Plans ==
  \A s \in Sessions :
    /\ session[s].last # NoUser => session[s].pc = "created" /\ session[s].planned
    /\ PlanInTurn(session[s], roster[session[s].team].members, pointer[session[s].team])

\* whoever has written the row of a team holds it, and the pointer with it
OneWriter ==
  \A t \in Teams : /\ \A r, s \in Holds(t) : r = s
                   /\ RunHolds(t) => Holds(t) = {}

\* what the run has given to the leads of a team, and where it has stopped
Got(t, u) == Cardinality({l \in Leads : lead[l].team = t /\ run.user[l] = u})

RunLast(t) == IF run.last[t] = NoUser THEN run.pointer[t] ELSE run.last[t]

RunArc(t) ==
  LET ids == run.roster[t].members
  IN  Whole(ids) /\ ids # {} =>
        Arc(ids, [u \in ids |-> Got(t, u)], NextUp(ids, run.pointer[t]), NextUp(ids, RunLast(t)))

RunAt(t) ==
  /\ t \notin run.teams_changed \/ run.last[t] # NoUser => pointer[t] = run.pointer[t]
  /\ t \in run.todo => \A l \in Leads : run.user[l] # NoUser => lead[l].team # t
  /\ run.last[t] # NoUser => \E l \in Leads : run.user[l] # NoUser /\ lead[l].team = t
  /\ RunArc(t)

RunInTurn ==
  /\ run.last = [t \in Teams |-> run.last[t]]
  /\ run.pc = "running" => \A t \in Teams : RunAt(t)

\* The turns of a team whose members may all get every lead are an arc that ends
\* at whose turn it is: no turn was lost, repeated or given out of order.
TurnsOf(t) ==
  LET ids == roster[t].members
  IN  Whole(ids) /\ ids # {} =>
        \E e \in 0..(Cardinality(ids) - 1) : Arc(ids, turns[t], e, NextUp(ids, pointer[t]))

TurnsInTurn ==
  /\ pointer = [t \in Teams |-> pointer[t]] /\ turns = [t \in Teams |-> turns[t]]
  /\ \A t \in Teams : TurnsOf(t)

Shares == Plans /\ OneWriter /\ RunInTurn /\ TurnsInTurn

\* A plan that moves no pointer does not mind where it is.
LEMMA PlanKept ==
  ASSUME NEW p, NEW ids, NEW was, NEW now, PlanInTurn(p, ids, was),
         p.last # NoUser => now = was
  PROVE  PlanInTurn(p, ids, now)
BY DEF PlanInTurn

LEMMA RosterIsFinite ==
  ASSUME NEW r \in Rosters, NEW t \in Teams
  PROVE  /\ r[t].members \in SUBSET Members /\ r[t].members \in SUBSET Nat
         /\ IsFiniteSet(r[t].members) /\ NoUser \notin r[t].members
<1>1. r[t].members \in SUBSET Members
  BY ConstantsAssumption
<1> QED
  BY <1>1, ConstantsAssumption, FS_Subset

LEMMA WholeRing ==
  ASSUME NEW members, Whole(members), NEW t \in Teams, NEW company \in CompanyIds
  PROVE  Candidates(members, CompanyFor(t, company)) = members
<1>1. CompanyFor(t, company) \in CompanyIds
  BY ConstantsAssumption DEF CompanyFor, CompanyIds
<1> QED
  BY <1>1 DEF Whole

\* The turns after a round that goes on from whose turn it was; and none at all
\* when the roster is another one.
LEMMA RoundCounted ==
  ASSUME Typed, NEW t \in Teams, TurnsOf(t), NEW got, NEW current, NEW next,
         LET ids == roster[t].members
         IN  current /\ Whole(ids) /\ ids # {} =>
               Arc(ids, got, NextUp(ids, pointer[t]), NextUp(ids, next))
  PROVE  LET ids == roster[t].members
         IN  Whole(ids) /\ ids # {} =>
               \E e \in 0..(Cardinality(ids) - 1) :
                 Arc(ids, TurnsAfter(t, current, got), e, NextUp(ids, next))
<1> DEFINE ids == roster[t].members
           c == Cardinality(ids)
<1> SUFFICES ASSUME Whole(ids), ids # {}
             PROVE  \E e \in 0..(c - 1) :
                      Arc(ids, TurnsAfter(t, current, got), e, NextUp(ids, next))
  OBVIOUS
<1>1. /\ ids \in SUBSET Members /\ ids \in SUBSET Nat /\ IsFiniteSet(ids)
      /\ \A x : NextUp(ids, x) \in 0..(c - 1)
  BY RosterIsFinite, NextUpIsBelow DEF Typed
<1>2. CASE current
  <2>1. PICK e \in 0..(c - 1) : Arc(ids, turns[t], e, NextUp(ids, pointer[t]))
    BY DEF TurnsOf
  <2>2. Arc(ids, got, NextUp(ids, pointer[t]), NextUp(ids, next))
    BY <1>2
  <2> DEFINE all == [u \in Members |-> turns[t][u] + got[u]]
  <2>3. \A u \in ids : all[u] = turns[t][u] + got[u]
    BY <1>1
  <2> HIDE DEF all
  <2>4. Arc(ids, all, e, NextUp(ids, next))
    <3>1. /\ ids \in SUBSET Nat /\ IsFiniteSet(ids) /\ e \in 0..(Cardinality(ids) - 1)
          /\ NextUp(ids, pointer[t]) \in 0..(Cardinality(ids) - 1)
          /\ NextUp(ids, next) \in 0..(Cardinality(ids) - 1)
      BY <1>1, <2>1
    <3>2. Arc(ids, turns[t], e, NextUp(ids, pointer[t]))
      BY <2>1
    <3> HIDE DEF ids
    <3> QED
      BY <2>2, <2>3, <3>1, <3>2, ArcsJoin
  <2>5. Arc(ids, TurnsAfter(t, current, got), e, NextUp(ids, next))
    BY <1>1, <1>2, <2>4, CountedFromLeast DEF all
  <2> QED
    BY <2>5
<1>3. CASE ~current
  <2>1. \A u \in ids : TurnsAfter(t, current, got)[u] = 0
    BY <1>1, <1>3, NotCurrentIsNought
  <2>2. Arc(ids, TurnsAfter(t, current, got), NextUp(ids, next), NextUp(ids, next))
    BY <1>1, <2>1, ArcOfEqual
  <2> QED
    BY <1>1, <2>2
<1> QED
  BY <1>2, <1>3

\* A round that moved no pointer went round to where it began.
LEMMA RoundGoesOn ==
  ASSUME NEW ids \in SUBSET Nat, IsFiniteSet(ids), ids # {}, NEW got,
         NEW from, NEW last, NEW was,
         Arc(ids, got, NextUp(ids, from), NextUp(ids, last)),
         last # from => from = was
  PROVE  Arc(ids, got, NextUp(ids, was), NextUp(ids, IF last = from THEN was ELSE last))
<1>1. \A x : NextUp(ids, x) \in 0..(Cardinality(ids) - 1)
  BY NextUpIsBelow
<1>2. CASE last = from
  BY <1>1, <1>2, FullRound
<1>3. CASE last # from
  BY <1>3
<1> QED
  BY <1>2, <1>3

-----------------------------------------------------------------------------
(* The steps of the requests *)

\* what is promised of the run is about the leads it has given
LEMMA RunKept ==
  ASSUME IInv, RunInTurn,
         run'.pc = run.pc, run'.last = run.last, run'.todo = run.todo, run'.user = run.user,
         run'.roster = run.roster, run'.pointer = run.pointer,
         run.teams_changed \subseteq run'.teams_changed,
         run.pc = "running" =>
           /\ \A l \in Leads : run.user[l] # NoUser => lead'[l].team = lead[l].team
           /\ \A t \in Teams : t \notin run'.teams_changed \/ run.last[t] # NoUser =>
                                pointer'[t] = pointer[t]
  PROVE  RunInTurn'
<1> SUFFICES ASSUME run.pc = "running", NEW t \in Teams PROVE RunAt(t)'
  BY DEF RunInTurn
<1>1. RunAt(t)
  BY DEF RunInTurn
<1>2. t \notin run'.teams_changed \/ run'.last[t] # NoUser => pointer'[t] = run'.pointer[t]
  BY <1>1 DEF RunAt
<1>3. t \in run'.todo => \A l \in Leads : run'.user[l] # NoUser => lead'[l].team # t
  BY <1>1 DEF RunAt
<1>4. run'.last[t] # NoUser => \E l \in Leads : run'.user[l] # NoUser /\ lead'[l].team = t
  BY <1>1 DEF RunAt
<1>5. RunArc(t)'
  <2> DEFINE ids == run.roster[t].members
  <2>1. \A u \in ids : u # NoUser
    BY RosterIsFinite DEF IInv, RunSound
  <2>2. \A u \in ids : Got(t, u)' = Got(t, u)
    <3> SUFFICES ASSUME NEW u \in ids PROVE Got(t, u)' = Got(t, u)
      OBVIOUS
    <3>1. {l \in Leads : lead'[l].team = t /\ run'.user[l] = u}
            = {l \in Leads : lead[l].team = t /\ run.user[l] = u}
      BY <2>1
    <3> QED
      BY <3>1 DEF Got
  <2>3. RunLast(t)' = RunLast(t)
    BY DEF RunLast
  <2>4. \A x : NextUp(ids, x)' = NextUp(ids, x')
    BY DEF NextUp, Start
  <2>5. Whole(ids)' <=> Whole(ids)
    BY DEF Whole
  <2> DEFINE f == [u \in ids |-> Got(t, u)]
             g == [u \in ids |-> Got(t, u)']
  <2>6. \A u \in ids : g[u] = f[u]
    BY <2>2
  <2>7. Whole(ids) /\ ids # {} => Arc(ids, f, NextUp(ids, run.pointer[t]), NextUp(ids, RunLast(t)))
    BY <1>1 DEF RunAt, RunArc
  <2> HIDE DEF f, g
  <2>8. Whole(ids) /\ ids # {} => Arc(ids, g, NextUp(ids, run.pointer[t]), NextUp(ids, RunLast(t)))
    BY <2>6, <2>7, ArcExt
  <2> QED
    BY <2>3, <2>8 DEF RunArc, g
<1> QED
  BY <1>2, <1>3, <1>4, <1>5 DEF RunAt

LEMMA CreatesInTurn ==
  ASSUME IInv, Shares, NEW s \in Sessions, NEW t \in Teams, NEW company \in CompanyIds,
         \/ \E n \in 1..MaxCreate : CreatePlanned(s, t, company, n)
         \/ \E u \in Named \cup {NoUser} : CreateGiven(s, t, company, u)
  PROVE  Shares'
<1>1. PICK users, last, planned :
        /\ CreateAs(s, t, company, users, last, planned)
        /\ last # NoUser => planned /\ Holds(t) = {} /\ ~RunHolds(t)
        /\ planned => \E n \in 1..MaxCreate :
             /\ Ring(t, company) # {}
             /\ users = [k \in 1..n |-> Pick(Ring(t, company), pointer[t], k)]
             /\ last = Moved(pointer[t], users[n])
  <2>1. ASSUME NEW n \in 1..MaxCreate, CreatePlanned(s, t, company, n)
        PROVE  \E users, last, planned :
        /\ CreateAs(s, t, company, users, last, planned)
        /\ last # NoUser => planned /\ Holds(t) = {} /\ ~RunHolds(t)
        /\ planned => \E k \in 1..MaxCreate :
             /\ Ring(t, company) # {}
             /\ users = [i \in 1..k |-> Pick(Ring(t, company), pointer[t], i)]
             /\ last = Moved(pointer[t], users[k])
    <3> DEFINE plan == [k \in 1..n |-> Pick(Ring(t, company), pointer[t], k)]
               last == Moved(pointer[t], plan[n])
    <3>1. /\ CreateAs(s, t, company, plan, last, TRUE) /\ Ring(t, company) # {}
          /\ last # NoUser => Holds(t) = {} /\ ~RunHolds(t)
      BY <2>1 DEF CreatePlanned, Rotates
    <3>2. \E k \in 1..MaxCreate :
             /\ Ring(t, company) # {}
             /\ plan = [i \in 1..k |-> Pick(Ring(t, company), pointer[t], i)]
             /\ last = Moved(pointer[t], plan[k])
      BY <3>1
    <3> HIDE DEF plan, last
    <3> QED
      BY <3>1, <3>2
  <2>2. ASSUME NEW u \in Named \cup {NoUser}, CreateGiven(s, t, company, u)
        PROVE  \E users, last, planned :
        /\ CreateAs(s, t, company, users, last, planned)
        /\ last # NoUser => planned /\ Holds(t) = {} /\ ~RunHolds(t)
        /\ planned => \E k \in 1..MaxCreate :
             /\ Ring(t, company) # {}
             /\ users = [i \in 1..k |-> Pick(Ring(t, company), pointer[t], i)]
             /\ last = Moved(pointer[t], users[k])
    BY <2>2 DEF CreateGiven
  <2> QED
    BY <2>1, <2>2
<1> DEFINE p == [pc |-> "created", team |-> t, company |-> company, user |-> users,
                 last |-> last, planned |-> planned, current |-> TRUE]
<1>2. /\ session[s].pc = "idle" /\ session'[s] = p
      /\ \A r \in Sessions \ {s} : session'[r] = session[r]
      /\ UNCHANGED <<lead, pointer, roster, run, turns>>
  BY <1>1 DEF CreateAs, IInv, Typed
<1>3. p.team = t /\ p.user = users /\ p.last = last /\ p.planned = planned /\ p.pc = "created"
  OBVIOUS
<1> HIDE DEF p
<1>4. Plans'
  <2> SUFFICES ASSUME NEW r \in Sessions
               PROVE  /\ session'[r].last # NoUser =>
                           session'[r].pc = "created" /\ session'[r].planned
                      /\ PlanInTurn(session'[r], roster'[session'[r].team].members, pointer'[session'[r].team])
    BY DEF Plans
  <2>1. CASE r # s
    BY <1>2, <2>1 DEF Shares, Plans, CreateAs
  <2>2. CASE r = s
    <3>1. ASSUME planned, Whole(roster[t].members)
          PROVE  \E k \in Nat \ {0} : \E from :
                   /\ roster[t].members # {}
                   /\ users = [n \in 1..k |-> Pick(roster[t].members, from, n)]
                   /\ last = Moved(from, users[k])
                   /\ last # NoUser => from = pointer[t]
      <4>1. Ring(t, company) = roster[t].members
        BY <3>1, WholeRing DEF Ring
      <4>2. PICK n \in 1..MaxCreate :
             /\ Ring(t, company) # {}
             /\ users = [k \in 1..n |-> Pick(Ring(t, company), pointer[t], k)]
             /\ last = Moved(pointer[t], users[n])
        BY <1>1, <3>1
      <4>3. n \in Nat \ {0}
        BY ConstantsAssumption
      <4> QED
        BY <4>1, <4>2, <4>3
    <3>2. last # NoUser => planned
      BY <1>1
    <3>3. PlanInTurn(p, roster[t].members, pointer[t])
      BY <1>3, <3>1 DEF PlanInTurn
    <3> QED
      BY <1>1, <1>2, <1>3, <2>2, <3>2, <3>3 DEF CreateAs
  <2> QED
    BY <2>1, <2>2
<1>5. OneWriter'
  <2>1. session[s].last = NoUser
    BY <1>2 DEF Shares, Plans
  <2> SUFFICES ASSUME NEW v \in Teams
               PROVE  (\A q, r \in Holds(v)' : q = r) /\ (RunHolds(v)' => Holds(v)' = {})
    BY DEF OneWriter
  <2>2. RunHolds(v)' <=> RunHolds(v)
    BY <1>2 DEF RunHolds
  <2>3. CASE v = t /\ last # NoUser
    <3>1. Holds(t) = {} /\ ~RunHolds(t)
      BY <1>1, <2>3
    <3>2. \A r \in Holds(t)' : r = s
      BY <1>2, <3>1 DEF Holds
    <3> QED
      BY <2>2, <2>3, <3>1, <3>2
  <2>4. CASE ~(v = t /\ last # NoUser)
    <3>1. Holds(v)' = Holds(v)
      BY <1>2, <1>3, <2>1, <2>4 DEF Holds
    <3> QED
      BY <2>2, <3>1 DEF Shares, OneWriter
  <2> QED
    BY <2>3, <2>4
<1>6. RunInTurn'
  BY <1>2, RunKept DEF Shares
<1>7. TurnsInTurn'
  BY <1>2 DEF Shares, TurnsInTurn, TurnsOf, NextUp, Start
<1> QED
  BY <1>4, <1>5, <1>6, <1>7 DEF Shares

LEMMA RequestEnds ==
  ASSUME IInv, Shares, NEW s \in Sessions, session' = [session EXCEPT ![s] = NoPlan],
         roster' = roster, run'.pc = run.pc, run'.last = run.last,
         \A r \in Sessions \ {s} : session[r].last # NoUser =>
           pointer'[session[r].team] = pointer[session[r].team]
  PROVE  Plans' /\ OneWriter'
<1>1. /\ session'[s] = NoPlan /\ NoPlan.last = NoUser /\ NoPlan.pc = "idle"
      /\ \A r \in Sessions \ {s} : session'[r] = session[r]
  BY DEF IInv, Typed, NoPlan
<1>2. Plans'
  <2> SUFFICES ASSUME NEW r \in Sessions
               PROVE  /\ session'[r].last # NoUser =>
                           session'[r].pc = "created" /\ session'[r].planned
                      /\ PlanInTurn(session'[r], roster'[session'[r].team].members, pointer'[session'[r].team])
    BY DEF Plans
  <2>1. CASE r # s
    <3>1. session'[r] = session[r] /\ PlanInTurn(session[r], roster[session[r].team].members, pointer[session[r].team])
      BY <1>1, <2>1 DEF Shares, Plans
    <3>2. session[r].last # NoUser => pointer'[session[r].team] = pointer[session[r].team]
      BY <2>1
    <3>3. PlanInTurn(session[r], roster[session[r].team].members, pointer'[session[r].team])
      BY <3>1, <3>2, PlanKept
    <3> QED
      BY <3>1, <3>3 DEF Shares, Plans
  <2>2. CASE r = s
    BY <1>1, <2>2 DEF PlanInTurn
  <2> QED
    BY <2>1, <2>2
<1>3. OneWriter'
  <2>1. \A t \in Teams : Holds(t)' \subseteq Holds(t) /\ (RunHolds(t)' <=> RunHolds(t))
    BY <1>1 DEF Holds, RunHolds
  <2> QED
    BY <2>1 DEF Shares, OneWriter
<1> QED
  BY <1>2, <1>3

LEMMA RollbackInTurn ==
  ASSUME IInv, Shares, NEW s \in Sessions, CreateRollback(s)
  PROVE  Shares'
<1>1. session' = [session EXCEPT ![s] = NoPlan] /\ UNCHANGED <<lead, pointer, roster, run, turns>>
  BY DEF CreateRollback
<1>2. Plans' /\ OneWriter'
  BY <1>1, RequestEnds
<1>3. RunInTurn'
  BY <1>1, RunKept DEF Shares
<1>4. TurnsInTurn'
  BY <1>1 DEF Shares, TurnsInTurn, TurnsOf, NextUp, Start
<1> QED
  BY <1>2, <1>3, <1>4 DEF Shares

\* What a request has planned is a round of the rotation.
LEMMA PlanIsARound ==
  ASSUME NEW p, NEW ids \in SUBSET Nat, IsFiniteSet(ids), NoUser \notin ids, ids # {}, NEW was,
         PlanInTurn(p, ids, was), p.pc = "created", p.planned, p.current, Whole(ids), NEW count,
         DOMAIN p.user = 1..count, count \in Nat, NEW got,
         \A u \in ids : got[u] = Cardinality({n \in 1..count : p.user[n] = u})
  PROVE  Arc(ids, got, NextUp(ids, was), NextUp(ids, IF p.last = NoUser THEN was ELSE p.last))
<1>1. PICK k \in Nat \ {0} : \E from :
        /\ p.user = [n \in 1..k |-> Pick(ids, from, n)]
        /\ p.last = Moved(from, p.user[k])
        /\ p.last # NoUser => from = was
  BY DEF PlanInTurn
<1>2. PICK from :
        /\ p.user = [n \in 1..k |-> Pick(ids, from, n)]
        /\ p.last = Moved(from, p.user[k])
        /\ p.last # NoUser => from = was
  BY <1>1
<1>3. DOMAIN p.user = 1..k
  BY <1>2
<1>4. \A n \in 1..k : p.user[n] = Pick(ids, from, n)
  BY <1>2
<1>5. \A u \in ids : got[u] = Served(ids, from, k, u)
  <2>1. 1..count = 1..k
    BY <1>3
  <2>2. \A u \in ids : {n \in 1..count : p.user[n] = u} = {n \in 1..k : Pick(ids, from, n) = u}
    BY <1>4, <2>1
  <2> QED
    BY <2>2 DEF Served
<1> DEFINE last == p.user[k]
<1>6. last = Pick(ids, from, k) /\ last \in ids
  <2>1. k \in 1..k
    OBVIOUS
  <2> QED
    BY <1>4, <2>1, PickIsMember
<1> HIDE DEF last
<1>7. Arc(ids, [u \in ids |-> Served(ids, from, k, u)], NextUp(ids, from), NextUp(ids, last))
  BY <1>6, PicksArc
<1>8. Arc(ids, got, NextUp(ids, from), NextUp(ids, last))
  BY <1>5, <1>7, ArcExt
<1>9. p.last = IF last = from THEN NoUser ELSE last
  BY <1>2 DEF Moved, last
<1>10. last # from => from = was
  BY <1>2, <1>6, <1>9
<1>11. Arc(ids, got, NextUp(ids, was), NextUp(ids, IF last = from THEN was ELSE last))
  BY <1>8, <1>10, RoundGoesOn
<1> QED
  BY <1>6, <1>9, <1>11

LEMMA CommitInTurn ==
  ASSUME IInv, Shares, NEW s \in Sessions, CreateCommit(s)
  PROVE  Shares'
<1> DEFINE p == session[s]
           t == p.team
           count == Cardinality(DOMAIN p.user)
           got == [u \in Members |-> Cardinality({n \in 1..count : p.user[n] = u})]
<1>1. /\ p.pc = "created" /\ session' = [session EXCEPT ![s] = NoPlan] /\ roster' = roster
      /\ IF p.last = NoUser
         THEN UNCHANGED <<pointer, run>>
         ELSE pointer' = [pointer EXCEPT ![t] = p.last] /\ Outdated({t}, {})
      /\ turns' = [turns EXCEPT ![t] = IF ~p.planned THEN @ ELSE TurnsAfter(t, p.current, got)]
  BY DEF CreateCommit
<1>2. t \in Teams
  BY <1>1 DEF IInv, Typed, IsPlan
<1>3. DOMAIN p.user = 1..count /\ count \in Nat
  <2>1. PICK k \in Nat : p.user \in [1..k -> UserIds]
    BY <1>1 DEF IInv, Typed, IsPlan
  <2>2. DOMAIN p.user = 1..k /\ Cardinality(1..k) = k
    BY <2>1, FS_Interval
  <2> QED
    BY <2>2
<1>4. /\ pointer'[t] = IF p.last = NoUser THEN pointer[t] ELSE p.last
      /\ \A v \in Teams \ {t} : pointer'[v] = pointer[v]
      /\ pointer' = [v \in Teams |-> pointer'[v]]
  BY <1>1, <1>2 DEF Shares, TurnsInTurn
<1>5. /\ run'.pc = run.pc /\ run'.last = run.last /\ run'.todo = run.todo
      /\ run'.user = run.user /\ run'.roster = run.roster /\ run'.pointer = run.pointer
      /\ run.teams_changed \subseteq run'.teams_changed
      /\ run.pc = "running" /\ p.last # NoUser => t \in run'.teams_changed
  <2>1. CASE run' = run /\ (p.last = NoUser \/ run.pc # "running")
    BY <2>1
  <2>2. CASE run' = [run EXCEPT !.teams_changed = @ \cup {t}, !.leads_changed = @ \cup {}]
    BY <2>2 DEF IInv, Typed, IsRun
  <2> QED
    BY <1>1, <2>1, <2>2 DEF Outdated
<1>6. s \in Holds(t) <=> p.last # NoUser
  BY DEF Holds
<1> HIDE DEF count
<1>7. Plans' /\ OneWriter'
  <2>1. ASSUME NEW r \in Sessions \ {s}, session[r].last # NoUser
        PROVE  pointer'[session[r].team] = pointer[session[r].team]
    <3>1. session[r].team \in Teams
      BY <2>1 DEF Shares, Plans, IInv, Typed, IsPlan
    <3>2. CASE session[r].team = t
      <4>1. r \in Holds(t)
        BY <2>1, <3>2 DEF Holds
      <4>2. p.last = NoUser
        BY <1>2, <1>6, <2>1, <4>1 DEF Shares, OneWriter
      <4> QED
        BY <1>1, <4>2
    <3> HIDE DEF t
    <3> QED
      BY <1>4, <3>1, <3>2
  <2> QED
    BY <1>1, <1>5, <2>1, RequestEnds
<1>8. RunInTurn'
  <2>1. ASSUME run.pc = "running", NEW l \in Leads, run.user[l] # NoUser
        PROVE  lead'[l].team = lead[l].team
    <3>1. lead[l].active
      BY <2>1 DEF IInv, RunSound
    <3> QED
      BY <3>1, CommitWrites DEF IInv, NoLead
  <2>2. ASSUME run.pc = "running", NEW v \in Teams, v \notin run'.teams_changed \/ run.last[v] # NoUser
        PROVE  pointer'[v] = pointer[v]
    <3>1. CASE p.last = NoUser
      BY <1>1, <3>1
    <3>2. CASE p.last # NoUser
      <4>1. ~RunHolds(t)
        BY <1>2, <1>6, <3>2 DEF Shares, OneWriter
      <4>2. v # t
        BY <1>5, <2>2, <3>2, <4>1 DEF RunHolds
      <4> QED
        BY <1>4, <4>2
    <3> QED
      BY <3>1, <3>2
  <2> QED
    BY <1>5, <2>1, <2>2, RunKept DEF Shares
<1>9. TurnsInTurn'
  <2>1. turns' = [v \in Teams |-> turns'[v]] /\ \A v \in Teams \ {t} : turns'[v] = turns[v]
    BY <1>1, <1>2 DEF Shares, TurnsInTurn
  <2>2. \A v \in Teams : TurnsOf(v)
    BY DEF Shares, TurnsInTurn
  <2> SUFFICES ASSUME NEW v \in Teams PROVE TurnsOf(v)'
    BY <1>4, <2>1 DEF TurnsInTurn
  <2>3. CASE v # t \/ ~p.planned
    <3>1. turns'[v] = turns[v] /\ pointer'[v] = pointer[v]
      <4>1. p.last # NoUser => p.planned
        BY DEF Shares, Plans
      <4> QED
        BY <1>1, <1>2, <1>4, <2>1, <2>3, <4>1 DEF Shares, TurnsInTurn
    <3>2. TurnsOf(v)
      BY <2>2
    <3> QED
      BY <1>1, <3>1, <3>2 DEF TurnsOf, NextUp, Start
  <2>4. CASE v = t /\ p.planned
    <3> DEFINE ids == roster[t].members
               next == pointer'[t]
    <3>1. ids \in SUBSET Members /\ ids \in SUBSET Nat /\ IsFiniteSet(ids) /\ NoUser \notin ids
      BY <1>2, RosterIsFinite DEF IInv, Typed
    <3>2. \A u \in ids : got[u] = Cardinality({n \in 1..count : p.user[n] = u})
      BY <3>1
    <3>3. PlanInTurn(p, ids, pointer[t])
      BY DEF Shares, Plans
    <3>4. turns'[t] = TurnsAfter(t, p.current, got)
      BY <1>1, <1>2, <2>4 DEF Shares, TurnsInTurn
    <3> HIDE DEF got, p, t
    <3>5. p.current /\ Whole(ids) /\ ids # {} =>
            Arc(ids, got, NextUp(ids, pointer[t]), NextUp(ids, next))
      <4> SUFFICES ASSUME p.current, Whole(ids), ids # {}
                   PROVE  Arc(ids, got, NextUp(ids, pointer[t]), NextUp(ids, next))
        OBVIOUS
      <4> HIDE DEF ids
      <4>1. Arc(ids, got, NextUp(ids, pointer[t]),
                NextUp(ids, IF p.last = NoUser THEN pointer[t] ELSE p.last))
        BY <1>1, <1>3, <2>4, <3>1, <3>2, <3>3, PlanIsARound
      <4> QED
        BY <1>4, <4>1
    <3> HIDE DEF next
    <3>6. Whole(ids) /\ ids # {} =>
            \E e \in 0..(Cardinality(ids) - 1) :
              Arc(ids, TurnsAfter(t, p.current, got), e, NextUp(ids, next))
      BY <1>2, <2>2, <3>5, RoundCounted DEF IInv
    <3>7. /\ roster'[t].members = ids /\ pointer'[t] = next
          /\ turns'[t] = TurnsAfter(t, p.current, got)
      BY <1>1, <3>4 DEF next
    <3> HIDE DEF ids
    <3> QED
      BY <2>4, <3>6, <3>7 DEF TurnsOf, NextUp, Start
  <2> QED
    BY <2>3, <2>4
<1> QED
  BY <1>7, <1>8, <1>9 DEF Shares

-----------------------------------------------------------------------------
(* The steps of the run *)

LEMMA RunStartInTurn ==
  ASSUME IInv, Shares, RunStart
  PROVE  Shares'
<1>1. /\ run' = [NoRun EXCEPT !.pc = "running", !.open = Unassigned, !.roster = roster,
                              !.pointer = pointer, !.todo = Rotating(roster)]
      /\ UNCHANGED <<lead, pointer, roster, session, turns>>
  BY DEF RunStart
<1>2. /\ run'.last = [t \in Teams |-> NoUser] /\ run'.roster = roster /\ run'.pointer = pointer
      /\ \A l \in Leads : run'.user[l] = NoUser
  BY <1>1 DEF NoRun
<1>3. OneWriter' /\ Plans' /\ TurnsInTurn'
  BY <1>1, <1>2 DEF Shares, OneWriter, Holds, RunHolds, Plans, TurnsInTurn, TurnsOf, NextUp, Start
<1>4. ASSUME NEW t \in Teams PROVE RunAt(t)'
  <2> DEFINE ids == roster[t].members
  <2>1. ids \in SUBSET Nat /\ IsFiniteSet(ids) /\ NoUser \notin ids
    BY RosterIsFinite DEF IInv, Typed
  <2>2. \A u \in ids : Got(t, u)' = 0
    <3> SUFFICES ASSUME NEW u \in ids PROVE Got(t, u)' = 0
      OBVIOUS
    <3>1. {l \in Leads : lead'[l].team = t /\ run'.user[l] = u} = {}
      BY <1>2, <2>1
    <3> QED
      BY <3>1, FS_EmptySet DEF Got
  <2> DEFINE g == [u \in ids |-> Got(t, u)']
  <2>3. \A u \in ids : g[u] = 0
    BY <2>2
  <2> HIDE DEF g
  <2>4. ids # {} => Arc(ids, g, NextUp(ids, pointer[t]), NextUp(ids, pointer[t]))
    BY <2>1, <2>3, NextUpIsBelow, ArcOfEqual
  <2>5. RunLast(t)' = pointer[t]
    BY <1>1, <1>2 DEF RunLast
  <2>6. RunArc(t)'
    BY <1>1, <1>2, <2>4, <2>5 DEF RunArc, g
  <2> QED
    BY <1>1, <1>2, <2>6 DEF RunAt
<1>5. RunInTurn'
  BY <1>2, <1>4 DEF RunInTurn
<1> QED
  BY <1>3, <1>5 DEF Shares

LEMMA RunSkipInTurn ==
  ASSUME IInv, Shares, NEW t \in Teams, RunSkip(t)
  PROVE  Shares'
<1>1. run' = [run EXCEPT !.todo = @ \ {t}] /\ UNCHANGED <<lead, pointer, roster, session, turns>>
  BY DEF RunSkip
<1>2. /\ run'.pc = run.pc /\ run'.last = run.last /\ run'.todo \subseteq run.todo
      /\ run'.user = run.user /\ run'.roster = run.roster /\ run'.pointer = run.pointer
      /\ run'.teams_changed = run.teams_changed
  BY <1>1 DEF IInv, Typed, IsRun
<1>3. OneWriter' /\ Plans' /\ TurnsInTurn'
  BY <1>1, <1>2 DEF Shares, OneWriter, Holds, RunHolds, Plans, TurnsInTurn, TurnsOf, NextUp, Start
<1>4. RunInTurn'
  <2> SUFFICES ASSUME run'.pc = "running", NEW v \in Teams PROVE RunAt(v)'
    BY <1>2 DEF Shares, RunInTurn
  <2>1. RunAt(v)
    BY <1>2 DEF Shares, RunInTurn
  <2>2. RunArc(v)'
    BY <1>1, <1>2, <2>1 DEF RunAt, RunArc, Got, RunLast, NextUp, Start
  <2> QED
    BY <1>1, <1>2, <2>1, <2>2 DEF RunAt
<1> QED
  BY <1>3, <1>4 DEF Shares

LEMMA LastIsServed ==
  ASSUME NEW t \in Teams, TeamLeads(t) \in SUBSET Leads,
         \A c \in Found(TeamLeads(t)) : /\ Eligible(t, c) \in SUBSET Nat
                                        /\ IsFiniteSet(Eligible(t, c))
                                        /\ NoUser \notin Eligible(t, c)
  PROVE  Given(t).last # run.pointer[t] => Given(t).last # NoUser
<1> DEFINE leads == TeamLeads(t)
           B == Cardinality(Found(leads))
           last == ServedLast(t, leads)
           S == {n \in Nat : n <= B => last[n] = run.pointer[t] \/ last[n] # NoUser}
<1>1. leads \in SUBSET Nat /\ IsFiniteSet(leads)
  BY ConstantsAssumption, FS_Subset
<1>2. /\ B \in Nat /\ Cardinality(DOMAIN BucketOrder(leads)) = B
      /\ \A n \in 1..B : BucketOrder(leads)[n] \in Found(leads)
  BY <1>1, BucketsInOrder
<1>3. \A n \in 0..B : last[n] = IF n = 0 THEN run.pointer[t] ELSE Serve(t, leads, n, last[n - 1])
  BY <1>2, ServedLastUnfolds
<1>4. Given(t).last = last[B]
  BY <1>2 DEF Given, TeamPlan
<1>5. 0 \in S
  BY <1>2, <1>3
<1>6. ASSUME NEW n \in Nat, n \in S PROVE n + 1 \in S
  <2> SUFFICES ASSUME n + 1 <= B PROVE last[n + 1] = run.pointer[t] \/ last[n + 1] # NoUser
    OBVIOUS
  <2> DEFINE c == BucketOrder(leads)[n + 1]
             k == Cardinality(Bucket(leads, c))
  <2>1. n + 1 \in 1..B /\ n + 1 \in 0..B /\ (n + 1) - 1 = n /\ n + 1 # 0 /\ n <= B
    BY <1>2
  <2>2. c \in Found(leads)
    BY <1>2, <2>1
  <2>3. k \in Nat \ {0}
    <3>1. IsFiniteSet(Bucket(leads, c)) /\ Bucket(leads, c) # {}
      BY <1>1, <2>2, BucketFacts
    <3> QED
      BY <3>1, FS_EmptySet, FS_CardinalityType
  <2>4. last[n + 1] = IF Eligible(t, c) = {} THEN last[n] ELSE Pick(Eligible(t, c), last[n], k)
    BY <1>3, <2>1 DEF Serve
  <2>5. last[n] = run.pointer[t] \/ last[n] # NoUser
    BY <1>6, <2>1
  <2>6. /\ Eligible(t, c) \in SUBSET Nat /\ IsFiniteSet(Eligible(t, c))
        /\ NoUser \notin Eligible(t, c)
    BY <2>2
  <2> HIDE DEF last, k, c
  <2> QED
    BY <2>3, <2>4, <2>5, <2>6, PickIsMember
<1> HIDE DEF S
<1>7. B \in S /\ B <= B
  BY <1>2, <1>5, <1>6, SetInduction
<1> QED
  BY <1>4, <1>7 DEF S

LEMMA RunTeamInTurn ==
  ASSUME IInv, Shares, NEW t \in Teams, RunTeam(t)
  PROVE  Shares'
<1> DEFINE plan == Given(t)
           given == {l \in Leads : plan.user[l] # NoUser}
           last == Moved(run.pointer[t], plan.last)
           users == [l \in Leads |-> IF l \in given THEN plan.user[l] ELSE run.user[l]]
<1>1. /\ run.pc = "running" /\ t \in run.todo
      /\ last # NoUser => Holds(t) = {} /\ t \notin run.teams_changed
      /\ run' = [run EXCEPT !.todo = @ \ {t}, !.last[t] = last, !.user = users]
      /\ UNCHANGED <<lead, pointer, roster, session, turns>>
  BY DEF RunTeam
<1>2. \A l \in given : lead[l].team = t
  BY <1>1, GivenIsEligible
<1>3. /\ run'.pc = run.pc /\ run'.roster = run.roster /\ run'.pointer = run.pointer
      /\ run'.teams_changed = run.teams_changed /\ run'.todo = run.todo \ {t}
      /\ run'.user = users /\ run'.last = [run.last EXCEPT ![t] = last]
  <2> HIDE DEF users, last
  <2> QED
    BY <1>1 DEF IInv, Typed, IsRun
<1>4. /\ run'.last = [v \in Teams |-> run'.last[v]] /\ run'.last[t] = last
      /\ \A v \in Teams \ {t} : run'.last[v] = run.last[v]
  <2> HIDE DEF last
  <2> QED
    BY <1>3 DEF Shares, RunInTurn
<1>5. \A v \in Teams : RunAt(v)
  BY <1>1 DEF Shares, RunInTurn
<1>6. \A l \in Leads : lead[l].team # t => run'.user[l] = run.user[l]
  BY <1>2, <1>3
<1>7. \A l \in Leads : lead[l].team = t => run'.user[l] = plan.user[l]
  <2> SUFFICES ASSUME NEW l \in Leads, lead[l].team = t PROVE run'.user[l] = plan.user[l]
    OBVIOUS
  <2>1. run.user[l] = NoUser
    BY <1>1, <1>5 DEF RunAt
  <2> HIDE DEF plan
  <2> QED
    BY <1>3, <2>1
<1> DEFINE leads == TeamLeads(t)
           ids == run.roster[t].members
<1>8. leads \in SUBSET Leads
  BY DEF TeamLeads, Lowest, IInv, Typed, IsRun
<1>9. ids \in SUBSET Nat /\ IsFiniteSet(ids) /\ NoUser \notin ids
  BY <1>1, RosterIsFinite DEF IInv, RunSound
<1>10. \A c \in Found(leads) : /\ c \in CompanyIds /\ Eligible(t, c) \in SUBSET Nat
                               /\ IsFiniteSet(Eligible(t, c)) /\ NoUser \notin Eligible(t, c)
  <2> SUFFICES ASSUME NEW c \in Found(leads)
               PROVE  /\ c \in CompanyIds /\ Eligible(t, c) \in SUBSET Nat
                      /\ IsFiniteSet(Eligible(t, c)) /\ NoUser \notin Eligible(t, c)
    OBVIOUS
  <2>1. PICK l \in leads : c = lead[l].company
    BY DEF Found
  <2>2. c \in CompanyIds
    BY <1>8, <2>1 DEF IInv, Typed, LeadRow
  <2>3. Eligible(t, c) \in SUBSET ids
    BY DEF Eligible, Candidates
  <2> HIDE DEF ids
  <2> QED
    BY <1>9, <2>2, <2>3, FS_Subset
<1> HIDE DEF plan, given, users, leads
<1>11. plan.last # run.pointer[t] => plan.last # NoUser
  BY <1>8, <1>10, LastIsServed DEF plan, leads
<1>12. plan.last # run.pointer[t] => \E l \in Leads : plan.user[l] # NoUser
  BY <1>8, <1>10, NothingGiven DEF plan, leads
<1>13. OneWriter' /\ Plans' /\ TurnsInTurn'
  <2>1. \A v \in Teams : Holds(v)' = Holds(v)
    BY <1>1 DEF Holds
  <2>2. ASSUME NEW v \in Teams, RunHolds(v)' PROVE Holds(v) = {}
    <3>1. CASE v = t
      BY <1>1, <1>4, <2>2, <3>1 DEF RunHolds
    <3>2. CASE v # t
      BY <1>1, <1>3, <1>4, <2>2, <3>2 DEF RunHolds, Shares, OneWriter
    <3> QED
      BY <3>1, <3>2
  <2>3. OneWriter'
    BY <2>1, <2>2 DEF Shares, OneWriter
  <2>4. Plans' /\ TurnsInTurn'
    BY <1>1 DEF Shares, Plans, TurnsInTurn, TurnsOf, NextUp, Start
  <2> QED
    BY <2>3, <2>4
<1>14. ASSUME NEW v \in Teams, v # t PROVE RunAt(v)'
  <2>1. RunAt(v)
    BY <1>5
  <2>2. \A l \in Leads : lead[l].team = v => run'.user[l] = run.user[l]
    BY <1>6, <1>14
  <2>3. \A u : Got(v, u)' = Got(v, u')
    <3>1. \A u : {l \in Leads : lead'[l].team = v /\ run'.user[l] = u}
                   = {l \in Leads : lead[l].team = v /\ run.user[l] = u}
      BY <1>1, <2>2
    <3> QED
      BY <3>1 DEF Got
  <2>4. RunArc(v)'
    BY <1>1, <1>3, <1>4, <1>14, <2>1, <2>3 DEF RunAt, RunArc, RunLast, NextUp, Start
  <2> QED
    BY <1>1, <1>3, <1>4, <1>14, <2>1, <2>2, <2>4 DEF RunAt
<1>15. RunAt(t)'
  <2>1. t \notin run'.todo
    BY <1>3
  <2>2. t \notin run'.teams_changed \/ run'.last[t] # NoUser => pointer'[t] = run'.pointer[t]
    <3>1. run'.last[t] # NoUser => t \notin run.teams_changed
      BY <1>1, <1>4
    <3> QED
      BY <1>1, <1>3, <1>5, <3>1 DEF RunAt
  <2>3. run'.last[t] # NoUser => \E l \in Leads : run'.user[l] # NoUser /\ lead'[l].team = t
    <3> SUFFICES ASSUME run'.last[t] # NoUser
                 PROVE  \E l \in Leads : run'.user[l] # NoUser /\ lead'[l].team = t
      OBVIOUS
    <3>1. plan.last # run.pointer[t]
      BY <1>4 DEF Moved
    <3>2. PICK l \in Leads : plan.user[l] # NoUser
      BY <1>12, <3>1
    <3>3. lead[l].team = t
      BY <1>2, <3>2 DEF given
    <3> QED
      BY <1>1, <1>7, <3>2, <3>3
  <2>4. RunArc(t)'
    <3> SUFFICES ASSUME Whole(ids), ids # {}
                 PROVE  Arc(ids, [u \in ids |-> Got(t, u)'], NextUp(ids, run.pointer[t]),
                            NextUp(ids, RunLast(t)'))
      BY <1>3 DEF RunArc, NextUp, Start
    <3>1. \A c \in Found(leads) : Eligible(t, c) = ids
      BY <1>10, WholeRing DEF Eligible
    <3> HIDE DEF ids
    <3>2. Arc(ids, [u \in ids |-> Cardinality({l \in Leads : plan.user[l] = u})],
              NextUp(ids, run.pointer[t]), NextUp(ids, plan.last))
      BY <1>8, <1>9, <3>1, GivenIsAnArc DEF plan, leads
    <3>3. \A u \in ids : Got(t, u)' = Cardinality({l \in Leads : plan.user[l] = u})
      <4> SUFFICES ASSUME NEW u \in ids
                   PROVE  Got(t, u)' = Cardinality({l \in Leads : plan.user[l] = u})
        OBVIOUS
      <4>1. {l \in Leads : lead'[l].team = t /\ run'.user[l] = u} = {l \in Leads : plan.user[l] = u}
        <5>1. \A l \in Leads : plan.user[l] = u => lead[l].team = t
          BY <1>2, <1>9 DEF given
        <5> QED
          BY <1>1, <1>7, <5>1
      <4> QED
        BY <4>1 DEF Got
    <3>4. RunLast(t)' = plan.last
      BY <1>3, <1>4, <1>11 DEF RunLast, Moved
    <3> DEFINE g == [u \in ids |-> Got(t, u)']
    <3>5. \A u \in ids : g[u] = [u1 \in ids |-> Cardinality({l \in Leads : plan.user[l] = u1})][u]
      BY <3>3
    <3> HIDE DEF g
    <3>6. Arc(ids, g, NextUp(ids, run.pointer[t]), NextUp(ids, plan.last))
      BY <3>2, <3>5, ArcExt
    <3> QED
      BY <3>4, <3>6 DEF g
  <2> QED
    BY <2>1, <2>2, <2>3, <2>4 DEF RunAt
<1>16. RunInTurn'
  BY <1>4, <1>14, <1>15 DEF RunInTurn
<1> QED
  BY <1>13, <1>16 DEF Shares

\* The run is over; the pointers it has moved, nobody else was about to.
LEMMA RunEnds ==
  ASSUME IInv, Shares, run' = NoRun, UNCHANGED <<session, roster>>,
         \A t \in Teams : Holds(t) # {} => pointer'[t] = pointer[t]
  PROVE  Plans' /\ OneWriter' /\ RunInTurn'
<1>1. /\ run'.pc # "running" /\ run'.last = [t \in Teams |-> NoUser]
  BY DEF NoRun
<1>2. RunInTurn'
  BY <1>1 DEF RunInTurn
<1>3. OneWriter'
  BY <1>1 DEF Shares, OneWriter, Holds, RunHolds
<1>4. Plans'
  <2> SUFFICES ASSUME NEW r \in Sessions
               PROVE  PlanInTurn(session[r], roster[session[r].team].members,
                                 pointer'[session[r].team])
    BY DEF Plans, Shares
  <2>1. PlanInTurn(session[r], roster[session[r].team].members, pointer[session[r].team])
    BY DEF Shares, Plans
  <2>2. session[r].last # NoUser => pointer'[session[r].team] = pointer[session[r].team]
    <3> SUFFICES ASSUME session[r].last # NoUser
                 PROVE  pointer'[session[r].team] = pointer[session[r].team]
      OBVIOUS
    <3>1. session[r].team \in Teams
      BY DEF Shares, Plans, IInv, Typed, IsPlan
    <3>2. r \in Holds(session[r].team)
      BY DEF Holds
    <3> QED
      BY <3>1, <3>2
  <2> QED
    BY <2>1, <2>2, PlanKept
<1> QED
  BY <1>2, <1>3, <1>4

LEMMA RunAbortInTurn ==
  ASSUME IInv, Shares, RunAbort
  PROVE  Shares'
<1>1. Plans' /\ OneWriter' /\ RunInTurn'
  BY RunEnds DEF RunAbort
<1>2. TurnsInTurn'
  BY DEF RunAbort, Shares, TurnsInTurn, TurnsOf, NextUp, Start
<1> QED
  BY <1>1, <1>2 DEF Shares

LEMMA RunCommitInTurn ==
  ASSUME IInv, Shares, RunCommit
  PROVE  Shares'
<1> DEFINE got(t) == [u \in Members |->
                       Cardinality({l \in Leads : lead[l].team = t /\ run.user[l] = u})]
           current == run.roster = roster
<1>1. /\ run.pc = "running" /\ run' = NoRun /\ UNCHANGED <<roster, session>>
      /\ pointer' = [t \in Teams |-> IF run.last[t] = NoUser THEN pointer[t] ELSE run.last[t]]
      /\ turns' = [t \in Teams |->
           IF \A l \in Leads : run.user[l] # NoUser => lead[l].team # t THEN turns[t]
           ELSE TurnsAfter(t, current, got(t))]
  BY DEF RunCommit
<1> HIDE DEF got, current
<1>2. \A t \in Teams : RunAt(t) /\ TurnsOf(t)
  BY <1>1 DEF Shares, RunInTurn, TurnsInTurn
<1>3. ASSUME NEW t \in Teams, Holds(t) # {} PROVE pointer'[t] = pointer[t]
  <2>1. run.last[t] = NoUser
    BY <1>1, <1>3 DEF Shares, OneWriter, RunHolds
  <2> QED
    BY <1>1, <2>1
<1>4. Plans' /\ OneWriter' /\ RunInTurn'
  BY <1>1, <1>3, RunEnds
<1>5. ASSUME NEW t \in Teams, \A l \in Leads : run.user[l] # NoUser => lead[l].team # t
      PROVE  TurnsOf(t)'
  <2>1. run.last[t] = NoUser
    BY <1>2, <1>5 DEF RunAt
  <2>2. turns'[t] = turns[t] /\ pointer'[t] = pointer[t]
    BY <1>1, <1>5, <2>1
  <2> QED
    BY <1>1, <1>2, <2>2 DEF TurnsOf, NextUp, Start
<1>6. ASSUME NEW t \in Teams, ~\A l \in Leads : run.user[l] # NoUser => lead[l].team # t
      PROVE  TurnsOf(t)'
  <2> DEFINE ids == roster[t].members
             next == pointer'[t]
  <2>1. ids \in SUBSET Members /\ ids \in SUBSET Nat /\ IsFiniteSet(ids) /\ NoUser \notin ids
    BY RosterIsFinite DEF IInv, Typed
  <2>2. turns'[t] = TurnsAfter(t, current, got(t))
    BY <1>1, <1>6
  <2>3. next = IF run.last[t] = NoUser THEN pointer[t] ELSE run.last[t]
    BY <1>1
  <2>4. current /\ Whole(ids) /\ ids # {} =>
          Arc(ids, got(t), NextUp(ids, pointer[t]), NextUp(ids, next))
    <3> SUFFICES ASSUME current, Whole(ids), ids # {}
                 PROVE  Arc(ids, got(t), NextUp(ids, pointer[t]), NextUp(ids, next))
      OBVIOUS
    <3>1. run.roster[t].members = ids
      BY DEF current
    <3> HIDE DEF ids, next
    <3>2. Arc(ids, [u \in ids |-> Got(t, u)], NextUp(ids, run.pointer[t]), NextUp(ids, RunLast(t)))
      BY <1>2, <3>1 DEF RunAt, RunArc
    <3>3. \A u \in ids : got(t)[u] = [v \in ids |-> Got(t, v)][u]
      BY <2>1 DEF Got, got
    <3> DEFINE g == got(t)
    <3> HIDE DEF g
    <3>4. Arc(ids, g, NextUp(ids, run.pointer[t]), NextUp(ids, RunLast(t)))
      BY <3>2, <3>3, ArcExt DEF g
    <3>5. CASE run.last[t] = NoUser
      <4>1. RunLast(t) = run.pointer[t] /\ next = pointer[t]
        BY <2>3, <3>5 DEF RunLast
      <4>2. \A x : NextUp(ids, x) \in 0..(Cardinality(ids) - 1)
        BY <2>1, NextUpIsBelow
      <4>3. Arc(ids, g, NextUp(ids, pointer[t]), NextUp(ids, pointer[t]))
        BY <2>1, <3>4, <4>1, <4>2, FullRound
      <4> QED
        BY <4>1, <4>3 DEF g
    <3>6. CASE run.last[t] # NoUser
      <4>1. RunLast(t) = run.last[t] /\ next = run.last[t] /\ pointer[t] = run.pointer[t]
        BY <1>2, <2>3, <3>6 DEF RunLast, RunAt
      <4> QED
        BY <3>4, <4>1 DEF g
    <3> QED
      BY <3>5, <3>6
  <2> HIDE DEF next
  <2> DEFINE g == got(t)
  <2> HIDE DEF g
  <2>5. Whole(ids) /\ ids # {} =>
          \E e \in 0..(Cardinality(ids) - 1) :
            Arc(ids, TurnsAfter(t, current, g), e, NextUp(ids, next))
    BY <1>2, <2>4, RoundCounted DEF IInv, g
  <2>6. roster'[t].members = ids /\ pointer'[t] = next /\ turns'[t] = TurnsAfter(t, current, g)
    BY <1>1, <2>2 DEF next, g
  <2> HIDE DEF ids
  <2> QED
    BY <2>5, <2>6 DEF TurnsOf, NextUp, Start
<1>7. TurnsInTurn'
  <2>1. pointer' = [t \in Teams |-> pointer'[t]] /\ turns' = [t \in Teams |-> turns'[t]]
    BY <1>1
  <2>2. \A t \in Teams : TurnsOf(t)'
    BY <1>5, <1>6
  <2> QED
    BY <2>1, <2>2 DEF TurnsInTurn
<1> QED
  BY <1>4, <1>7 DEF Shares

-----------------------------------------------------------------------------
(* The steps of the people *)

LEMMA PeopleInTurn ==
  ASSUME IInv, Shares, NEW l \in Leads,
         \/ \E u \in Named \cup {NoUser} : SetSalesperson(l, u)
         \/ MarkLost(l)
  PROVE  Shares'
<1>1. UNCHANGED <<pointer, roster, session, turns>> /\ Outdated({}, {l})
  BY DEF SetSalesperson, MarkLost
<1>2. \A k \in Leads : lead'[k].team = lead[k].team
  <2>0. \A k \in Leads : lead[k] \in LeadRow
    BY DEF IInv, Typed
  <2>1. ASSUME NEW u \in Named \cup {NoUser}, SetSalesperson(l, u), NEW k \in Leads
        PROVE  lead'[k].team = lead[k].team
    <3>1. lead' = [lead EXCEPT ![l].user = u] /\ lead = [i \in Leads |-> lead[i]]
      BY <2>1 DEF SetSalesperson, IInv, Typed
    <3>2. lead'[k] = IF k = l THEN [lead[k] EXCEPT !.user = u] ELSE lead[k]
      BY <3>1
    <3> QED
      BY <2>0, <3>2 DEF LeadRow
  <2>2. ASSUME MarkLost(l), NEW k \in Leads PROVE lead'[k].team = lead[k].team
    <3>1. lead' = [lead EXCEPT ![l].active = FALSE] /\ lead = [i \in Leads |-> lead[i]]
      BY <2>2 DEF MarkLost, IInv, Typed
    <3>2. lead'[k] = IF k = l THEN [lead[k] EXCEPT !.active = FALSE] ELSE lead[k]
      BY <3>1
    <3> QED
      BY <2>0, <3>2 DEF LeadRow
  <2> QED
    BY <2>1, <2>2
<1>3. /\ run'.pc = run.pc /\ run'.last = run.last /\ run'.todo = run.todo
      /\ run'.user = run.user /\ run'.roster = run.roster /\ run'.pointer = run.pointer
      /\ run.teams_changed \subseteq run'.teams_changed
  <2>1. CASE run' = run
    BY <2>1
  <2>2. CASE run' = [run EXCEPT !.teams_changed = @ \cup {}, !.leads_changed = @ \cup {l}]
    BY <2>2 DEF IInv, Typed, IsRun
  <2> QED
    BY <1>1, <2>1, <2>2 DEF Outdated
<1>4. RunInTurn'
  BY <1>1, <1>2, <1>3, RunKept DEF Shares
<1>5. OneWriter' /\ Plans' /\ TurnsInTurn'
  BY <1>1, <1>3 DEF Shares, OneWriter, Holds, RunHolds, Plans, TurnsInTurn, TurnsOf, NextUp, Start
<1> QED
  BY <1>4, <1>5 DEF Shares

\* With another roster everybody is counted from nought, and no plan made with
\* the old one counts.
LEMMA RosterInTurn ==
  ASSUME IInv, Shares, NEW r \in Rosters, ChangeRoster(r)
  PROVE  Shares'
<1>1. /\ UNCHANGED <<lead, pointer, run>> /\ roster' = r
      /\ turns' = [t \in Teams |-> [u \in Members |-> 0]]
      /\ session' = [s \in Sessions |->
           [session[s] EXCEPT !.current = (@ /\ session[s].pc = "idle")]]
  BY DEF ChangeRoster
<1>2. ASSUME NEW s \in Sessions
      PROVE  /\ session'[s].pc = session[s].pc /\ session'[s].team = session[s].team
             /\ session'[s].last = session[s].last /\ session'[s].planned = session[s].planned
             /\ session'[s].pc = "created" => ~session'[s].current
  <2> DEFINE was == session[s].current /\ session[s].pc = "idle"
  <2>1. session'[s] = [session[s] EXCEPT !.current = was] /\ IsPlan(session[s])
    BY <1>1 DEF IInv, Typed
  <2>2. session[s].pc = "created" => ~was
    OBVIOUS
  <2> HIDE DEF was
  <2>3. session'[s] = [pc |-> session[s].pc, team |-> session[s].team,
                       company |-> session[s].company, user |-> session[s].user,
                       last |-> session[s].last, planned |-> session[s].planned, current |-> was]
    BY <2>1 DEF IsPlan
  <2> QED
    BY <2>2, <2>3
<1>3. Plans'
  BY <1>2 DEF Shares, Plans, PlanInTurn
<1>4. OneWriter'
  <2>1. \A t \in Teams : Holds(t)' = Holds(t) /\ (RunHolds(t)' <=> RunHolds(t))
    BY <1>1, <1>2 DEF Holds, RunHolds
  <2> QED
    BY <2>1 DEF Shares, OneWriter
<1>5. RunInTurn'
  BY <1>1, RunKept DEF Shares
<1>6. TurnsInTurn'
  <2> SUFFICES ASSUME NEW t \in Teams PROVE TurnsOf(t)'
    BY <1>1 DEF TurnsInTurn, Shares
  <2> DEFINE ids == roster'[t].members
             next == NextUp(ids, pointer'[t])
  <2>1. ids \in SUBSET Members /\ ids \in SUBSET Nat /\ IsFiniteSet(ids)
    BY <1>1, RosterIsFinite
  <2>2. \A u \in ids : turns'[t][u] = 0
    BY <1>1, <2>1
  <2>3. ids # {} => next \in 0..(Cardinality(ids) - 1) /\ Arc(ids, turns'[t], next, next)
    <3> SUFFICES ASSUME ids # {}
                 PROVE  next \in 0..(Cardinality(ids) - 1) /\ Arc(ids, turns'[t], next, next)
      OBVIOUS
    <3> HIDE DEF ids
    <3>1. next \in 0..(Cardinality(ids) - 1)
      BY <2>1, NextUpIsBelow
    <3> HIDE DEF next
    <3> QED
      BY <2>1, <2>2, <3>1, ArcOfEqual
  <2> QED
    BY <2>3 DEF TurnsOf, NextUp, Start
<1> QED
  BY <1>3, <1>4, <1>5, <1>6 DEF Shares

-----------------------------------------------------------------------------
LEMMA SharesInitially == Init => Shares
<1> SUFFICES ASSUME Init PROVE Shares
  OBVIOUS
<1>1. /\ \A s \in Sessions : session[s] = NoPlan
      /\ run = NoRun /\ run.last = [t \in Teams |-> NoUser] /\ run.pc # "running"
      /\ NoPlan.last = NoUser /\ NoPlan.pc # "created"
  BY DEF Init, NoRun, NoPlan
<1>2. Plans
  BY <1>1 DEF Plans, PlanInTurn
<1>3. OneWriter /\ RunInTurn
  BY <1>1 DEF OneWriter, Holds, RunHolds, RunInTurn
<1>4. TurnsInTurn
  <2> SUFFICES ASSUME NEW t \in Teams PROVE TurnsOf(t)
    BY DEF Init, TurnsInTurn
  <2> DEFINE ids == roster[t].members
             next == NextUp(ids, pointer[t])
  <2>1. ids \in SUBSET Members /\ ids \in SUBSET Nat /\ IsFiniteSet(ids)
    BY RosterIsFinite DEF Init
  <2>2. \A u \in ids : turns[t][u] = 0
    BY <2>1 DEF Init
  <2>3. ids # {} => next \in 0..(Cardinality(ids) - 1) /\ Arc(ids, turns[t], next, next)
    <3> SUFFICES ASSUME ids # {}
                 PROVE  next \in 0..(Cardinality(ids) - 1) /\ Arc(ids, turns[t], next, next)
      OBVIOUS
    <3> HIDE DEF ids
    <3>1. next \in 0..(Cardinality(ids) - 1)
      BY <2>1, NextUpIsBelow
    <3> HIDE DEF next
    <3> QED
      BY <2>1, <2>2, <3>1, ArcOfEqual
  <2> QED
    BY <2>3 DEF TurnsOf
<1> QED
  BY <1>2, <1>3, <1>4 DEF Shares

LEMMA SharesAreInductive == IInv /\ Shares /\ [Next]_vars => Shares'
<1> SUFFICES ASSUME IInv, Shares, [Next]_vars PROVE Shares'
  OBVIOUS
<1>1. CASE UNCHANGED vars
  <2>1. UNCHANGED <<lead, pointer, roster, session, run, turns>>
    BY <1>1 DEF vars
  <2>2. RunInTurn'
    BY <2>1, RunKept DEF Shares
  <2>3. OneWriter' /\ Plans' /\ TurnsInTurn'
    BY <2>1 DEF Shares, OneWriter, Holds, RunHolds, Plans, TurnsInTurn, TurnsOf, NextUp, Start
  <2> QED
    BY <2>2, <2>3 DEF Shares
<1>2. ASSUME NEW s \in Sessions, NEW t \in Teams, NEW c \in Companies \cup {NoCompany},
             \/ \E n \in 1..MaxCreate : CreatePlanned(s, t, c, n)
             \/ \E u \in Named \cup {NoUser} : CreateGiven(s, t, c, u)
      PROVE  Shares'
  BY <1>2, CreatesInTurn DEF CompanyIds
<1> QED
  BY <1>1, <1>2, CommitInTurn, RollbackInTurn, RunStartInTurn, RunTeamInTurn, RunSkipInTurn,
     RunCommitInTurn, RunAbortInTurn, PeopleInTurn, RosterInTurn DEF Next, CatchUp

\* For any number of teams, members, requests and leads: whatever creations and
\* runs overlap, fail or are rolled back, no turn is lost or given twice, and the
\* shares of two members who may get every lead differ by one at most.
THEOREM SharesAreFair == Spec => []FairShare
<1>1. IInv /\ Shares => FairShare
  <2> SUFFICES ASSUME IInv, Shares, NEW t \in Teams, OneRing(t),
                      NEW u \in roster[t].members, NEW v \in roster[t].members
               PROVE  turns[t][u] <= turns[t][v] + 1
    BY DEF FairShare
  <2> DEFINE ids == roster[t].members
  <2>1. Whole(ids) /\ ids # {}
    BY DEF OneRing, Whole, CompanyIds
  <2>2. PICK e \in 0..(Cardinality(ids) - 1) : Arc(ids, turns[t], e, NextUp(ids, pointer[t]))
    BY <2>1 DEF Shares, TurnsInTurn, TurnsOf
  <2> DEFINE x(w) == Extra(e, NextUp(ids, pointer[t]), Position(ids, w))
  <2>3. PICK b \in Nat : \A w \in ids : turns[t][w] = b + x(w)
    BY <2>2 DEF Arc
  <2>4. x(u) \in {0, 1} /\ x(v) \in {0, 1}
    BY DEF Extra
  <2> HIDE DEF x
  <2>5. turns[t][u] = b + x(u) /\ turns[t][v] = b + x(v)
    BY <2>3
  <2> QED
    BY <2>4, <2>5
<1>2. Init => IInv /\ Shares
  BY Initially, SharesInitially
<1>3. (IInv /\ Shares) /\ [Next]_vars => (IInv /\ Shares)'
  BY IInvIsInductive, SharesAreInductive
<1> QED
  BY <1>1, <1>2, <1>3, PTL DEF Spec
=============================================================================
