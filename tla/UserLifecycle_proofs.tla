------------------------ MODULE UserLifecycle_proofs ------------------------
(***************************************************************************)
(* Proofs about UserLifecycle, for any users, settings, dates and zones    *)
(* and any number of edits.                                                *)
(*                                                                         *)
(* IInv is inductive.  What a run may still write (Reach) is the row of a  *)
(* user who is active, and for whom what the run looked for still holds:   *)
(* every edit takes the row out of the reach of the runs, or waits for     *)
(* their lock.  FlagsTell and the action properties follow.                *)
(***************************************************************************)
EXTENDS UserLifecycle, TLAPS

\* what the run found, and a login does not undo
Warranted(k, u) ==
  IF k = "dormancy"
  THEN /\ ~user[u].exempt
       /\ user[u].seen > MinDays \/ u \in run["dormancy"].logins
  ELSE Passed(u, 0)

Justified == \A k \in Kinds : \A u \in Reach(k) : Warranted(k, u)

NeverAborted == run["dormancy"].pc # "aborted"

IInv == TypeOK /\ FlagsTell /\ Justified /\ NeverAborted

FlagsFit(r) == /\ r.by_dormancy \/ r.by_expiry => ~r.active
               /\ ~(r.by_dormancy /\ r.by_expiry)

-----------------------------------------------------------------------------
(* The steps of a run that write nothing yet *)

ReachOf(r) == (r.todo \ r.touched) \cup r.done

\* A step that changes one run, and leaves within its reach only active users
\* whom it may archive, keeps the invariant.
LEMMA RunStep ==
  ASSUME IInv, NEW k \in Kinds, NEW r \in RunState,
         run' = [run EXCEPT ![k] = r], UNCHANGED <<user, param, edits>>,
         \A j \in Kinds \ {k} : r.done \cap run[j].done = {},
         \A u \in ReachOf(r) : /\ user[u].active
                               /\ k = "dormancy" => ~user[u].exempt
                               /\ k = "dormancy" => \/ user[u].seen > MinDays
                                                    \/ u \in r.logins
                               /\ k = "expiry" => Passed(u, 0),
         k = "dormancy" => r.pc # "aborted"
  PROVE  IInv'
<1>1. run \in [Kinds -> RunState]
  BY DEF IInv, TypeOK
<1>2. run'[k] = r /\ \A j \in Kinds \ {k} : run'[j] = run[j]
  BY <1>1
<1>3. run' \in [Kinds -> RunState]
  BY <1>1
<1>4. \A j \in Kinds : Reach(j)' = IF j = k THEN ReachOf(r) ELSE Reach(j)
  BY <1>2 DEF Reach, ReachOf
<1>5. (run["dormancy"].done \cap run["expiry"].done = {})'
  BY <1>2 DEF IInv, TypeOK, Kinds
<1>6. \A j \in Kinds : \A u \in Reach(j)' : user'[u].active
  BY <1>4 DEF IInv, TypeOK
<1>7. TypeOK'
  BY <1>3, <1>5, <1>6 DEF IInv, TypeOK
<1>8. FlagsTell'
  BY DEF IInv, FlagsTell
<1>9. Justified'
  <2> SUFFICES ASSUME NEW j \in Kinds, NEW u \in Reach(j)'
               PROVE  Warranted(j, u)'
    BY DEF Justified
  <2>1. CASE j = k
    BY <2>1, <1>2, <1>4 DEF Warranted, Passed, Kinds
  <2>2. CASE j # k
    <3>1. Warranted(j, u)
      BY <2>2, <1>4 DEF IInv, Justified
    <3> QED
      BY <3>1, <2>2, <1>2 DEF Warranted, Passed, Kinds
  <2> QED
    BY <2>1, <2>2
<1>10. NeverAborted'
  BY <1>2 DEF IInv, NeverAborted, Kinds
<1> QED
  BY <1>7, <1>8, <1>9, <1>10 DEF IInv

LEMMA NoRunFits == NoRun \in RunState /\ ReachOf(NoRun) = {} /\ NoRun.done = {}
BY DEF NoRun, Fresh, RunState, ReachOf

\* Where a run is: what the steps of a run start from.
LEMMA RunTyped ==
  ASSUME IInv, NEW k \in Kinds
  PROVE  /\ run[k] \in RunState
         /\ Reach(k) = ReachOf(run[k])
         /\ \A j \in Kinds \ {k} : run[k].done \cap run[j].done = {}
         /\ \A u \in Reach(k) : user[u].active /\ Warranted(k, u)
BY DEF IInv, TypeOK, Reach, ReachOf, Justified, Kinds

\* A run starts with the users it finds, who are what it looks for.
LEMMA StartKeeps ==
  ASSUME IInv, NEW k \in Kinds, RunStart(k)
  PROVE  IInv'
<1> DEFINE r == Fresh("archiving", Candidates(k), param.notify[k])
<1>1. r = [pc |-> "archiving", todo |-> Candidates(k), done |-> {}, touched |-> {},
           logins |-> {}, notify |-> param.notify[k]]
  BY DEF Fresh
<1>2. param.notify[k] \in BOOLEAN
  BY ConstantsAssumption DEF IInv, TypeOK
<1>3. Candidates(k) \subseteq Users \ Admins
  BY DEF Candidates, Dormant, Expired
<1>4. r \in RunState
  BY <1>1, <1>2, <1>3 DEF RunState
<1>5. ReachOf(r) = Candidates(k)
  BY <1>1 DEF ReachOf
<1>6. Days(param) \in Int /\ Days(param) >= MinDays
  BY ConstantsAssumption DEF Days, Period, IInv, TypeOK
<1>7. ASSUME NEW u \in Candidates(k)
      PROVE  /\ user[u].active
             /\ k = "dormancy" => ~user[u].exempt /\ user[u].seen > MinDays
             /\ k = "expiry" => Passed(u, 0)
  <2>1. CASE k = "dormancy"
    <3>1. u \in Dormant
      BY <2>1 DEF Candidates
    <3>2. user[u] \in User
      BY <3>1 DEF IInv, TypeOK, Dormant
    <3>3. user[u].seen \in 0..MaxSeen
      BY <3>2 DEF User
    <3> QED
      BY <3>1, <3>3, <2>1, <1>6, ConstantsAssumption DEF Dormant
  <2>2. CASE k = "expiry"
    BY <2>2 DEF Candidates, Expired
  <2> QED
    BY <2>1, <2>2 DEF Kinds
<1>8. run' = [run EXCEPT ![k] = r] /\ UNCHANGED <<user, param, edits>>
  BY DEF RunStart
<1>9. /\ k = "dormancy" => r.pc # "aborted"
      /\ \A j \in Kinds \ {k} : r.done \cap run[j].done = {}
  BY <1>1
<1> HIDE DEF r
<1>10. \A u \in ReachOf(r) : /\ user[u].active
                             /\ k = "dormancy" => ~user[u].exempt /\ user[u].seen > MinDays
                             /\ k = "expiry" => Passed(u, 0)
  BY <1>5, <1>7
<1> QED
  BY <1>4, <1>8, <1>9, <1>10, RunStep

\* The row of a user moves from what the run has to do to what it has done.
LEMMA ArchiveKeeps ==
  ASSUME IInv, NEW k \in Kinds, NEW u \in Users, Archive(k, u)
  PROVE  IInv'
<1> DEFINE r == [run[k] EXCEPT !.todo = @ \ {u}, !.done = @ \cup {u}]
<1>1. run[k] \in RunState
  BY RunTyped
<1>2. /\ u \in run[k].todo \ run[k].touched
      /\ \A j \in Kinds : u \notin run[j].done
      /\ run[k].pc = "archiving"
  BY DEF Archive, Locked
<1>3. /\ r.todo = run[k].todo \ {u}
      /\ r.done = run[k].done \cup {u}
      /\ r.touched = run[k].touched /\ r.logins = run[k].logins /\ r.pc = run[k].pc
  BY <1>1 DEF RunState
<1>4. r \in RunState
  BY <1>1, <1>2 DEF RunState
<1>5. ReachOf(r) = Reach(k)
  BY <1>2, <1>3 DEF ReachOf, Reach
<1>6. run' = [run EXCEPT ![k] = r] /\ UNCHANGED <<user, param, edits>>
  BY DEF Archive
<1>7. \A j \in Kinds \ {k} : r.done \cap run[j].done = {}
  BY <1>2, <1>3, RunTyped
<1> HIDE DEF r
<1>8. \A v \in ReachOf(r) : user[v].active /\ Warranted(k, v)
  BY <1>5, RunTyped
<1> QED
  BY <1>2, <1>3, <1>4, <1>6, <1>7, <1>8, RunStep DEF Warranted, Kinds

LEMMA ArchiveFailsKeeps ==
  ASSUME IInv, NEW k \in Kinds, NEW u \in Users, ArchiveFails(k, u)
  PROVE  IInv'
<1> DEFINE r == [run[k] EXCEPT !.todo = @ \ {u}, !.touched = @ \ {u}]
<1>1. run[k] \in RunState
  BY RunTyped
<1>2. /\ r.todo = run[k].todo \ {u} /\ r.touched = run[k].touched \ {u}
      /\ r.done = run[k].done /\ r.logins = run[k].logins /\ r.pc = run[k].pc
  BY <1>1 DEF RunState
<1>3. r \in RunState
  BY <1>1 DEF RunState
<1>4. ReachOf(r) \subseteq Reach(k)
  BY <1>2 DEF ReachOf, Reach
<1>5. run' = [run EXCEPT ![k] = r] /\ UNCHANGED <<user, param, edits>>
      /\ run[k].pc = "archiving"
  BY DEF ArchiveFails
<1>6. \A j \in Kinds \ {k} : r.done \cap run[j].done = {}
  BY <1>2, RunTyped
<1> HIDE DEF r
<1>7. \A v \in ReachOf(r) : user[v].active /\ Warranted(k, v)
  BY <1>4, RunTyped
<1> QED
  BY <1>2, <1>3, <1>5, <1>6, <1>7, RunStep DEF Warranted, Kinds

\* A step that only says where the run is.
LEMMA MoveKeeps ==
  ASSUME IInv, NEW k \in Kinds, NEW pc \in {"archiving", "ending", "aborted"},
         k = "dormancy" => pc # "aborted",
         run' = [run EXCEPT ![k].pc = pc], UNCHANGED <<user, param, edits>>
  PROVE  IInv'
<1> DEFINE r == [run[k] EXCEPT !.pc = pc]
<1>1. run[k] \in RunState
  BY RunTyped
<1>2. /\ r.todo = run[k].todo /\ r.touched = run[k].touched
      /\ r.done = run[k].done /\ r.logins = run[k].logins /\ r.pc = pc
  BY <1>1 DEF RunState
<1>3. r \in RunState
  BY <1>1 DEF RunState
<1>4. ReachOf(r) = Reach(k)
  BY <1>2 DEF ReachOf, Reach
<1>5. run' = [run EXCEPT ![k] = r]
  OBVIOUS
<1>6. \A j \in Kinds \ {k} : r.done \cap run[j].done = {}
  BY <1>2, RunTyped
<1> HIDE DEF r
<1>7. \A v \in ReachOf(r) : user[v].active /\ Warranted(k, v)
  BY <1>4, RunTyped
<1> QED
  BY <1>2, <1>3, <1>5, <1>6, <1>7, RunStep DEF Warranted, Kinds

LEMMA CrashKeeps ==
  ASSUME IInv, NEW k \in Kinds, RunCrash(k)
  PROVE  IInv'
<1>1. NoRun.pc = "idle"
  BY DEF NoRun, Fresh
<1>2. run' = [run EXCEPT ![k] = NoRun] /\ UNCHANGED <<user, param, edits>>
  BY DEF RunCrash
<1>3. \A j \in Kinds \ {k} : NoRun.done \cap run[j].done = {}
  BY NoRunFits
<1>4. \A u \in ReachOf(NoRun) : FALSE
  BY NoRunFits
<1> QED
  BY <1>1, <1>2, <1>3, <1>4, NoRunFits, RunStep

-----------------------------------------------------------------------------
(* The steps that change rows *)

\* What becomes of a run whose rows us have changed under it.
LEMMA TouchedRun ==
  ASSUME TypeOK, NEW k \in Kinds, NEW us \in SUBSET Users,
         us \cap run[k].done = {}
  PROVE  /\ Touched(k, us) \in RunState
         /\ ReachOf(Touched(k, us)) = Reach(k) \ us
         /\ Touched(k, us).done = run[k].done
         /\ Touched(k, us).logins = run[k].logins
         /\ Touched(k, us).pc = run[k].pc
<1>1. run[k] \in RunState
  BY DEF TypeOK
<1>2. run[k].touched \cup (us \cap run[k].todo) \in SUBSET Users
  BY <1>1 DEF RunState
<1>3. Touched(k, us) = [run[k] EXCEPT !.touched = run[k].touched \cup (us \cap run[k].todo)]
  BY DEF Touched
<1>4. /\ Touched(k, us).todo = run[k].todo
      /\ Touched(k, us).touched = run[k].touched \cup (us \cap run[k].todo)
      /\ Touched(k, us).done = run[k].done
      /\ Touched(k, us).logins = run[k].logins
      /\ Touched(k, us).pc = run[k].pc
  BY <1>1, <1>3 DEF RunState
<1>5. Touched(k, us) \in RunState
  BY <1>1, <1>2, <1>3 DEF RunState
<1>6. ReachOf(Touched(k, us)) = Reach(k) \ us
  BY <1>4 DEF ReachOf, Reach
<1> QED
  BY <1>4, <1>5, <1>6

LEMMA Rows ==
  ASSUME IInv, NEW u \in Users
  PROVE  /\ user[u] \in User
         /\ user[u].active \in BOOLEAN /\ user[u].seen \in 0..MaxSeen
         /\ user[u].logged \in BOOLEAN /\ user[u].exempt \in BOOLEAN
         /\ user[u].date \in Int \cup {NoDate}
         /\ user[u].by_dormancy \in BOOLEAN /\ user[u].by_expiry \in BOOLEAN
         /\ FlagsFit(user[u])
BY DEF IInv, TypeOK, User, FlagsTell, FlagsFit

\* A person who edits a row takes it out of the reach of the runs.
LEMMA EditStep ==
  ASSUME IInv, NEW v \in Users, ~Locked(v), Touch({v}), NEW r \in User, FlagsFit(r),
         user' = [user EXCEPT ![v] = r], UNCHANGED param, edits' \in Nat
  PROVE  IInv'
<1>1. ASSUME NEW k \in Kinds
      PROVE  /\ run'[k] \in RunState /\ Reach(k)' = Reach(k) \ {v}
             /\ run'[k].done = run[k].done /\ run'[k].logins = run[k].logins
             /\ run'[k].pc = run[k].pc
  <2>1. run'[k] = Touched(k, {v})
    BY DEF Touch
  <2>2. {v} \cap run[k].done = {}
    BY DEF Locked
  <2>3. Reach(k)' = ReachOf(run'[k])
    BY DEF Reach, ReachOf
  <2> QED
    BY <2>1, <2>2, <2>3, TouchedRun DEF IInv
<1>2. run' \in [Kinds -> RunState]
  BY <1>1 DEF Touch
<1>3. /\ user' \in [Users -> User] /\ user'[v] = r
      /\ \A u \in Users \ {v} : user'[u] = user[u]
  BY DEF IInv, TypeOK
<1>4. \A k \in Kinds : Reach(k) \subseteq Users
  BY DEF IInv, TypeOK, Reach, RunState
<1>5. TypeOK'
  <2>1. (run["dormancy"].done \cap run["expiry"].done = {})'
    BY <1>1 DEF IInv, TypeOK, Kinds
  <2>2. \A k \in Kinds : \A u \in Reach(k)' : user'[u].active
    BY <1>1, <1>3, <1>4 DEF IInv, TypeOK
  <2> QED
    BY <1>2, <1>3, <2>1, <2>2 DEF IInv, TypeOK
<1>6. FlagsTell'
  BY <1>3 DEF IInv, FlagsTell, FlagsFit
<1>7. Justified'
  <2> SUFFICES ASSUME NEW k \in Kinds, NEW u \in Reach(k)'
               PROVE  Warranted(k, u)'
    BY DEF Justified
  <2>1. u \in Reach(k) /\ user'[u] = user[u]
    BY <1>1, <1>3, <1>4
  <2>2. Warranted(k, u)
    BY <2>1 DEF IInv, Justified
  <2> QED
    BY <1>1, <2>1, <2>2 DEF Warranted, Passed, Kinds
<1>8. NeverAborted'
  BY <1>1 DEF IInv, NeverAborted, Kinds
<1> QED
  BY <1>5, <1>6, <1>7, <1>8 DEF IInv

LEMMA EditCounts ==
  ASSUME IInv, Edit
  PROVE  edits' \in Nat
BY DEF IInv, TypeOK, Edit

\* Whoever is re-activated carries no flag.
LEMMA ReactivateKeeps ==
  ASSUME IInv, NEW u \in Users, NEW zone \in Zones, Reactivate(u, zone)
  PROVE  IInv'
<1> DEFINE r0 == [user[u] EXCEPT !.active = TRUE]
           r1 == DormancyCleared(r0)
           r2 == ExpiryCleared(r1, zone)
<1>1. r0 \in User
  BY Rows DEF User
<1>2. r1 \in User /\ ~r1.by_dormancy
  BY <1>1 DEF DormancyCleared, User
<1> HIDE DEF r1
<1>3. r2 \in User /\ ~r2.by_dormancy /\ ~r2.by_expiry
  BY <1>2 DEF ExpiryCleared, User
<1>4. user' = [user EXCEPT ![u] = r2]
  BY DEF Reactivate, r1
<1> HIDE DEF r2
<1> QED
  BY <1>3, <1>4, EditCounts, EditStep DEF Reactivate, FlagsFit

LEMMA ArchiveByHandKeeps ==
  ASSUME IInv, NEW u \in Users, ArchiveByHand(u)
  PROVE  IInv'
<1> DEFINE r == [user[u] EXCEPT !.active = FALSE]
<1>1. r \in User /\ FlagsFit(r)
  BY Rows DEF User, FlagsFit
<1>2. user' = [user EXCEPT ![u] = r]
  BY DEF ArchiveByHand
<1> HIDE DEF r
<1> QED
  BY <1>1, <1>2, EditCounts, EditStep DEF ArchiveByHand

LEMMA SetDateKeeps ==
  ASSUME IInv, NEW u \in Users, NEW date \in Dates \cup {NoDate}, SetDate(u, date)
  PROVE  IInv'
<1> DEFINE r == [user[u] EXCEPT !.date = date]
<1>1. date \in Int \cup {NoDate}
  BY ConstantsAssumption
<1>2. r \in User /\ FlagsFit(r)
  BY <1>1, Rows DEF User, FlagsFit
<1>3. user' = [user EXCEPT ![u] = r]
  BY DEF SetDate
<1> HIDE DEF r
<1> QED
  BY <1>2, <1>3, EditCounts, EditStep DEF SetDate

LEMMA SetExemptKeeps ==
  ASSUME IInv, NEW u \in Users, SetExempt(u)
  PROVE  IInv'
<1> DEFINE r == [user[u] EXCEPT !.exempt = ~user[u].exempt]
<1>1. r \in User /\ FlagsFit(r)
  BY Rows DEF User, FlagsFit
<1>2. user' = [user EXCEPT ![u] = r]
  BY DEF SetExempt
<1> HIDE DEF r
<1> QED
  BY <1>1, <1>2, EditCounts, EditStep DEF SetExempt

LEMMA SaveSettingsKeeps ==
  ASSUME IInv, NEW p \in Settings, SaveSettings(p)
  PROVE  IInv'
<1>1. edits' \in Nat
  BY EditCounts DEF SaveSettings
<1> QED
  BY <1>1 DEF IInv, TypeOK, FlagsTell, Justified, NeverAborted, Warranted, Passed,
              Reach, SaveSettings

\* A login makes a user seen, which the run that has him in its snapshot is
\* told of; his row is left as it was.
LEMMA LoginKeeps ==
  ASSUME IInv, NEW v \in Users, Login(v)
  PROVE  IInv'
<1> DEFINE r == [user[v] EXCEPT !.seen = 0, !.logged = TRUE]
           d == run["dormancy"]
           s == [d EXCEPT !.logins = d.logins \cup ({v} \cap (d.todo \cup d.done))]
<1>1. /\ r \in User /\ r.active = user[v].active /\ r.exempt = user[v].exempt
      /\ r.date = user[v].date /\ r.by_dormancy = user[v].by_dormancy
      /\ r.by_expiry = user[v].by_expiry
  <2>1. user[v] \in User /\ 0 \in 0..MaxSeen
    BY Rows, ConstantsAssumption
  <2> QED
    BY <2>1 DEF User
<1>2. user' = [user EXCEPT ![v] = r]
  BY DEF Login
<1> HIDE DEF r
<1>3. /\ user' \in [Users -> User] /\ user'[v] = r
      /\ \A u \in Users \ {v} : user'[u] = user[u]
  BY <1>1, <1>2 DEF IInv, TypeOK
<1>4. d \in RunState
  BY DEF IInv, TypeOK, Kinds
<1>5. /\ s \in RunState /\ s.todo = d.todo /\ s.done = d.done /\ s.pc = d.pc
      /\ s.touched = d.touched /\ s.logins = d.logins \cup ({v} \cap (d.todo \cup d.done))
  <2>1. d.logins \cup ({v} \cap (d.todo \cup d.done)) \in SUBSET Users
    BY <1>4 DEF RunState
  <2> QED
    BY <1>4, <2>1 DEF RunState
<1>6. run' = [run EXCEPT !["dormancy"] = s]
  BY DEF Login
<1>7. run' \in [Kinds -> RunState] /\ run'["dormancy"] = s /\ run'["expiry"] = run["expiry"]
  BY <1>5, <1>6 DEF IInv, TypeOK, Kinds
<1>8. \A k \in Kinds : Reach(k)' = Reach(k) /\ Reach(k) \subseteq Users
                       /\ run'[k].done = run[k].done /\ run'[k].pc = run[k].pc
  BY <1>4, <1>5, <1>7 DEF Reach, Kinds, IInv, TypeOK, RunState
<1>9. \A u \in Users : user'[u].active = user[u].active
  BY <1>1, <1>3
<1>10. TypeOK'
  <2>1. (run["dormancy"].done \cap run["expiry"].done = {})'
    BY <1>8 DEF IInv, TypeOK, Kinds
  <2>2. \A k \in Kinds : \A u \in Reach(k)' : user'[u].active
    BY <1>8, <1>9 DEF IInv, TypeOK
  <2> QED
    BY <1>3, <1>7, <2>1, <2>2 DEF IInv, TypeOK, Login
<1>11. FlagsTell'
  BY <1>1, <1>3 DEF IInv, FlagsTell
<1>12. Justified'
  <2> SUFFICES ASSUME NEW k \in Kinds, NEW u \in Reach(k)'
               PROVE  Warranted(k, u)'
    BY DEF Justified
  <2>1. u \in Reach(k) /\ u \in Users /\ Warranted(k, u)
    BY <1>8 DEF IInv, Justified
  <2>2. CASE k = "expiry"
    <3>1. user'[u].date = user[u].date
      BY <2>1, <1>1, <1>3
    <3> QED
      BY <2>1, <2>2, <3>1 DEF Warranted, Passed, PassedFor
  <2>3. CASE k = "dormancy" /\ u = v
    <3>1. v \in d.todo \cup d.done
      BY <2>1, <2>3 DEF Reach
    <3>2. v \in run'["dormancy"].logins
      BY <3>1, <1>5, <1>7
    <3> QED
      BY <2>1, <2>3, <3>2, <1>1, <1>3 DEF Warranted
  <2>4. CASE k = "dormancy" /\ u # v
    BY <2>1, <2>4, <1>3, <1>5, <1>7 DEF Warranted
  <2> QED
    BY <2>2, <2>3, <2>4 DEF Kinds
<1>13. NeverAborted'
  BY <1>8 DEF IInv, NeverAborted, Kinds
<1> QED
  BY <1>10, <1>11, <1>12, <1>13 DEF IInv

\* Time only makes a user more dormant, and a date more passed.
LEMMA NextDayKeeps ==
  ASSUME IInv, NextDay
  PROVE  IInv'
<1> DEFINE older(u) == [user[u] EXCEPT
             !.seen = IF user[u].seen < MaxSeen THEN user[u].seen + 1 ELSE user[u].seen,
             !.date = IF user[u].date = NoDate \/ user[u].date < 0
                        THEN user[u].date ELSE user[u].date - 1]
<1>1. user' = [u \in Users |-> older(u)] /\ UNCHANGED <<param, run, edits>>
  BY DEF NextDay
<1>2. ASSUME NEW u \in Users
      PROVE  /\ older(u) \in User
             /\ older(u).active = user[u].active /\ older(u).exempt = user[u].exempt
             /\ older(u).by_dormancy = user[u].by_dormancy
             /\ older(u).by_expiry = user[u].by_expiry
             /\ user[u].seen > MinDays => older(u).seen > MinDays
             /\ PassedFor(user[u], 0) => PassedFor(older(u), 0)
  <2> DEFINE sn == IF user[u].seen < MaxSeen THEN user[u].seen + 1 ELSE user[u].seen
             dt == IF user[u].date = NoDate \/ user[u].date < 0
                     THEN user[u].date ELSE user[u].date - 1
  <2>1. /\ sn \in 0..MaxSeen
        /\ user[u].seen > MinDays => sn > MinDays
    BY Rows, ConstantsAssumption
  <2>2. dt \in Int \cup {NoDate}
    BY Rows
  <2>3. user[u].date # NoDate /\ user[u].date <= 0 => dt # NoDate /\ dt <= 0
    BY Rows, ConstantsAssumption
  <2> HIDE DEF sn, dt
  <2>4. older(u) = [user[u] EXCEPT !.seen = sn, !.date = dt]
    BY DEF sn, dt
  <2>5. /\ older(u) \in User /\ older(u).seen = sn /\ older(u).date = dt
        /\ older(u).active = user[u].active /\ older(u).exempt = user[u].exempt
        /\ older(u).by_dormancy = user[u].by_dormancy
        /\ older(u).by_expiry = user[u].by_expiry
    BY <2>1, <2>2, <2>4, Rows DEF User
  <2> QED
    BY <2>1, <2>3, <2>5 DEF PassedFor
<1> HIDE DEF older
<1>3. user' \in [Users -> User] /\ \A u \in Users : user'[u] = older(u)
  BY <1>1, <1>2
<1>4. \A k \in Kinds : Reach(k)' = Reach(k) /\ Reach(k) \subseteq Users
  BY <1>1 DEF Reach, IInv, TypeOK, RunState
<1>5. TypeOK'
  BY <1>1, <1>2, <1>3, <1>4 DEF IInv, TypeOK
<1>6. FlagsTell'
  BY <1>2, <1>3 DEF IInv, FlagsTell
<1>7. Justified'
  <2> SUFFICES ASSUME NEW k \in Kinds, NEW u \in Reach(k)'
               PROVE  Warranted(k, u)'
    BY DEF Justified
  <2>1. u \in Users /\ Warranted(k, u)
    BY <1>4 DEF IInv, Justified
  <2>2. CASE k = "dormancy"
    BY <2>1, <2>2, <1>1, <1>2, <1>3 DEF Warranted
  <2>3. CASE k = "expiry"
    BY <2>1, <2>3, <1>2, <1>3 DEF Warranted, Passed
  <2> QED
    BY <2>2, <2>3 DEF Kinds
<1>8. NeverAborted'
  BY <1>1 DEF IInv, NeverAborted
<1> QED
  BY <1>5, <1>6, <1>7, <1>8 DEF IInv

\* The run that commits archives active users, and takes their rows out of the
\* reach of the other run.
LEMMA CommitKeeps ==
  ASSUME IInv, NEW k \in Kinds, RunCommit(k)
  PROVE  IInv'
<1> DEFINE kept == IF run[k].pc = "ending" THEN run[k].done ELSE {}
<1>1. /\ user' = [u \in Users |-> IF u \in kept THEN Archived(k, user[u]) ELSE user[u]]
      /\ run' = [j \in Kinds |-> IF j = k THEN NoRun ELSE Touched(j, kept)]
      /\ UNCHANGED <<param, edits>>
  BY DEF RunCommit
<1>2. /\ kept \in SUBSET Users /\ \A u \in kept : user[u].active
      /\ \A j \in Kinds \ {k} : kept \cap run[j].done = {}
  <2>1. kept \subseteq Reach(k) /\ kept \subseteq run[k].done
    BY DEF Reach
  <2> QED
    BY <2>1, RunTyped DEF RunState
<1> HIDE DEF kept
<1>3. \A u \in Users \ kept : user'[u] = user[u]
  BY <1>1
<1>4. ASSUME NEW u \in kept
      PROVE  user'[u] \in User /\ FlagsFit(user'[u])
  <2>1. user'[u] = Archived(k, user[u])
    BY <1>1, <1>2
  <2>2. user[u].active /\ user[u] \in User /\ FlagsFit(user[u])
    BY <1>2, Rows
  <2>3. ~user[u].by_dormancy /\ ~user[u].by_expiry
    BY <2>2 DEF FlagsFit
  <2>4. CASE k = "dormancy"
    <3>1. user'[u] = [user[u] EXCEPT !.active = FALSE, !.by_dormancy = TRUE]
      BY <2>1, <2>4 DEF Archived, ArchivedDormant
    <3> QED
      BY <2>2, <2>3, <3>1 DEF User, FlagsFit
  <2>5. CASE k = "expiry"
    <3>1. user'[u] = [user[u] EXCEPT !.active = FALSE, !.by_expiry = TRUE]
      BY <2>1, <2>5 DEF Archived, ArchivedExpired
    <3> QED
      BY <2>2, <2>3, <3>1 DEF User, FlagsFit
  <2> QED
    BY <2>4, <2>5 DEF Kinds
<1>5. \A u \in Users : user'[u] \in User /\ FlagsFit(user'[u])
  BY <1>3, <1>4, Rows
<1>6. user' \in [Users -> User]
  BY <1>1, <1>5
<1>7. run'[k] = NoRun /\ Reach(k)' = {}
  BY <1>1, NoRunFits DEF Reach, ReachOf
<1>8. ASSUME NEW j \in Kinds \ {k}
      PROVE  /\ run'[j] \in RunState /\ Reach(j)' = Reach(j) \ kept
             /\ run'[j].done = run[j].done /\ run'[j].logins = run[j].logins
             /\ run'[j].pc = run[j].pc
  <2>1. run'[j] = Touched(j, kept)
    BY <1>1
  <2>2. Reach(j)' = ReachOf(run'[j])
    BY DEF Reach, ReachOf
  <2> QED
    BY <1>2, <2>1, <2>2, TouchedRun DEF IInv
<1>9. run' \in [Kinds -> RunState]
  BY <1>1, <1>7, <1>8, NoRunFits
<1>10. \A j \in Kinds : Reach(j) \subseteq Users
  BY DEF IInv, TypeOK, Reach, RunState
<1>11. TypeOK'
  <2>1. (run["dormancy"].done \cap run["expiry"].done = {})'
    BY <1>7, <1>8, NoRunFits DEF Kinds
  <2>2. \A j \in Kinds : \A u \in Reach(j)' : user'[u].active
    BY <1>3, <1>7, <1>8, <1>10 DEF IInv, TypeOK
  <2> QED
    BY <1>1, <1>6, <1>9, <2>1, <2>2 DEF IInv, TypeOK
<1>12. FlagsTell'
  BY <1>5 DEF FlagsTell, FlagsFit
<1>13. Justified'
  <2> SUFFICES ASSUME NEW j \in Kinds, NEW u \in Reach(j)'
               PROVE  Warranted(j, u)'
    BY DEF Justified
  <2>1. j # k
    BY <1>7
  <2>2. u \in Reach(j) /\ u \in Users \ kept
    BY <2>1, <1>8, <1>10
  <2>3. Warranted(j, u)
    BY <2>2 DEF IInv, Justified
  <2> QED
    BY <2>1, <2>2, <2>3, <1>3, <1>8 DEF Warranted, Passed, Kinds
<1>14. NeverAborted'
  <2>1. NoRun.pc # "aborted"
    BY DEF NoRun, Fresh
  <2> QED
    BY <2>1, <1>7, <1>8 DEF IInv, NeverAborted, Kinds
<1> QED
  BY <1>11, <1>12, <1>13, <1>14 DEF IInv

-----------------------------------------------------------------------------
(* The invariant *)

LEMMA InitHolds == Init => IInv
<1> SUFFICES ASSUME Init PROVE IInv
  OBVIOUS
<1>1. \A k \in Kinds : run[k] = NoRun
  BY DEF Init
<1>2. \A k \in Kinds : Reach(k) = {}
  BY <1>1, NoRunFits DEF Reach, ReachOf
<1>3. PICK seen \in 0..MaxSeen, date \in Dates \cup {NoDate} :
        user = [u \in Users |-> NewUser(seen, date)]
  BY DEF Init
<1>4. date \in Int \cup {NoDate}
  BY ConstantsAssumption
<1>5. NewUser(seen, date) \in User /\ FlagsFit(NewUser(seen, date))
  BY <1>4 DEF NewUser, User, FlagsFit
<1>6. TypeOK
  BY <1>1, <1>2, <1>3, <1>5, NoRunFits DEF TypeOK, Init, Kinds
<1>7. FlagsTell
  BY <1>3, <1>5 DEF FlagsTell, FlagsFit
<1>8. Justified
  BY <1>2 DEF Justified
<1>9. NeverAborted
  BY <1>1 DEF NeverAborted, NoRun, Fresh, Kinds
<1> QED
  BY <1>6, <1>7, <1>8, <1>9 DEF IInv

LEMMA NextKeeps == IInv /\ [Next]_vars => IInv'
<1> SUFFICES ASSUME IInv, [Next]_vars PROVE IInv'
  OBVIOUS
<1>1. ASSUME NEW k \in Kinds, Nightly(k) PROVE IInv'
  <2>1. CASE RunStart(k)
    BY <2>1, StartKeeps
  <2>2. ASSUME NEW u \in Users, Archive(k, u) PROVE IInv'
    BY <2>2, ArchiveKeeps
  <2>3. ASSUME NEW u \in Users, ArchiveFails(k, u) PROVE IInv'
    BY <2>3, ArchiveFailsKeeps
  <2>4. CASE Notified(k)
    BY <2>4, MoveKeeps DEF Notified
  <2>5. CASE RunCommit(k)
    BY <2>5, CommitKeeps
  <2>6. CASE RunCrash(k)
    BY <2>6, CrashKeeps
  <2> QED
    BY <1>1, <2>1, <2>2, <2>3, <2>4, <2>5, <2>6 DEF Nightly
<1>2. CASE DormancyNoticeFails
  BY <1>2, MoveKeeps DEF DormancyNoticeFails, NoticeFails, Kinds
<1>3. CASE ExpiryNoticeFails
  BY <1>3, MoveKeeps DEF ExpiryNoticeFails, NoticeFails, Kinds
<1>4. CASE People
  <2>1. ASSUME NEW u \in Users, NEW zone \in Zones, Reactivate(u, zone) PROVE IInv'
    BY <2>1, ReactivateKeeps
  <2>2. ASSUME NEW u \in Users, ArchiveByHand(u) PROVE IInv'
    BY <2>2, ArchiveByHandKeeps
  <2>3. ASSUME NEW u \in Users, NEW date \in Dates \cup {NoDate}, SetDate(u, date)
        PROVE  IInv'
    BY <2>3, SetDateKeeps
  <2>4. ASSUME NEW u \in Users, SetExempt(u) PROVE IInv'
    BY <2>4, SetExemptKeeps
  <2>5. ASSUME NEW u \in Users, Login(u) PROVE IInv'
    BY <2>5, LoginKeeps
  <2>6. ASSUME NEW p \in Settings, SaveSettings(p) PROVE IInv'
    BY <2>6, SaveSettingsKeeps
  <2> QED
    BY <1>4, <2>1, <2>2, <2>3, <2>4, <2>5, <2>6 DEF People
<1>5. CASE NextDay
  BY <1>5, NextDayKeeps
<1>6. CASE UNCHANGED vars
  BY <1>6 DEF vars, IInv, TypeOK, FlagsTell, Justified, NeverAborted, Warranted,
              Passed, Reach
<1> QED
  BY <1>1, <1>2, <1>3, <1>4, <1>5, <1>6 DEF Next

LEMMA InvariantHolds == Spec => []IInv
BY InitHolds, NextKeeps, PTL DEF Spec

-----------------------------------------------------------------------------
(* The theorems *)

\* Types, and what the runs reach: every row within the reach of a run is that
\* of an active user, and no row is locked by both.
THEOREM TypeCorrect == Spec => []TypeOK
<1>1. IInv => TypeOK
  BY DEF IInv
<1> QED
  BY <1>1, InvariantHolds, PTL

\* A flag of deactivation is up on archived users only, and never both flags.
THEOREM FlagsAlwaysTell == Spec => []FlagsTell
<1>1. IInv => FlagsTell
  BY DEF IInv
<1> QED
  BY <1>1, InvariantHolds, PTL

\* What a commit writes was within the reach of its run.
LEMMA CommittedWarranted ==
  ASSUME IInv, NEW k \in Kinds, NEW u \in Users, Committed(k, u)
  PROVE  user[u].active /\ Warranted(k, u)
<1>1. u \in Reach(k)
  BY DEF Committed, Reach
<1> QED
  BY <1>1, RunTyped

\* No run archives a user against what people wrote since it looked.
THEOREM RunsFollowEdits == Spec => NeverAgainstEdit
<1>1. IInv /\ [Next]_vars =>
        [\A u \in Users :
           /\ Committed("dormancy", u) => user[u].active /\ ~user[u].exempt
           /\ Committed("expiry", u)   => user[u].active /\ Passed(u, 0)]_vars
  BY CommittedWarranted DEF Warranted, Kinds
<1> QED
  BY <1>1, InvariantHolds, PTL DEF Spec, NeverAgainstEdit

\* Nobody seen within MIN_DAYS is archived as dormant, save by a login the run
\* could not see.
THEOREM MinimumIsKept == Spec => MinimumKept
<1>1. IInv /\ [Next]_vars =>
        [\A u \in Users :
           Committed("dormancy", u)
             => user[u].seen > MinDays \/ u \in run["dormancy"].logins]_vars
  BY CommittedWarranted DEF Warranted, Kinds
<1> QED
  BY <1>1, InvariantHolds, PTL DEF Spec, MinimumKept

\* A dormancy run that ends keeps its archives, whatever became of its mail.
THEOREM NoticeIsHarmless == Spec => NoticeKeepsArchives
<1>1. ASSUME IInv, RunCommit("dormancy"), NEW u \in run["dormancy"].done
      PROVE  user'[u].by_dormancy
  <2>1. run["dormancy"].pc = "ending"
    BY <1>1 DEF RunCommit, IInv, NeverAborted
  <2>2. u \in Users
    BY <1>1, RunTyped DEF RunState, Kinds
  <2>3. user'[u] = [user[u] EXCEPT !.active = FALSE, !.by_dormancy = TRUE]
    BY <1>1, <2>1, <2>2 DEF RunCommit, Archived, ArchivedDormant
  <2>4. user[u] \in User
    BY <1>1, <2>2, Rows
  <2> QED
    BY <2>3, <2>4 DEF User
<1>2. IInv /\ [Next]_vars =>
        [RunCommit("dormancy") => \A u \in run["dormancy"].done : user'[u].by_dormancy]_vars
  BY <1>1
<1> QED
  BY <1>2, InvariantHolds, PTL DEF Spec, NoticeKeepsArchives
=============================================================================
