------------------------ MODULE LoginLockout_proofs -------------------------
(***************************************************************************)
(* Proofs about LoginLockout, for every number of workers, slots, logins   *)
(* and policies that satisfy its assumptions.                              *)
(***************************************************************************)
EXTENDS LoginLockout, FiniteSetTheorems, TLAPS

-----------------------------------------------------------------------------
(* The shapes that the operators on attempts return *)

LEMMA RecordedType ==
  ASSUME NEW table, NEW cfg, NEW login \in Logins \cup {NoLogin},
         NEW result \in {"failed", "success", "blocked"}
  PROVE  /\ Recorded(table, cfg, login, result) \in Row \cup {NoRow}
         /\ Recorded(table, cfg, login, result) # NoRow =>
              Recorded(table, cfg, login, result) = Attempt(login, result)
  BY SetsAssumption DEF Recorded, Attempt, Row

LEMMA InsertType ==
  ASSUME NEW table \in [Slots -> Row \cup {NoRow}], NEW r \in Row \cup {NoRow}
  PROVE  Insert(table, r) \in [Slots -> Row \cup {NoRow}]
  BY DEF Insert

LEMMA OlderType ==
  ASSUME NEW r \in Row \cup {NoRow}
  PROVE  Older(r) \in Row \cup {NoRow}
<1>1. CASE r = NoRow \/ r.age = MaxAge
  BY <1>1 DEF Older
<1>2. CASE r # NoRow /\ r.age # MaxAge
  <2>1. r \in Row /\ r.age \in 0..MaxAge
    BY <1>2 DEF Row
  <2>2. r.age + 1 \in 0..MaxAge
    BY <1>2, <2>1, SetsAssumption
  <2>3. QED
    BY <1>2, <2>1, <2>2 DEF Older, Row
<1>3. QED
  BY <1>1, <1>2

LEMMA AlertedType ==
  ASSUME NEW logins, alerts \in [Logins -> Nat], Alerted(logins)
  PROVE  alerts' \in [Logins -> Nat]
  BY DEF Alerted

-----------------------------------------------------------------------------
(* The stored parameters, the table and the requests keep their shapes. *)

LEMMA TypeInit == Init => TypeOK
  BY DEF Init, TypeOK, WorkerState, Idle

LEMMA TypeRequest ==
  ASSUME TypeOK, NEW w \in Workers, Request(w)
  PROVE  TypeOK'
<1> USE DEF TypeOK
<1>a. worker[w] \in WorkerState /\ LoginOf(w) \in Logins \cup {NoLogin}
  BY DEF WorkerState, LoginOf
<1>b. Idle \in WorkerState
  BY DEF Idle, WorkerState
<1>1. CASE \E typed \in Spellings : Pass(w, typed) \/ GuardFails(w, typed)
  <2>1. PICK typed \in Spellings : Pass(w, typed) \/ GuardFails(w, typed)
    BY <1>1
  <2>2. CheckPassword(w, typed) /\ Alerted({}) /\ UNCHANGED <<param, row>>
        /\ (unchecked' = unchecked \/ unchecked' = unchecked + 1)
    BY <2>1 DEF Pass, GuardFails, Unchecked
  <2> DEFINE known == typed \in Accounts
  <2>3. known \in BOOLEAN /\ Norm[typed] \in Logins \cup {NoLogin}
    BY SetsAssumption
  <2>4. worker' = [worker EXCEPT ![w] =
                     [Idle EXCEPT !.pc = "password", !.login = Norm[typed],
                                  !.known = known]]
    BY <2>2 DEF CheckPassword, Become
  <2> HIDE DEF known
  <2>5. worker' \in [Workers -> WorkerState]
    BY <2>3, <2>4 DEF Idle, WorkerState
  <2>6. QED
    BY <2>2, <2>5, AlertedType
<1>2. CASE \E typed \in Spellings : Refuse(w, typed)
  <2>1. PICK typed \in Spellings : Refuse(w, typed)
    BY <1>2
  <2>2. Norm[typed] \in Logins \cup {NoLogin}
    BY SetsAssumption
  <2>3. Recorded(row, Config(param), Norm[typed], "blocked") \in Row \cup {NoRow}
    BY <2>2, RecordedType
  <2>4. worker' \in [Workers -> WorkerState]
    BY <2>1, <2>2, <2>3 DEF Refuse, Become, Idle, WorkerState
  <2>5. QED
    BY <2>1, <2>4, AlertedType DEF Refuse
<1>3. CASE RefuseCommit(w) \/ RecordCommit(w)
  <2>1. row' = Insert(row, worker[w].row) /\ Become(w, Idle)
        /\ UNCHANGED <<param, unchecked>>
    BY <1>3 DEF RefuseCommit, RecordCommit
  <2>2. worker[w].row \in Row \cup {NoRow}
    BY <1>a DEF WorkerState
  <2>3. row' \in [Slots -> Row \cup {NoRow}]
    BY <2>1, <2>2, InsertType
  <2>4. worker' \in [Workers -> WorkerState]
    BY <2>1, <1>b DEF Become
  <2>5. alerts' \in [Logins -> Nat]
    BY <1>3, AlertedType DEF RefuseCommit, RecordCommit
  <2>6. QED
    BY <2>1, <2>3, <2>4, <2>5
<1>4. CASE RefuseRollback(w) \/ LoginError(w) \/ RecordFails(w)
  <2>1. Become(w, Idle) /\ Alerted({}) /\ UNCHANGED <<param, row, unchecked>>
    BY <1>4 DEF RefuseRollback, LoginError, RecordFails
  <2>2. worker' \in [Workers -> WorkerState]
    BY <2>1, <1>b DEF Become
  <2>3. QED
    BY <2>1, <2>2, AlertedType
<1>5. CASE WrongPassword(w)
  <2> DEFINE r == Recorded(row, Config(param), LoginOf(w), "failed")
             a == Alerts(Insert(row, r), Config(param), LoginOf(w))
  <2>1. r \in Row \cup {NoRow}
    BY <1>a, RecordedType
  <2>2. a \in BOOLEAN
    BY DEF Alerts
  <2>3. /\ worker' = [worker EXCEPT ![w] =
                        [Step(w, "writing") EXCEPT !.row = r, !.alert = a]]
        /\ Alerted({}) /\ UNCHANGED <<param, row, unchecked>>
    BY <1>5 DEF WrongPassword, Become
  <2> HIDE DEF r, a
  <2>4. worker' \in [Workers -> WorkerState]
    BY <1>a, <2>1, <2>2, <2>3 DEF Step, WorkerState
  <2>5. QED
    BY <2>3, <2>4, AlertedType
<1>6. CASE RightPassword(w)
  <2>1. Recorded(row, Config(param), LoginOf(w), "success") \in Row \cup {NoRow}
    BY <1>a, RecordedType
  <2>2. worker' \in [Workers -> WorkerState]
    BY <1>a, <1>6, <2>1 DEF RightPassword, Become, Step, WorkerState
  <2>3. QED
    BY <1>6, <2>2, AlertedType DEF RightPassword
<1>7. QED
  BY <1>1, <1>2, <1>3, <1>4, <1>5, <1>6 DEF Request

LEMMA TypeNext == TypeOK /\ [Next]_vars => TypeOK'
<1> SUFFICES ASSUME TypeOK, [Next]_vars PROVE TypeOK'
  OBVIOUS
<1>1. ASSUME NEW w \in Workers, Request(w) PROVE TypeOK'
  BY <1>1, TypeRequest
<1>2. ASSUME NEW S \in SUBSET Slots, Release(S) PROVE TypeOK'
  <2>1. \A i \in Releasable(S) : row[i] \in Row
    BY <1>2 DEF TypeOK, Releasable, NoRow
  <2>2. row' \in [Slots -> Row \cup {NoRow}]
    BY <1>2, <2>1 DEF TypeOK, Release, Row
  <2>3. QED
    BY <1>2, <2>2, AlertedType DEF TypeOK, Release
<1>3. ASSUME NEW f \in Forms, SaveSettings(f) PROVE TypeOK'
  BY <1>3, AlertedType DEF TypeOK, SaveSettings, Stored
<1>4. ASSUME NEW p \in Params, EditParameters(p) PROVE TypeOK'
  BY <1>4, AlertedType DEF TypeOK, EditParameters, Stored
<1>5. CASE Purge
  BY <1>5, AlertedType DEF TypeOK, Purge
<1>6. CASE Tick
  <2>1. row' \in [Slots -> Row \cup {NoRow}]
    BY <1>6, OlderType DEF TypeOK, Tick
  <2>2. worker' \in [Workers -> WorkerState]
    BY <1>6, OlderType DEF TypeOK, Tick, WorkerState
  <2>3. QED
    BY <1>6, <2>1, <2>2, AlertedType DEF TypeOK, Tick
<1>7. CASE UNCHANGED vars
  BY <1>7 DEF TypeOK, vars
<1>8. QED
  BY <1>1, <1>2, <1>3, <1>4, <1>5, <1>6, <1>7 DEF Next, Admin

\* Every reachable state of the attempt table, of the requests and of the
\* configuration is well formed, whatever the policies and the faults.
THEOREM TypeCorrect == Spec => []TypeOK
  BY TypeInit, TypeNext, PTL DEF Spec

-----------------------------------------------------------------------------
(* The overshoot.  The bound is inductive once it is known that what a      *)
(* request is about to write belongs to its own login, and that a refused   *)
(* one writes no failure.                                                   *)

PendingOwned ==
  \A w \in Workers :
    worker[w].row # NoRow =>
      /\ worker[w].row.login = LoginOf(w)
      /\ worker[w].pc = "refusing" => worker[w].row.result = "blocked"

Counted(l) == Streak(row, l, ShortestWindow)

Bound(l) ==
  Cardinality(Counted(l)) + Cardinality(InFlight(l))
    <= Threshold - 1 + Cardinality(Workers) + unchecked

IInv == TypeOK /\ PendingOwned /\ OvershootBounded

LEMMA OlderKeeps ==
  ASSUME NEW r \in Row \cup {NoRow}
  PROVE  /\ r = NoRow <=> Older(r) = NoRow
         /\ Older(r).login = r.login /\ Older(r).result = r.result
         /\ Older(r).released = r.released
         /\ Older(r).age \in 0..MaxAge /\ r.age \in 0..MaxAge
         /\ r # NoRow => Older(r).age = IF r.age = MaxAge THEN MaxAge ELSE r.age + 1
<1>1. CASE r = NoRow
  BY <1>1, SetsAssumption DEF Older, NoRow
<1>2. CASE r # NoRow
  <2>1. r \in Row /\ r.login # NoLogin /\ r.age \in 0..MaxAge
    BY <1>2, SetsAssumption DEF Row
  <2>2. CASE r.age = MaxAge
    BY <1>2, <2>1, <2>2 DEF Older
  <2>3. CASE r.age # MaxAge
    <3>1. Older(r) = [r EXCEPT !.age = r.age + 1]
      BY <1>2, <2>3 DEF Older
    <3>2. /\ Older(r).login = r.login /\ Older(r).result = r.result
          /\ Older(r).released = r.released /\ Older(r).age = r.age + 1
      BY <2>1, <3>1 DEF Row
    <3>3. Older(r) # NoRow
      BY <2>1, <3>2 DEF NoRow
    <3>4. r.age + 1 \in 0..MaxAge
      BY <2>1, <2>3, SetsAssumption
    <3>5. QED
      BY <1>2, <2>1, <2>3, <3>2, <3>3, <3>4
  <2>4. QED
    BY <2>2, <2>3
<1>3. QED
  BY <1>1, <1>2

LEMMA PendingInit == Init => PendingOwned
  BY DEF Init, PendingOwned, Idle

LEMMA PendingNext == TypeOK /\ PendingOwned /\ [Next]_vars => PendingOwned'
<1> SUFFICES ASSUME TypeOK, PendingOwned, [Next]_vars PROVE PendingOwned'
  OBVIOUS
<1> USE DEF PendingOwned, LoginOf
<1>1. ASSUME NEW w \in Workers, Request(w) PROVE PendingOwned'
  <2>a. worker[w] \in WorkerState /\ LoginOf(w) \in Logins \cup {NoLogin}
    BY DEF TypeOK, WorkerState
  <2>b. ASSUME NEW state, worker' = [worker EXCEPT ![w] = state],
               state.row # NoRow =>
                 /\ state.row.login = state.login
                 /\ state.pc = "refusing" => state.row.result = "blocked"
        PROVE  PendingOwned'
    BY <2>b DEF TypeOK
  <2>1. CASE \E typed \in Spellings : Pass(w, typed) \/ GuardFails(w, typed)
    <3>1. PICK typed \in Spellings : CheckPassword(w, typed)
      BY <2>1 DEF Pass, GuardFails
    <3>2. QED
      BY <3>1, <2>b DEF CheckPassword, Become, Idle
  <2>2. CASE \E typed \in Spellings : Refuse(w, typed)
    <3>1. PICK typed \in Spellings : Refuse(w, typed)
      BY <2>2
    <3> DEFINE r == Recorded(row, Config(param), Norm[typed], "blocked")
    <3>2. Norm[typed] \in Logins \cup {NoLogin}
      BY SetsAssumption
    <3>3. r # NoRow => r.login = Norm[typed] /\ r.result = "blocked"
      BY <3>2, RecordedType DEF Attempt
    <3>4. worker' = [worker EXCEPT ![w] =
                       [Idle EXCEPT !.pc = "refusing", !.login = Norm[typed],
                                    !.row = r]]
      BY <3>1 DEF Refuse, Become
    <3> HIDE DEF r
    <3>5. QED
      BY <3>3, <3>4, <2>b DEF Idle
  <2>3. CASE Become(w, Idle)
    BY <2>3, <2>b DEF Become, Idle
  <2>4. CASE WrongPassword(w)
    <3> DEFINE r == Recorded(row, Config(param), LoginOf(w), "failed")
               al == Alerts(Insert(row, r), Config(param), LoginOf(w))
    <3>1. r # NoRow => r.login = LoginOf(w)
      BY <2>a, RecordedType DEF Attempt
    <3>2. worker' = [worker EXCEPT ![w] =
                       [Step(w, "writing") EXCEPT !.row = r, !.alert = al]]
      BY <2>4 DEF WrongPassword, Become
    <3> HIDE DEF r, al
    <3>3. QED
      BY <2>a, <3>1, <3>2, <2>b DEF Step, WorkerState
  <2>5. CASE RightPassword(w)
    <3> DEFINE r == Recorded(row, Config(param), LoginOf(w), "success")
    <3>1. r # NoRow => r.login = LoginOf(w)
      BY <2>a, RecordedType DEF Attempt
    <3>2. worker' = [worker EXCEPT ![w] = [Step(w, "writing") EXCEPT !.row = r]]
      BY <2>5 DEF RightPassword, Become
    <3> HIDE DEF r
    <3>3. QED
      BY <2>a, <3>1, <3>2, <2>b DEF Step, WorkerState
  <2>6. QED
    BY <1>1, <2>1, <2>2, <2>3, <2>4, <2>5
    DEF Request, RefuseCommit, RefuseRollback, LoginError, RecordCommit, RecordFails
<1>2. CASE Tick
  <2>1. \A w \in Workers :
          /\ worker'[w] = [worker[w] EXCEPT !.row = Older(worker[w].row)]
          /\ worker[w] \in WorkerState
    BY <1>2 DEF Tick, TypeOK
  <2>2. \A w \in Workers : worker[w].row \in Row \cup {NoRow}
    BY <2>1 DEF WorkerState
  <2>3. \A w \in Workers : /\ worker'[w].login = worker[w].login
                           /\ worker'[w].pc = worker[w].pc
                           /\ worker'[w].row = Older(worker[w].row)
    BY <2>1 DEF WorkerState
  <2>4. QED
    BY <2>2, <2>3, OlderKeeps
<1>3. CASE worker' = worker
  BY <1>3
<1>4. QED
  BY <1>1, <1>2, <1>3
  DEF Next, Admin, Release, SaveSettings, EditParameters, Purge, vars

-----------------------------------------------------------------------------
(* What the steps do to the counted failures of a login *)

\* Every set of this argument is finite.
LEMMA Finite ==
  ASSUME NEW l \in Logins
  PROVE  /\ IsFiniteSet(Counted(l)) /\ IsFiniteSet(InFlight(l))
         /\ IsFiniteSet(Counted(l)') /\ IsFiniteSet(InFlight(l)')
         /\ Cardinality(InFlight(l)') <= Cardinality(Workers)
<1>1. Counted(l) \subseteq Slots /\ Counted(l)' \subseteq Slots
  BY DEF Counted, Streak
<1>2. InFlight(l) \subseteq Workers /\ InFlight(l)' \subseteq Workers
  BY DEF InFlight
<1>3. QED
  BY <1>1, <1>2, SetsAssumption, FS_Subset

\* Inserting a row adds at most its own slot, and only a failure of the login.
LEMMA InsertCounts ==
  ASSUME NEW l \in Logins, NEW r \in Row \cup {NoRow}, TypeOK,
         HasRoom(r), row' = Insert(row, r)
  PROVE  /\ \E i : Counted(l)' \subseteq Counted(l) \cup {i}
         /\ ~(r.login = l /\ r.result = "failed") =>
              Counted(l)' \subseteq Counted(l)
<1>1. CASE r = NoRow
  <2>1. Counted(l)' = Counted(l)
    BY <1>1 DEF Insert, Counted, Streak
  <2>2. QED
    BY <2>1
<1>2. CASE r # NoRow
  <2> DEFINE i == CHOOSE i \in Free(row) : TRUE
  <2>1. i \in Slots /\ row[i] = NoRow
    BY <1>2 DEF HasRoom, Free
  <2>2. row' = [row EXCEPT ![i] = r]
    BY <1>2 DEF Insert
  <2> HIDE DEF i
  <2>3. \A k \in Slots \ {i} : row'[k] = row[k]
    BY <2>1, <2>2 DEF TypeOK
  <2>4. row'[i] = r
    BY <2>1, <2>2 DEF TypeOK
  <2>5. row[i].result # "success"
    BY <2>1 DEF NoRow
  <2>6. ASSUME NEW k \in Counted(l)', k # i PROVE k \in Counted(l)
    <3>1. k \in Slots /\ row'[k] = row[k]
      BY <2>3, <2>6 DEF Counted, Streak
    <3>2. Counts(row[k], l, ShortestWindow)
      BY <2>6, <3>1 DEF Counted, Streak, Counts
    <3>3. \A j \in Slots : row'[j].login = l /\ row'[j].result = "success"
                             => row'[k].age < row'[j].age
      BY <2>6 DEF Counted, Streak
    <3>4. \A j \in Slots : row[j].login = l /\ row[j].result = "success"
                             => row[k].age < row[j].age
      BY <3>1, <3>3, <2>3, <2>5
    <3>5. QED
      BY <3>1, <3>2, <3>4 DEF Counted, Streak
  <2>7. i \in Counted(l)' => r.login = l /\ r.result = "failed"
    BY <2>4 DEF Counted, Streak, Counts
  <2>8. QED
    BY <2>1, <2>6, <2>7
<1>3. QED
  BY <1>1, <1>2

\* A release takes failures out of the count and no success away.
LEMMA ReleaseCounts ==
  ASSUME NEW l \in Logins, NEW S \in SUBSET Slots, TypeOK, Release(S)
  PROVE  Counted(l)' \subseteq Counted(l)
<1>1. \A i \in Releasable(S) : i \in Slots /\ row[i] \in Row
                               /\ row[i].result = "failed"
  BY DEF TypeOK, Releasable, NoRow
<1>2. \A i \in Slots : \/ row'[i] = row[i]
                       \/ row'[i].released /\ row[i].result = "failed"
  BY <1>1 DEF Release, Row
<1>3. ASSUME NEW k \in Counted(l)' PROVE k \in Counted(l)
  <2>1. k \in Slots /\ row'[k] = row[k] /\ Counts(row[k], l, ShortestWindow)
    BY <1>2, <1>3 DEF Counted, Streak, Counts
  <2>2. ASSUME NEW j \in Slots, row[j].login = l, row[j].result = "success"
        PROVE  row[k].age < row[j].age
    BY <1>2, <1>3, <2>1, <2>2 DEF Counted, Streak
  <2>3. QED
    BY <2>1, <2>2 DEF Counted, Streak
<1>4. QED
  BY <1>3

\* A purge takes away no success that clears a failure still in the window.
LEMMA PurgeCounts ==
  ASSUME NEW l \in Logins, TypeOK, Purge
  PROVE  Counted(l)' \subseteq Counted(l)
<1>1. PICK S \in PurgeBatch(Config(param)) :
        row' = [i \in Slots |-> IF i \in S THEN NoRow ELSE row[i]]
  BY DEF Purge
<1>2. ASSUME NEW j \in Slots, j \in S PROVE row[j].age >= ShortestWindow
  <2>1. row[j] # NoRow /\ row[j].age > Config(param).retention
    BY <1>2 DEF PurgeBatch, Stale
  <2>2. row[j].age \in Nat
    BY <2>1 DEF TypeOK, Row
  <2>3. Config(param).retention \in Nat
        /\ ShortestWindow <= Config(param).retention + 1
    BY PolicyAssumption DEF TypeOK
  <2>4. QED
    BY <2>1, <2>2, <2>3, SetsAssumption
<1>3. ASSUME NEW k \in Counted(l)' PROVE k \in Counted(l)
  <2>1. k \in Slots /\ k \notin S /\ row'[k] = row[k]
    BY <1>1, <1>3 DEF Counted, Streak, Counts, NoRow
  <2>2. Counts(row[k], l, ShortestWindow)
    BY <1>3, <2>1 DEF Counted, Streak, Counts
  <2>3. ASSUME NEW j \in Slots, row[j].login = l, row[j].result = "success"
        PROVE  row[k].age < row[j].age
    <3>1. CASE j \in S
      <4>1. row[j] \in Row /\ row[k] \in Row
        BY <2>2, <2>3, <2>1 DEF TypeOK, NoRow, Counts
      <4>2. row[j].age \in Nat /\ row[k].age \in Nat
        BY <4>1 DEF Row
      <4>3. QED
        BY <3>1, <1>2, <2>2, <4>2, SetsAssumption DEF Counts
    <3>2. CASE j \notin S
      BY <1>1, <1>3, <2>1, <2>3, <3>2 DEF Counted, Streak
    <3>3. QED
      BY <3>1, <3>2
  <2>4. QED
    BY <2>1, <2>2, <2>3 DEF Counted, Streak
<1>4. QED
  BY <1>3

\* Time takes failures out of the window and never reverses two rows.
LEMMA TickCounts ==
  ASSUME NEW l \in Logins, TypeOK, Tick
  PROVE  Counted(l)' \subseteq Counted(l)
<1>1. \A i \in Slots : row'[i] = Older(row[i]) /\ row[i] \in Row \cup {NoRow}
  BY DEF Tick, TypeOK
<1>2. ASSUME NEW k \in Counted(l)' PROVE k \in Counted(l)
  <2>1. k \in Slots /\ Counts(Older(row[k]), l, ShortestWindow)
    BY <1>1, <1>2 DEF Counted, Streak, Counts
  <2>2. row[k] # NoRow /\ row[k].age <= Older(row[k]).age
        /\ row[k].age \in Nat /\ Older(row[k]).age \in Nat
    BY <1>1, <2>1, OlderKeeps, SetsAssumption DEF Counts, NoRow
  <2>3. Counts(row[k], l, ShortestWindow)
    BY <1>1, <2>1, <2>2, OlderKeeps, SetsAssumption DEF Counts
  <2>4. ASSUME NEW j \in Slots, row[j].login = l, row[j].result = "success"
        PROVE  row[k].age < row[j].age
    <3>1. Older(row[k]).age < Older(row[j]).age
      BY <1>1, <1>2, <2>4, <2>1, OlderKeeps DEF Counted, Streak
    <3>2. row[j] # NoRow
      BY <2>4 DEF NoRow
    <3>3. QED
      BY <3>1, <3>2, <2>1, <2>2, <1>1, OlderKeeps, SetsAssumption
  <2>5. QED
    BY <2>1, <2>3, <2>4 DEF Counted, Streak
<1>3. QED
  BY <1>2

-----------------------------------------------------------------------------
(* What the steps do to the requests past the guard, and the bound *)

\* A step that neither counts a failure nor lets a request past the guard.
LEMMA BoundKept ==
  ASSUME NEW l \in Logins, TypeOK, Bound(l), unchecked' = unchecked,
         Counted(l)' \subseteq Counted(l), InFlight(l)' \subseteq InFlight(l)
  PROVE  Bound(l)'
<1>1. /\ Cardinality(Counted(l)') <= Cardinality(Counted(l))
      /\ Cardinality(InFlight(l)') <= Cardinality(InFlight(l))
  BY Finite, FS_Subset
<1>2. /\ Cardinality(Counted(l)) \in Nat /\ Cardinality(Counted(l)') \in Nat
      /\ Cardinality(InFlight(l)) \in Nat /\ Cardinality(InFlight(l)') \in Nat
      /\ Cardinality(Workers) \in Nat
  BY Finite, SetsAssumption, FS_CardinalityType
<1> HIDE DEF Counted, InFlight
<1>3. QED
  BY <1>1, <1>2, SetsAssumption DEF Bound, TypeOK

LEMMA OneMore ==
  ASSUME NEW S, NEW T, NEW x, IsFiniteSet(S), T \subseteq S \cup {x}
  PROVE  Cardinality(T) <= Cardinality(S) + 1
<1>1. /\ IsFiniteSet(S \cup {x}) /\ Cardinality(S) \in Nat
      /\ Cardinality(S \cup {x}) \in {Cardinality(S), Cardinality(S) + 1}
  BY FS_AddElement, FS_CardinalityType
<1>2. Cardinality(T) <= Cardinality(S \cup {x}) /\ IsFiniteSet(T)
  BY <1>1, FS_Subset
<1>3. QED
  BY <1>1, <1>2, FS_CardinalityType

LEMMA OneLess ==
  ASSUME NEW S, NEW T, NEW x \in S, IsFiniteSet(S), T \subseteq S \ {x}
  PROVE  Cardinality(T) + 1 <= Cardinality(S)
<1>1. /\ IsFiniteSet(S \ {x})
      /\ Cardinality(S \ {x}) = Cardinality(S) - 1
  BY FS_RemoveElement
<1>2. Cardinality(T) <= Cardinality(S \ {x}) /\ IsFiniteSet(T)
  BY <1>1, FS_Subset
<1>3. QED
  BY <1>1, <1>2, FS_CardinalityType

\* A request is let past the guard, with the guard's consent or without it.
LEMMA BoundPast ==
  ASSUME TypeOK, NEW l \in Logins, Bound(l), NEW w \in Workers,
         NEW typed \in Spellings, Pass(w, typed) \/ GuardFails(w, typed)
  PROVE  Bound(l)'
<1>1. /\ worker' = [worker EXCEPT ![w] =
                      [Idle EXCEPT !.pc = "password", !.login = Norm[typed],
                                   !.known = (typed \in Accounts)]]
      /\ worker[w].pc = "idle" /\ row' = row /\ param' = param
      /\ unchecked' \in {unchecked, unchecked + 1}
  BY DEF Pass, GuardFails, CheckPassword, Become, Unchecked, Arrives
<1>2. \A v \in Workers \ {w} : worker'[v] = worker[v]
  BY <1>1 DEF TypeOK
<1>3. worker'[w].login = Norm[typed]
  BY <1>1 DEF TypeOK, Idle
<1>4. InFlight(l)' \subseteq InFlight(l) \cup {w}
  BY <1>2 DEF InFlight, LoginOf
<1>5. Counted(l)' = Counted(l)
  BY <1>1 DEF Counted, Streak
<1>6. /\ Cardinality(Counted(l)) \in Nat
      /\ Cardinality(InFlight(l)) \in Nat /\ Cardinality(InFlight(l)') \in Nat
      /\ Cardinality(Workers) \in Nat
  BY Finite, SetsAssumption, FS_CardinalityType
<1>7. CASE Norm[typed] # l
  <2>1. InFlight(l)' \subseteq InFlight(l)
    BY <1>2, <1>3, <1>7 DEF InFlight, LoginOf
  <2>2. Cardinality(InFlight(l)') <= Cardinality(InFlight(l))
    BY <2>1, Finite, FS_Subset
  <2> HIDE DEF Counted, InFlight
  <2>3. QED
    BY <1>1, <1>5, <1>6, <2>2, SetsAssumption DEF Bound, TypeOK
<1>8. CASE unchecked' = unchecked + 1
  <2>1. Cardinality(InFlight(l)') <= Cardinality(InFlight(l)) + 1
    BY <1>4, Finite, OneMore
  <2> HIDE DEF Counted, InFlight
  <2>2. QED
    BY <1>5, <1>6, <1>8, <2>1, SetsAssumption DEF Bound, TypeOK
<1>9. CASE Norm[typed] = l /\ unchecked' # unchecked + 1
  <2> DEFINE cfg == Config(param)
  <2>1. unchecked' = unchecked
    BY <1>1, <1>9
  <2>2. Pass(w, typed)
    BY <1>9 DEF GuardFails, Unchecked
  <2>3. cfg.enabled /\ ~Locked(row, cfg, l)
    BY <1>9, <2>2, SetsAssumption DEF Pass, Unchecked, LockedNow
  <2>4. ~(Cardinality(Streak(row, l, cfg.window)) >= cfg.max)
    BY <2>3, SetsAssumption DEF Locked
  <2>5. cfg.max \in 1..Threshold /\ cfg.window \in ShortestWindow..MaxAge
    BY PolicyAssumption DEF TypeOK
  <2> HIDE DEF cfg
  <2>6. Counted(l) \subseteq Streak(row, l, cfg.window)
    <3>1. ASSUME NEW k \in Counted(l) PROVE k \in Streak(row, l, cfg.window)
      <4>1. k \in Slots /\ Counts(row[k], l, ShortestWindow)
        BY <3>1 DEF Counted, Streak
      <4>2. row[k].age \in Nat
        BY <4>1 DEF TypeOK, Counts, NoRow, Row
      <4>3. Counts(row[k], l, cfg.window)
        BY <4>1, <4>2, <2>5, SetsAssumption DEF Counts
      <4>4. QED
        BY <3>1, <4>1, <4>3 DEF Counted, Streak
    <3>2. QED
      BY <3>1
  <2>7. IsFiniteSet(Streak(row, l, cfg.window))
    BY SetsAssumption, FS_Subset DEF Streak
  <2>8. Cardinality(Counted(l)) <= Cardinality(Streak(row, l, cfg.window))
    BY <2>6, <2>7, FS_Subset
  <2>9. Cardinality(Streak(row, l, cfg.window)) \in Nat
    BY <2>7, FS_CardinalityType
  <2>10. Cardinality(InFlight(l)') <= Cardinality(Workers)
    BY Finite
  <2> HIDE DEF Counted, InFlight
  <2>11. Cardinality(Counted(l)) <= Threshold - 1
    BY <2>4, <2>5, <2>8, <2>9, <1>6, SetsAssumption
  <2>12. QED
    BY <2>1, <2>10, <2>11, <1>5, <1>6, SetsAssumption DEF Bound, TypeOK
<1>10. QED
  BY <1>1, <1>7, <1>8, <1>9

\* A recorded failure is counted, and its request is in flight no longer.
LEMMA BoundRecord ==
  ASSUME TypeOK, PendingOwned, NEW l \in Logins, Bound(l), NEW w \in Workers,
         RecordCommit(w)
  PROVE  Bound(l)'
<1> DEFINE r == worker[w].row
<1>1. /\ HasRoom(r) /\ row' = Insert(row, r) /\ worker[w].pc = "writing"
      /\ worker' = [worker EXCEPT ![w] = Idle] /\ unchecked' = unchecked
  BY DEF RecordCommit, Become
<1>2. r \in Row \cup {NoRow}
  BY DEF TypeOK, WorkerState
<1>3. InFlight(l)' \subseteq InFlight(l) \ {w}
  BY <1>1 DEF TypeOK, InFlight, LoginOf, Idle
<1>4. CASE LoginOf(w) = l
  <2>1. w \in InFlight(l)
    BY <1>1, <1>4 DEF InFlight
  <2>2. Cardinality(InFlight(l)') + 1 <= Cardinality(InFlight(l))
    BY <1>3, <2>1, Finite, OneLess
  <2>3. Cardinality(Counted(l)') <= Cardinality(Counted(l)) + 1
    BY <1>1, <1>2, InsertCounts, Finite, OneMore
  <2>4. /\ Cardinality(Counted(l)) \in Nat /\ Cardinality(Counted(l)') \in Nat
        /\ Cardinality(InFlight(l)) \in Nat /\ Cardinality(InFlight(l)') \in Nat
        /\ Cardinality(Workers) \in Nat
    BY Finite, SetsAssumption, FS_CardinalityType
  <2> HIDE DEF Counted, InFlight
  <2>5. QED
    BY <1>1, <2>2, <2>3, <2>4, SetsAssumption DEF Bound, TypeOK
<1>5. CASE LoginOf(w) # l
  <2>1. r.login # l
    BY <1>5, SetsAssumption DEF PendingOwned, NoRow
  <2>2. Counted(l)' \subseteq Counted(l)
    BY <1>1, <1>2, <2>1, InsertCounts
  <2>3. QED
    BY <1>1, <1>3, <2>2, BoundKept
<1>6. QED
  BY <1>4, <1>5

\* The other steps of a request.
LEMMA BoundRequest ==
  ASSUME TypeOK, PendingOwned, NEW l \in Logins, Bound(l), NEW w \in Workers,
         Request(w)
  PROVE  Bound(l)'
<1>1. CASE \E typed \in Spellings : Pass(w, typed) \/ GuardFails(w, typed)
  BY <1>1, BoundPast
<1>2. CASE RecordCommit(w)
  BY <1>2, BoundRecord
<1>3. CASE \E typed \in Spellings : Refuse(w, typed)
  <2>1. PICK typed \in Spellings : Refuse(w, typed)
    BY <1>3
  <2>2. InFlight(l)' \subseteq InFlight(l)
    BY <2>1 DEF TypeOK, Refuse, Become, InFlight, LoginOf, Idle
  <2>3. Counted(l)' = Counted(l)
    BY <2>1 DEF Refuse, Counted, Streak
  <2>4. QED
    BY <2>1, <2>2, <2>3, BoundKept DEF Refuse
<1>4. CASE RefuseCommit(w)
  <2>1. worker[w].row \in Row \cup {NoRow}
    BY DEF TypeOK, WorkerState
  <2>2. worker[w].row.result # "failed"
    BY <1>4 DEF RefuseCommit, PendingOwned, NoRow
  <2>3. Counted(l)' \subseteq Counted(l)
    BY <1>4, <2>1, <2>2, InsertCounts DEF RefuseCommit
  <2>4. InFlight(l)' \subseteq InFlight(l)
    BY <1>4 DEF TypeOK, RefuseCommit, Become, InFlight, LoginOf, Idle
  <2>5. QED
    BY <1>4, <2>3, <2>4, BoundKept DEF RefuseCommit
<1>5. CASE RefuseRollback(w) \/ LoginError(w) \/ RecordFails(w)
  <2>1. Become(w, Idle) /\ UNCHANGED <<row, unchecked>>
    BY <1>5 DEF RefuseRollback, LoginError, RecordFails
  <2>2. InFlight(l)' \subseteq InFlight(l)
    BY <2>1 DEF TypeOK, Become, InFlight, LoginOf, Idle
  <2>3. Counted(l)' = Counted(l)
    BY <2>1 DEF Counted, Streak
  <2>4. QED
    BY <2>1, <2>2, <2>3, BoundKept
<1>6. CASE WrongPassword(w) \/ RightPassword(w)
  <2>1. /\ worker[w].pc = "password" /\ UNCHANGED <<row, unchecked>>
        /\ \E r, a : worker' = [worker EXCEPT ![w] =
             [Step(w, "writing") EXCEPT !.row = r, !.alert = a]]
    <3>1. CASE WrongPassword(w)
      BY <3>1 DEF WrongPassword, Become
    <3>2. CASE RightPassword(w)
      <4>1. [Step(w, "writing") EXCEPT
               !.row = Recorded(row, Config(param), LoginOf(w), "success")]
            = [Step(w, "writing") EXCEPT
                 !.row = Recorded(row, Config(param), LoginOf(w), "success"),
                 !.alert = worker[w].alert]
        BY DEF Step, TypeOK, WorkerState
      <4>2. QED
        BY <3>2, <4>1 DEF RightPassword, Become
    <3>3. QED
      BY <1>6, <3>1, <3>2
  <2>2. InFlight(l)' \subseteq InFlight(l)
    BY <2>1 DEF TypeOK, WorkerState, InFlight, LoginOf, Step
  <2>3. Counted(l)' = Counted(l)
    BY <2>1 DEF Counted, Streak
  <2>4. QED
    BY <2>1, <2>2, <2>3, BoundKept
<1>7. QED
  BY <1>1, <1>2, <1>3, <1>4, <1>5, <1>6 DEF Request

LEMMA BoundNext ==
  ASSUME TypeOK, PendingOwned, NEW l \in Logins, Bound(l), [Next]_vars
  PROVE  Bound(l)'
<1>1. ASSUME NEW w \in Workers, Request(w) PROVE Bound(l)'
  BY <1>1, BoundRequest
<1>2. ASSUME NEW S \in SUBSET Slots, Release(S) PROVE Bound(l)'
  <2>1. InFlight(l)' = InFlight(l) /\ unchecked' = unchecked
    BY <1>2 DEF Release, InFlight, LoginOf
  <2>2. QED
    BY <1>2, <2>1, ReleaseCounts, BoundKept
<1>3. CASE UNCHANGED <<row, worker, unchecked>>
  <2>1. InFlight(l)' = InFlight(l) /\ Counted(l)' = Counted(l)
    BY <1>3 DEF InFlight, LoginOf, Counted, Streak
  <2>2. QED
    BY <1>3, <2>1, BoundKept
<1>4. CASE Purge
  <2>1. InFlight(l)' = InFlight(l) /\ unchecked' = unchecked
    BY <1>4 DEF Purge, InFlight, LoginOf
  <2>2. QED
    BY <1>4, <2>1, PurgeCounts, BoundKept
<1>5. CASE Tick
  <2>1. \A w \in Workers : /\ worker'[w].login = worker[w].login
                           /\ worker'[w].pc = worker[w].pc
    BY <1>5 DEF Tick, TypeOK, WorkerState
  <2>2. InFlight(l)' = InFlight(l) /\ unchecked' = unchecked
    BY <1>5, <2>1 DEF Tick, InFlight, LoginOf
  <2>3. QED
    BY <1>5, <2>2, TickCounts, BoundKept
<1>6. QED
  BY <1>1, <1>2, <1>3, <1>4, <1>5
  DEF Next, Admin, SaveSettings, EditParameters, vars

LEMMA BoundInit ==
  ASSUME Init, NEW l \in Logins
  PROVE  Bound(l)
<1>1. Counted(l) = {} /\ InFlight(l) = {}
  BY DEF Init, Counted, Streak, Counts, NoRow, InFlight, Idle
<1>2. Cardinality(Counted(l)) = 0 /\ Cardinality(InFlight(l)) = 0
      /\ Cardinality(Workers) \in Nat
  BY <1>1, FS_EmptySet, SetsAssumption, FS_CardinalityType
<1> HIDE DEF Counted, InFlight
<1>3. QED
  BY <1>2, SetsAssumption DEF Bound, Init

\* Whatever the number of workers and the interleaving of their requests, of
\* the releases, of changes of policy and of the purge: concurrent requests
\* overshoot the allowance by at most one guess per worker, plus the attempts
\* that met no working guard.
THEOREM OvershootIsBounded == Spec => []OvershootBounded
<1>1. OvershootBounded <=> \A l \in Logins : Bound(l)
  BY DEF OvershootBounded, Bound, Counted
<1>2. Init => IInv
  BY <1>1, TypeInit, PendingInit, BoundInit DEF IInv
<1>3. IInv /\ [Next]_vars => IInv'
  <2> SUFFICES ASSUME IInv, [Next]_vars PROVE IInv'
    OBVIOUS
  <2>1. TypeOK' /\ PendingOwned'
    BY TypeNext, PendingNext DEF IInv
  <2>2. \A l \in Logins : Bound(l)'
    BY <1>1, BoundNext DEF IInv
  <2>3. OvershootBounded'
    BY <2>2 DEF OvershootBounded, Bound, Counted
  <2>4. QED
    BY <2>1, <2>3 DEF IInv
<1>4. IInv => OvershootBounded
  BY DEF IInv
<1>5. QED
  BY <1>2, <1>3, <1>4, PTL DEF Spec

-----------------------------------------------------------------------------
(* The alerts of one lockout: nobody passes the guard while it runs, and    *)
(* each request that passed before it sends at most one.                    *)

AlertBound(l) ==
  alerts[l] + Cardinality(InFlight(l)) <= Cardinality(Workers) + unchecked

\* How a step moves the two sides of the bound.
LEMMA AlertBoundMoves ==
  ASSUME NEW l \in Logins, TypeOK, AlertBound(l), NEW logins, Alerted(logins),
         unchecked' \in Nat, unchecked' >= unchecked,
         \/ ~LockedNow(l)'
         \/ InFlight(l)' \subseteq InFlight(l) /\ l \notin logins
         \/ \E w \in InFlight(l) : InFlight(l)' \subseteq InFlight(l) \ {w}
         \/ /\ unchecked' = unchecked + 1 /\ l \notin logins
            /\ \E w : InFlight(l)' \subseteq InFlight(l) \cup {w}
  PROVE  AlertBound(l)'
<1>1. /\ Cardinality(InFlight(l)) \in Nat /\ Cardinality(InFlight(l)') \in Nat
      /\ Cardinality(Workers) \in Nat /\ alerts[l] \in Nat /\ unchecked \in Nat
  BY Finite, SetsAssumption, FS_CardinalityType DEF TypeOK
<1>2. CASE ~LockedNow(l)'
  <2>1. alerts'[l] = 0 /\ Cardinality(InFlight(l)') <= Cardinality(Workers)
    BY <1>2, Finite DEF Alerted
  <2> HIDE DEF InFlight
  <2>2. QED
    BY <1>1, <2>1 DEF AlertBound
<1>3. /\ alerts'[l] \in {0, alerts[l], alerts[l] + 1}
      /\ l \notin logins => alerts'[l] \in {0, alerts[l]}
  BY DEF Alerted
<1>4. CASE InFlight(l)' \subseteq InFlight(l) /\ l \notin logins
  <2>1. Cardinality(InFlight(l)') <= Cardinality(InFlight(l))
    BY <1>4, Finite, FS_Subset
  <2> HIDE DEF InFlight
  <2>2. QED
    BY <1>1, <1>3, <1>4, <2>1 DEF AlertBound
<1>5. CASE \E w \in InFlight(l) : InFlight(l)' \subseteq InFlight(l) \ {w}
  <2>1. Cardinality(InFlight(l)') + 1 <= Cardinality(InFlight(l))
    BY <1>5, Finite, OneLess
  <2> HIDE DEF InFlight
  <2>2. QED
    BY <1>1, <1>3, <2>1 DEF AlertBound
<1>6. CASE /\ unchecked' = unchecked + 1 /\ l \notin logins
           /\ \E w : InFlight(l)' \subseteq InFlight(l) \cup {w}
  <2>1. Cardinality(InFlight(l)') <= Cardinality(InFlight(l)) + 1
    BY <1>6, Finite, OneMore
  <2> HIDE DEF InFlight
  <2>2. QED
    BY <1>1, <1>3, <1>6, <2>1 DEF AlertBound
<1>7. QED
  BY <1>2, <1>4, <1>5, <1>6

LEMMA AlertBoundRequest ==
  ASSUME TypeOK, NEW l \in Logins, AlertBound(l), NEW w \in Workers, Request(w)
  PROVE  AlertBound(l)'
<1>0. unchecked \in Nat
  BY DEF TypeOK
<1>1. ASSUME NEW typed \in Spellings, Pass(w, typed) \/ GuardFails(w, typed)
      PROVE  AlertBound(l)'
  <2>1. /\ worker' = [worker EXCEPT ![w] =
                        [Idle EXCEPT !.pc = "password", !.login = Norm[typed],
                                     !.known = (typed \in Accounts)]]
        /\ Alerted({}) /\ row' = row /\ param' = param
        /\ unchecked' \in {unchecked, unchecked + 1}
    BY <1>1 DEF Pass, GuardFails, CheckPassword, Become, Unchecked
  <2>2. InFlight(l)' \subseteq InFlight(l) \cup {w}
    BY <2>1 DEF TypeOK, InFlight, LoginOf
  <2>3. CASE Norm[typed] # l
    <3>1. InFlight(l)' \subseteq InFlight(l)
      BY <2>1, <2>3 DEF TypeOK, InFlight, LoginOf, Idle
    <3>2. QED
      BY <1>0, <2>1, <3>1, AlertBoundMoves
  <2>4. CASE unchecked' = unchecked + 1
    BY <1>0, <2>1, <2>2, <2>4, AlertBoundMoves
  <2>5. CASE Norm[typed] = l /\ unchecked' # unchecked + 1
    <3>1. ~LockedNow(l)
      BY <1>1, <2>5 DEF Pass, GuardFails, Unchecked
    <3>2. ~LockedNow(l)'
      BY <2>1, <3>1 DEF LockedNow, Locked, Streak
    <3>3. QED
      BY <1>0, <2>1, <2>5, <3>2, AlertBoundMoves
  <2>6. QED
    BY <2>1, <2>3, <2>4, <2>5
<1>2. CASE RecordCommit(w)
  <2>1. InFlight(l)' \subseteq InFlight(l) \ {w}
    BY <1>2 DEF RecordCommit, Become, TypeOK, InFlight, LoginOf, Idle
  <2>2. CASE LoginOf(w) = l
    <3>1. w \in InFlight(l)
      BY <1>2, <2>2 DEF RecordCommit, InFlight
    <3>2. QED
      BY <1>0, <1>2, <2>1, <3>1, AlertBoundMoves DEF RecordCommit
  <2>3. CASE LoginOf(w) # l
    <3>1. l \notin (IF worker[w].alert THEN {LoginOf(w)} ELSE {})
      BY <2>3
    <3>2. QED
      BY <1>0, <1>2, <2>1, <3>1, AlertBoundMoves DEF RecordCommit
  <2>4. QED
    BY <2>2, <2>3
<1>3. ASSUME Alerted({}), unchecked' = unchecked,
             InFlight(l)' \subseteq InFlight(l)
      PROVE  AlertBound(l)'
  BY <1>0, <1>3, AlertBoundMoves
<1>4. ASSUME NEW typed \in Spellings, Refuse(w, typed) PROVE AlertBound(l)'
  <2>1. InFlight(l)' \subseteq InFlight(l)
    BY <1>4 DEF Refuse, Become, TypeOK, InFlight, LoginOf, Idle
  <2>2. QED
    BY <1>3, <1>4, <2>1 DEF Refuse
<1>5. CASE \/ RefuseCommit(w) \/ RefuseRollback(w)
           \/ LoginError(w) \/ RecordFails(w)
  <2>1. Become(w, Idle) /\ Alerted({}) /\ unchecked' = unchecked
    BY <1>5 DEF RefuseCommit, RefuseRollback, LoginError, RecordFails
  <2>2. InFlight(l)' \subseteq InFlight(l)
    BY <2>1 DEF Become, TypeOK, InFlight, LoginOf, Idle
  <2>3. QED
    BY <1>3, <2>1, <2>2
<1>6. CASE WrongPassword(w) \/ RightPassword(w)
  <2>1. /\ worker[w].pc = "password" /\ Alerted({}) /\ unchecked' = unchecked
        /\ \A v \in Workers \ {w} : worker'[v] = worker[v]
        /\ worker'[w].login = worker[w].login
    BY <1>6 DEF WrongPassword, RightPassword, Become, Step, TypeOK, WorkerState
  <2>2. InFlight(l)' \subseteq InFlight(l)
    BY <2>1 DEF InFlight, LoginOf
  <2>3. QED
    BY <1>3, <2>1, <2>2
<1>7. QED
  BY <1>1, <1>2, <1>4, <1>5, <1>6 DEF Request

LEMMA AlertBoundNext ==
  ASSUME TypeOK, NEW l \in Logins, AlertBound(l), [Next]_vars
  PROVE  AlertBound(l)'
<1>1. ASSUME NEW w \in Workers, Request(w) PROVE AlertBound(l)'
  BY <1>1, AlertBoundRequest
<1>2. CASE UNCHANGED vars
  BY <1>2 DEF vars, AlertBound, InFlight, LoginOf
<1>3. CASE Admin \/ Purge \/ Tick
  <2>1. /\ Alerted({}) /\ unchecked' = unchecked
        /\ \A w \in Workers : /\ worker'[w].pc = worker[w].pc
                              /\ worker'[w].login = worker[w].login
    BY <1>3 DEF Admin, Release, SaveSettings, EditParameters, Purge, Tick,
                TypeOK, WorkerState
  <2>2. InFlight(l)' \subseteq InFlight(l) /\ unchecked \in Nat
    BY <2>1 DEF InFlight, LoginOf, TypeOK
  <2>3. QED
    BY <2>1, <2>2, AlertBoundMoves
<1>4. QED
  BY <1>1, <1>2, <1>3 DEF Next

\* Whatever the number of workers: one lockout mails at most one alert per
\* request that was past the guard when it began, so knocking at a locked
\* login never makes mail.
THEOREM AlertsAreBounded == Spec => []AlertsBounded
<1>1. AlertsBounded <=> \A l \in Logins : AlertBound(l)
  BY DEF AlertsBounded, AlertBound
<1>2. Init => AlertsBounded
  <2>1. ASSUME Init, NEW l \in Logins PROVE AlertBound(l)
    <3>1. InFlight(l) = {} /\ alerts[l] = 0 /\ unchecked = 0
      BY <2>1 DEF Init, InFlight, Idle
    <3>2. Cardinality(InFlight(l)) = 0 /\ Cardinality(Workers) \in Nat
      BY <3>1, FS_EmptySet, SetsAssumption, FS_CardinalityType
    <3> HIDE DEF InFlight
    <3>3. QED
      BY <3>1, <3>2 DEF AlertBound
  <2>2. QED
    BY <1>1, <2>1
<1>3. TypeOK /\ AlertsBounded /\ [Next]_vars => AlertsBounded'
  <2> SUFFICES ASSUME TypeOK, AlertsBounded, [Next]_vars PROVE AlertsBounded'
    OBVIOUS
  <2>1. \A l \in Logins : AlertBound(l)'
    BY <1>1, AlertBoundNext
  <2>2. QED
    BY <2>1 DEF AlertsBounded, AlertBound
<1>4. QED
  BY <1>2, <1>3, TypeCorrect, PTL DEF Spec

-----------------------------------------------------------------------------
(* What a refusal and a purge do to a running lockout, under any policy *)

\* A row that is neither a failure nor a success moves no streak.
LEMMA BlockedCountsNothing ==
  ASSUME NEW l \in Logins, NEW window, NEW r \in Row \cup {NoRow}, TypeOK,
         HasRoom(r), row' = Insert(row, r), r # NoRow => r.result = "blocked"
  PROVE  Streak(row, l, window)' = Streak(row, l, window)
<1>1. CASE r = NoRow
  BY <1>1 DEF Insert, Streak
<1>2. CASE r # NoRow
  <2> DEFINE i == CHOOSE i \in Free(row) : TRUE
  <2>1. i \in Slots /\ row[i] = NoRow
    BY <1>2 DEF HasRoom, Free
  <2>2. row' = [row EXCEPT ![i] = r]
    BY <1>2 DEF Insert
  <2> HIDE DEF i
  <2>3. /\ \A k \in Slots \ {i} : row'[k] = row[k]
        /\ row'[i].result = "blocked" /\ row[i].result = "none"
    BY <1>2, <2>1, <2>2 DEF TypeOK, NoRow
  <2>4. \A k \in Slots : Counts(row'[k], l, window) <=> Counts(row[k], l, window)
    BY <2>3 DEF Counts
  <2>5. \A k \in Slots : Counts(row[k], l, window) => row'[k] = row[k]
    BY <2>3 DEF Counts
  <2>6. \A j \in Slots : row'[j].result = "success" \/ row[j].result = "success"
                           => row'[j] = row[j]
    BY <2>3
  <2>7. QED
    BY <2>4, <2>5, <2>6 DEF Streak
<1>3. QED
  BY <1>1, <1>2

LEMMA RefusalStep ==
  ASSUME TypeOK, PendingOwned, [Next]_vars, NEW w \in Workers,
         worker[w].pc = "refusing", worker'[w].pc = "idle"
  PROVE  RefuseCommit(w) \/ row' = row
<1>1. ASSUME NEW v \in Workers, Request(v)
      PROVE  RefuseCommit(w) \/ row' = row
  <2>1. CASE v = w
    BY <1>1, <2>1 DEF Request, Pass, GuardFails, Refuse, Arrives, RefuseRollback,
         WrongPassword, RightPassword, LoginError, RecordCommit, RecordFails
  <2>2. CASE v # w
    <3>1. \E state : worker' = [worker EXCEPT ![v] = state]
      BY <1>1 DEF Request, Pass, GuardFails, CheckPassword, Refuse, RefuseCommit,
           RefuseRollback, WrongPassword, RightPassword, LoginError, RecordCommit,
           RecordFails, Become
    <3>2. worker'[w] = worker[w]
      BY <2>2, <3>1 DEF TypeOK
    <3>3. QED
      BY <3>2
  <2>3. QED
    BY <2>1, <2>2
<1>2. CASE Tick
  BY <1>2 DEF Tick, TypeOK, WorkerState
<1>3. CASE Admin \/ Purge \/ UNCHANGED vars
  BY <1>3 DEF Admin, Release, SaveSettings, EditParameters, Purge, vars
<1>4. QED
  BY <1>1, <1>2, <1>3 DEF Next

\* Whatever the length of the lockout and whatever the other workers do: a
\* refused knock, written down or rolled back, leaves the counted failures of
\* every login as they were.
THEOREM RefusalsDoNotExtend == Spec => RefusalNeverExtends
<1>1. /\ Init => TypeOK /\ PendingOwned
      /\ TypeOK /\ PendingOwned /\ [Next]_vars => (TypeOK /\ PendingOwned)'
  BY TypeInit, PendingInit, TypeNext, PendingNext
<1>2. TypeOK /\ PendingOwned /\ [Next]_vars =>
        [\A w \in Workers :
           worker[w].pc = "refusing" /\ worker'[w].pc = "idle"
             => \A l \in Logins, window \in 1..MaxAge :
                  Streak(row, l, window)' = Streak(row, l, window)]_vars
  <2> SUFFICES ASSUME TypeOK, PendingOwned, [Next]_vars, NEW w \in Workers,
                      worker[w].pc = "refusing", worker'[w].pc = "idle",
                      NEW l \in Logins, NEW window \in 1..MaxAge
               PROVE  Streak(row, l, window)' = Streak(row, l, window)
    OBVIOUS
  <2>1. CASE row' = row
    BY <2>1 DEF Streak
  <2>2. CASE RefuseCommit(w)
    <3>1. worker[w].row \in Row \cup {NoRow}
      BY DEF TypeOK, WorkerState
    <3>2. worker[w].row # NoRow => worker[w].row.result = "blocked"
      BY DEF PendingOwned
    <3>3. QED
      BY <2>2, <3>1, <3>2, BlockedCountsNothing DEF RefuseCommit
  <2>3. QED
    BY <2>1, <2>2, RefusalStep
<1>3. QED
  BY <1>1, <1>2, PTL DEF Spec, RefusalNeverExtends

\* The purge takes the oldest first, so that the success which cleared a
\* failure goes after it, unless both are of one instant.
LEMMA PurgeClearsNothing ==
  ASSUME NEW l \in Logins, NEW window, TypeOK, Purge, ~SameInstant(l)
  PROVE  Streak(row, l, window)' \subseteq Streak(row, l, window)
<1>1. PICK S \in PurgeBatch(Config(param)) :
        row' = [i \in Slots |-> IF i \in S THEN NoRow ELSE row[i]]
  BY DEF Purge
<1> DEFINE kept == Config(param).retention
<1>2. /\ \A j \in S : row[j].age > kept
      /\ \A k \in Slots : row[k] # NoRow /\ row[k].age > kept /\ k \notin S
                            => \A j \in S : row[j].age >= row[k].age
  BY DEF PurgeBatch, Stale
<1>3. kept \in Nat
  BY PolicyAssumption DEF TypeOK
<1> HIDE DEF kept
<1>4. ASSUME NEW k \in Streak(row, l, window)' PROVE k \in Streak(row, l, window)
  <2>1. k \in Slots /\ k \notin S /\ row'[k] = row[k]
    BY <1>1, <1>4 DEF Streak, Counts, NoRow
  <2>2. Counts(row[k], l, window)
    BY <1>4, <2>1 DEF Streak, Counts
  <2>3. ASSUME NEW j \in Slots, row[j].login = l, row[j].result = "success"
        PROVE  row[k].age < row[j].age
    <3>1. CASE j \in S
      <4>1. row[j] \in Row /\ row[k] \in Row /\ row[k] # NoRow
        BY <2>1, <2>2, <2>3 DEF TypeOK, NoRow, Counts
      <4>2. row[j].age \in Nat /\ row[k].age \in Nat
        BY <4>1 DEF Row
      <4>3. row[j].age # row[k].age
        BY <2>1, <2>2, <2>3 DEF SameInstant, Counts
      <4>4. row[j].age >= row[k].age
        BY <1>2, <1>3, <2>1, <3>1, <4>1, <4>2
      <4>5. QED
        BY <4>2, <4>3, <4>4
    <3>2. CASE j \notin S
      BY <1>1, <1>4, <2>1, <2>3, <3>2 DEF Streak
    <3>3. QED
      BY <3>1, <3>2
  <2>4. QED
    BY <2>1, <2>2, <2>3 DEF Streak
<1>5. QED
  BY <1>4

\* Whatever the retention, the ceiling of a run and the length of the lockouts:
\* no purge locks a login whose failures a success had cleared.
THEOREM PurgesDoNotLock == Spec => PurgeNeverLocks
<1>1. TypeOK /\ [Next]_vars =>
        [Purge => \A l \in Logins :
                    LockedNow(l)' => LockedNow(l) \/ SameInstant(l)]_vars
  <2> SUFFICES ASSUME TypeOK, Purge, NEW l \in Logins, LockedNow(l)',
                      ~SameInstant(l)
               PROVE  LockedNow(l)
    OBVIOUS
  <2> DEFINE cfg == Config(param)
             before == Streak(row, l, cfg.window)
             after == Streak(row', l, cfg.window)
  <2>1. param' = param /\ cfg.max \in Nat
    BY PolicyAssumption DEF TypeOK, Purge
  <2>2. after \subseteq before
    BY PurgeClearsNothing DEF Streak
  <2>3. IsFiniteSet(before)
    BY SetsAssumption, FS_Subset DEF Streak
  <2>4. /\ Cardinality(after) <= Cardinality(before)
        /\ Cardinality(after) \in Nat /\ Cardinality(before) \in Nat
    BY <2>2, <2>3, FS_Subset, FS_CardinalityType
  <2>5. cfg.enabled /\ l # NoLogin /\ Cardinality(after) >= cfg.max
    BY <2>1 DEF LockedNow, Locked
  <2> HIDE DEF before, after
  <2>6. Cardinality(before) >= cfg.max
    BY <2>1, <2>4, <2>5
  <2>7. QED
    BY <2>5, <2>6 DEF before, LockedNow, Locked
<1>2. QED
  BY <1>1, TypeCorrect, PTL DEF Spec, PurgeNeverLocks
=============================================================================
