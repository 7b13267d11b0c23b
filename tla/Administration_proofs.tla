----------------------- MODULE Administration_proofs ------------------------
(***************************************************************************)
(* Theorems about AddOns: what its properties say of the components that   *)
(* administer a database (wizards, screens, settings, alerts, histories)   *)
(* holds for every value of their constants, in a composition of any.      *)
(*                                                                         *)
(* Each component has a section: its inductive invariant is stated in its  *)
(* module, its variables are s1, s2, ... in the order they have there.     *)
(***************************************************************************)
EXTENDS AddOns, FiniteSetTheorems, TLAPS

-----------------------------------------------------------------------------
(* Behaviours stay in their component *)

LEMMA PartStays == ASSUME [Next]_vars PROVE part' = part
BY DEF Next, vars

-----------------------------------------------------------------------------
(* Numbers *)

\* A set of numbers has a least one.
LEMMA LeastIsThere ==
  ASSUME NEW S \in SUBSET Nat, S # {}
  PROVE  \E x \in S : \A y \in S : x <= y
<1> DEFINE R == {p \in Nat \X Nat : p[1] < p[2]}
<1>1. IsWellFoundedOn(R, Nat)
  BY NatLessThanWellFounded DEF OpToRel
<1>2. \A x \in S, y \in S : y < x => <<y, x>> \in R
  OBVIOUS
<1> HIDE DEF R
<1>3. PICK x \in S : \A y \in S : ~(<<y, x>> \in R)
  BY <1>1, WFMin
<1>4. \A y \in S : ~(y < x) /\ x \in Nat /\ y \in Nat
  BY <1>2, <1>3
<1> QED
  BY <1>4

-----------------------------------------------------------------------------
(* FailedMailAlert: the checks, started by the scheduler and by hand, go   *)
(* quiet only for a warning they handed to the mail server, and only a day *)
(* after the one before, however many of them overlap.                     *)

\* At the start no warning was handed over, and no check is open.
LEMMA CheckBegins ==
  ASSUME Fma!Proper, Fma!Init
  PROVE  Fma!IInv
<1> DEFINE check == s5  Checks == Mail.Checks
<1>1. \A c \in Checks : check[c].pc = "none"
  BY DEF Fma!Init, Fma!NoCheck
<1>2. Fma!CheckTyped
  BY <1>1 DEF Fma!Proper, Fma!Init, Fma!Never, Fma!CheckTyped
<1> QED
  BY <1>1, <1>2 DEF Fma!IInv, Fma!StampKnown

\* What a check does to its own transaction leaves the others as they are; the warnings
\* that were handed over stay so.
LEMMA CheckOwnStep ==
  ASSUME Fma!IInv, NEW c \in Mail.Checks, NEW new,
         s5' = [s5 EXCEPT ![c] = new], s4' = s4, s6 \subseteq s6', s7' = s7,
         \/ new.pc = "none"
         \/ /\ new.pc = "started" /\ new.last = s4
            /\ new = [pc |-> "started", late |-> new.late, last |-> new.last,
                      anyone |-> new.anyone, warn |-> new.warn]
         \/ /\ new.pc = "warned" /\ new.time \in Int
            /\ new = [pc |-> "warned", late |-> new.late, time |-> new.time]
            /\ new.time \in {warning.time : warning \in s6'}
            /\ ~new.late => new.time >= s4 + Mail.RealertHours
  PROVE  Fma!IInv'
<1> DEFINE stamp == s4  check == s5  handed == s6  Checks == Mail.Checks
<1>1. Fma!CheckTyped /\ Fma!StampKnown
  BY DEF Fma!IInv
<1>2. /\ check'[c] = new /\ \A d \in Checks \ {c} : check'[d] = check[d]
      /\ check' = [d \in Checks |-> check'[d]]
  BY <1>1 DEF Fma!CheckTyped
<1>3. Fma!CheckTyped'
  BY <1>1, <1>2 DEF Fma!CheckTyped
<1>4. ASSUME NEW d \in Checks \ {c}
      PROVE  /\ check'[d].pc = "started" /\ ~check'[d].late => check'[d].last = stamp
             /\ check'[d].pc = "warned" =>
                  /\ check'[d].time \in {warning.time : warning \in handed'}
                  /\ ~check'[d].late => check'[d].time >= stamp + Mail.RealertHours
  BY <1>1, <1>2 DEF Fma!StampKnown
<1>5. Fma!StampKnown'
  BY <1>2, <1>4 DEF Fma!StampKnown
<1> QED
  BY <1>3, <1>5 DEF Fma!IInv

\* A check knows the stamp from its start.
LEMMA CheckStarts ==
  ASSUME Fma!IInv, NEW c \in Mail.Checks, Fma!CheckStart(c)
  PROVE  Fma!IInv'
<1> DEFINE queue == s1  config == s2  reachable == s3  stamp == s4
           warns == config.enabled /\ Fma!Cardinality(Fma!Stuck(queue)) >= Fma!Threshold
           new == [pc |-> "started", late |-> FALSE, last |-> stamp, anyone |-> reachable,
                   warn |-> warns]
<1>1. s5' = [s5 EXCEPT ![c] = new] /\ s4' = s4 /\ s6' = s6 /\ s7' = s7
  BY DEF Fma!CheckStart
<1> HIDE DEF warns
<1>2. /\ new.pc = "started" /\ new.last = s4
      /\ new = [pc |-> "started", late |-> new.late, last |-> new.last,
                anyone |-> new.anyone, warn |-> new.warn]
  OBVIOUS
<1> HIDE DEF new
<1> QED
  BY <1>1, <1>2, CheckOwnStep

\* The warning is handed over, and its time is kept, in one step.
LEMMA CheckWarns ==
  ASSUME Fma!Proper, Fma!IInv, NEW c \in Mail.Checks, Fma!Warn(c)
  PROVE  Fma!IInv'
<1> DEFINE stamp == s4  check == s5  handed == s6  now == s7
<1>1. PICK outcome \in Fma!Outcomes(c) :
        /\ check' = [check EXCEPT ![c] =
             IF Fma!Notified(outcome)
             THEN [pc |-> "warned", late |-> check[c].late, time |-> now] ELSE Fma!NoCheck]
        /\ handed' = IF outcome = "none" THEN handed
                     ELSE handed \cup {[time |-> now, left |-> outcome = "left"]}
  BY DEF Fma!Warn
<1>2. stamp' = stamp /\ handed \subseteq handed' /\ now' = now
  BY <1>1 DEF Fma!Warn
<1>3. CASE outcome = "none"
  <2>1. check' = [check EXCEPT ![c] = Fma!NoCheck]
    BY <1>1, <1>3 DEF Fma!Notified
  <2>2. Fma!NoCheck.pc = "none"
    BY DEF Fma!NoCheck
  <2> QED
    BY <1>2, <2>1, <2>2, CheckOwnStep
<1>4. CASE outcome # "none"
  <2> DEFINE new == [pc |-> "warned", late |-> check[c].late, time |-> now]
             warning == [time |-> now, left |-> outcome = "left"]
  <2>1. check' = [check EXCEPT ![c] = new] /\ warning \in handed'
    BY <1>1, <1>4 DEF Fma!Notified
  <2>2. new.pc = "warned" /\ new.time = now /\ new.late = check[c].late
    OBVIOUS
  <2>3. new = [pc |-> "warned", late |-> new.late, time |-> new.time]
    OBVIOUS
  <2>4. new.time \in {w.time : w \in handed'}
    <3>1. warning.time = now
      OBVIOUS
    <3> QED
      BY <2>1, <2>2, <3>1
  <2>5. ~check[c].late => now >= stamp + Mail.RealertHours
    <3>1. /\ check[c].pc = "started" /\ ~(check[c].last > now - Mail.RealertHours)
          /\ now \in Int /\ stamp \in Int /\ Mail.RealertHours \in Int
      BY DEF Fma!Warn, Fma!Warns, Fma!RateLimited, Fma!IInv, Fma!CheckTyped, Fma!Proper
    <3>2. ~check[c].late => check[c].last = stamp
      BY <3>1 DEF Fma!IInv, Fma!StampKnown
    <3> QED
      BY <3>1, <3>2
  <2>6. now \in Int
    BY DEF Fma!IInv, Fma!CheckTyped
  <2> HIDE DEF new
  <2> QED
    BY <1>2, <2>1, <2>2, <2>3, <2>4, <2>5, <2>6, CheckOwnStep
<1> QED
  BY <1>3, <1>4

\* The commit writes the time the check carries, and the others only learn that
\* they are late.
LEMMA CheckCommits ==
  ASSUME Fma!IInv, NEW c \in Mail.Checks, Fma!CheckCommit(c)
  PROVE  Fma!IInv'
<1> DEFINE stamp == s4  check == s5  handed == s6  now == s7  Checks == Mail.Checks
<1>1. Fma!CheckTyped /\ Fma!StampKnown
  BY DEF Fma!IInv
<1>2. /\ check[c].pc = "warned" /\ stamp' = check[c].time
      /\ handed' = handed /\ now' = now
      /\ check' = [d \in Checks |->
           CASE d = c -> Fma!NoCheck
             [] check[d].pc = "none" -> check[d]
             [] OTHER -> [check[d] EXCEPT !.late = TRUE]]
  BY DEF Fma!CheckCommit
<1>3. now' \in Int /\ stamp' \in Int /\ check' = [d \in Checks |-> check'[d]]
  BY <1>1, <1>2 DEF Fma!CheckTyped
<1>4. ASSUME NEW d \in Checks
      PROVE  \/ check'[d].pc = "none"
             \/ /\ check[d].pc = "started" /\ check'[d].pc = "started" /\ check'[d].late
                /\ check'[d] = [pc |-> "started", late |-> check'[d].late,
                      last |-> check'[d].last, anyone |-> check'[d].anyone,
                      warn |-> check'[d].warn]
             \/ /\ check[d].pc = "warned" /\ check'[d].pc = "warned" /\ check'[d].late
                /\ check'[d].time = check[d].time
                /\ check'[d] = [pc |-> "warned", late |-> check'[d].late,
                                time |-> check'[d].time]
  <2>1. CASE d = c \/ check[d].pc = "none"
    <3>1. check'[d] = Fma!NoCheck \/ (check'[d] = check[d] /\ check[d].pc = "none")
      <4>1. CASE d = c
        BY <1>2, <4>1
      <4>2. CASE d # c /\ check[d].pc = "none"
        BY <1>2, <4>2
      <4> QED
        BY <2>1, <4>1, <4>2
    <3> QED
      BY <3>1 DEF Fma!NoCheck
  <2>2. CASE d # c /\ check[d].pc = "started"
    <3>1. check'[d] = [check[d] EXCEPT !.late = TRUE]
      BY <1>2, <2>2
    <3>2. check[d] = [pc |-> "started", late |-> check[d].late, last |-> check[d].last,
                      anyone |-> check[d].anyone, warn |-> check[d].warn]
      BY <1>1, <2>2 DEF Fma!CheckTyped
    <3> QED
      BY <2>2, <3>1, <3>2
  <2>3. CASE d # c /\ check[d].pc = "warned"
    <3>1. check'[d] = [check[d] EXCEPT !.late = TRUE]
      BY <1>2, <2>3
    <3>2. check[d] = [pc |-> "warned", late |-> check[d].late, time |-> check[d].time]
      BY <1>1, <2>3 DEF Fma!CheckTyped
    <3> QED
      BY <2>3, <3>1, <3>2
  <2> QED
    BY <1>1, <2>1, <2>2, <2>3 DEF Fma!CheckTyped
<1>5. ASSUME NEW d \in Checks, check[d].pc = "warned"
      PROVE  check[d].time \in Int
  BY <1>1, <1>5 DEF Fma!CheckTyped
<1>6. Fma!CheckTyped'
  BY <1>3, <1>4, <1>5 DEF Fma!CheckTyped
<1>7. Fma!StampKnown'
  <2>1. ASSUME NEW d \in Checks, check'[d].pc = "warned"
        PROVE  check'[d].time \in {warning.time : warning \in handed'}
    BY <1>1, <1>2, <1>4, <2>1 DEF Fma!StampKnown
  <2> QED
    BY <1>4, <2>1 DEF Fma!StampKnown
<1> QED
  BY <1>6, <1>7 DEF Fma!IInv

\* The queue, the settings and the clock are read by checks and change none.
LEMMA CheckSurroundings ==
  ASSUME Fma!IInv,
         \/ \E m \in Mail.Mails : Fma!Enqueue(m) \/ Fma!Deliver(m)
         \/ Fma!SetConfig \/ Fma!ChangeAdmins \/ Fma!Tick \/ UNCHANGED Fma!vars
  PROVE  Fma!IInv'
<1> DEFINE stamp == s4  check == s5  handed == s6  now == s7
<1>1. UNCHANGED <<stamp, check, handed>> /\ now' \in {now, now + 1}
  BY DEF Fma!Enqueue, Fma!Deliver, Fma!SetConfig, Fma!ChangeAdmins, Fma!Tick, Fma!vars
<1> QED
  BY <1>1 DEF Fma!IInv, Fma!CheckTyped, Fma!StampKnown

LEMMA MailSteps ==
  ASSUME Fma!Proper, Fma!IInv, [Fma!Next]_(Fma!vars)
  PROVE  Fma!IInv'
<1> DEFINE Mails == Mail.Mails  Checks == Mail.Checks
<1>1. ASSUME NEW c \in Checks, Fma!CheckStart(c) PROVE Fma!IInv'
  BY <1>1, CheckStarts
<1>2. ASSUME NEW c \in Checks, Fma!Warn(c) PROVE Fma!IInv'
  BY <1>2, CheckWarns
<1>3. ASSUME NEW c \in Checks, Fma!CheckCommit(c) PROVE Fma!IInv'
  BY <1>3, CheckCommits
<1>4. ASSUME NEW c \in Checks, Fma!NothingToSay(c) \/ Fma!CheckFails(c) PROVE Fma!IInv'
  <2>1. s5' = [s5 EXCEPT ![c] = Fma!NoCheck] /\ s4' = s4 /\ s6' = s6 /\ s7' = s7
    BY <1>4 DEF Fma!NothingToSay, Fma!CheckFails
  <2>2. Fma!NoCheck.pc = "none"
    BY DEF Fma!NoCheck
  <2> QED
    BY <2>1, <2>2, CheckOwnStep
<1>5. ASSUME \/ \E m \in Mails : Fma!Enqueue(m) \/ Fma!Deliver(m)
             \/ Fma!SetConfig \/ Fma!ChangeAdmins \/ Fma!Tick \/ UNCHANGED Fma!vars
      PROVE  Fma!IInv'
  BY <1>5, CheckSurroundings
<1> QED
  BY <1>1, <1>2, <1>3, <1>4, <1>5 DEF Fma!Next

\* The stamp changes by the commit of a check that nobody overtook.
LEMMA StampOfWarning ==
  ASSUME Fma!IInv, [Fma!Next]_(Fma!vars)
  PROVE  Fma!QuietMeansWarned
<1> DEFINE stamp == s4  check == s5  handed == s6  Checks == Mail.Checks
<1>1. ASSUME stamp' # stamp PROVE \E c \in Checks : Fma!CheckCommit(c)
  BY <1>1 DEF Fma!Next, Fma!vars, Fma!CheckStart, Fma!NothingToSay, Fma!Warn, Fma!CheckFails,
     Fma!Enqueue, Fma!Deliver, Fma!SetConfig, Fma!ChangeAdmins, Fma!Tick
<1>2. ASSUME NEW c \in Checks, Fma!CheckCommit(c)
      PROVE  /\ stamp' \in {warning.time : warning \in handed}
             /\ stamp' >= stamp + Mail.RealertHours
  BY <1>2 DEF Fma!CheckCommit, Fma!IInv, Fma!StampKnown
<1> QED
  BY <1>1, <1>2 DEF Fma!QuietMeansWarned

\* However many checks overlap, fail or are started by hand, the time that silences them
\* for a day is that of a warning that was built and handed to the mail server, a day or
\* more after the one before; whether it left is not asked (_failed_mail_alert_check,
\* _failed_alert_notify_admins).
THEOREM QuietIsWarned == Spec => QuietMeansWarned
<1>1. Init => (part = "mail" => Fma!IInv)
  BY CheckBegins, AddOnsAssumption DEF Init
<1>2. (part = "mail" => Fma!IInv) /\ [Next]_vars => (part = "mail" => Fma!IInv)'
  <2> SUFFICES ASSUME part = "mail" => Fma!IInv, [Next]_vars, part' = "mail"
               PROVE  Fma!IInv'
    OBVIOUS
  <2>1. part = "mail" /\ [Fma!Next]_(Fma!vars)
    BY PartStays DEF Next, vars, Fma!vars
  <2> QED
    BY <2>1, MailSteps, AddOnsAssumption
<1>3. (part = "mail" => Fma!IInv) /\ [Next]_vars => [part = "mail" => Fma!QuietMeansWarned]_vars
  <2>1. ASSUME part = "mail", Fma!IInv, [Next]_vars PROVE Fma!QuietMeansWarned
    <3>1. [Fma!Next]_(Fma!vars)
      BY <2>1 DEF Next, vars, Fma!vars
    <3> QED
      BY <2>1, <3>1, StampOfWarning
  <2> QED
    BY <2>1
<1> QED
  BY <1>1, <1>2, <1>3, PTL DEF Spec, QuietMeansWarned

-----------------------------------------------------------------------------
(* PasswordExpiry: a stamp is the time at which the password was stored.   *)

LEMMA PeriodIsInRange ==
  ASSUME Pwd!Proper, Pwd!StampTells
  PROVE  /\ Pwd!Period \in Passwords.MinDays..Passwords.MaxDays
         /\ s2.days \in Passwords.MinDays..Passwords.MaxDays => Pwd!Period = s2.days
<1> DEFINE policy == s2  NoPeriod == Passwords.NoPeriod  MinDays == Passwords.MinDays
           MaxDays == Passwords.MaxDays  DefaultDays == Passwords.DefaultDays
<1>1. /\ policy.days # NoPeriod => policy.days \in Int
      /\ MinDays \in Nat /\ MaxDays \in Nat /\ DefaultDays \in Nat /\ MinDays <= MaxDays
      /\ NoPeriod \notin MinDays..MaxDays
  BY DEF Pwd!Proper, Pwd!StampTells
<1>2. CASE policy.days = NoPeriod
  BY <1>1, <1>2 DEF Pwd!Period, Pwd!Clamped
<1>3. CASE policy.days # NoPeriod
  BY <1>1, <1>3 DEF Pwd!Period, Pwd!Clamped
<1> QED
  BY <1>2, <1>3

LEMMA WriteStamps ==
  ASSUME Pwd!Proper, Pwd!StampTells, NEW us \in SUBSET Passwords.Users, NEW stored \in BOOLEAN,
         Pwd!Write(us, stored)
  PROVE  Pwd!StampTells'
<1> DEFINE user == s1  policy == s2  changed == s3  now == s5  Users == Passwords.Users
           NoStamp == Passwords.NoStamp
<1>1. /\ user' = [u \in Users |-> IF u \in us /\ stored THEN [user[u] EXCEPT !.stamp = now] ELSE user[u]]
      /\ changed' = [u \in Users |-> IF u \in us /\ stored THEN now ELSE changed[u]]
      /\ now' = now /\ policy' = policy
  BY DEF Pwd!Write, Pwd!Stamped
<1>2. changed' \in [Users -> Nat]
  BY <1>1 DEF Pwd!StampTells
<1>3. ASSUME NEW u \in Users
      PROVE  /\ user'[u] \in [internal : BOOLEAN, exempt : BOOLEAN, stamp : Nat \cup {NoStamp}]
             /\ user'[u].stamp # NoStamp => user'[u].stamp = changed'[u]
  <2>1. CASE u \in us /\ stored
    BY <1>1, <2>1 DEF Pwd!StampTells
  <2>2. CASE ~(u \in us /\ stored)
    BY <1>1, <2>2 DEF Pwd!StampTells
  <2> QED
    BY <2>1, <2>2
<1>4. user' \in [Users -> [internal : BOOLEAN, exempt : BOOLEAN, stamp : Nat \cup {NoStamp}]]
  BY <1>1, <1>3
<1> QED
  BY <1>1, <1>2, <1>3, <1>4 DEF Pwd!StampTells

LEMMA StampsBegin ==
  ASSUME Pwd!Proper, Pwd!Init
  PROVE  Pwd!StampTells
<1> DEFINE user == s1  policy == s2  Users == Passwords.Users  Unstamped == Passwords.Unstamped
           NoStamp == Passwords.NoStamp  NoPeriod == Passwords.NoPeriod
<1>1. policy.days \in Int \cup {NoPeriod}
  BY DEF Pwd!Init, Pwd!Proper
<1>2. \A u \in Users : user[u] = [internal |-> TRUE, exempt |-> FALSE,
                                stamp |-> IF u \in Unstamped THEN NoStamp ELSE 0]
  BY DEF Pwd!Init
<1>3. user \in [Users -> [internal : BOOLEAN, exempt : BOOLEAN, stamp : Nat \cup {NoStamp}]]
  BY DEF Pwd!Init
<1> QED
  BY <1>1, <1>2, <1>3 DEF Pwd!Init, Pwd!StampTells

LEMMA StampsStep ==
  ASSUME Pwd!Proper, Pwd!StampTells, [Pwd!Next]_(Pwd!vars)
  PROVE  Pwd!StampTells'
<1> DEFINE user == s1  policy == s2  changed == s3  now == s5  Users == Passwords.Users
           Periods == Passwords.Periods  NoPeriod == Passwords.NoPeriod
<1>1. ASSUME NEW u \in Users, Pwd!Page(u) PROVE Pwd!StampTells'
  BY <1>1 DEF Pwd!Page, Pwd!StampTells
<1>2. ASSUME NEW u \in Users, NEW agrees \in BOOLEAN, NEW differs \in BOOLEAN,
             NEW right \in BOOLEAN,
             Pwd!ChangeForm(u, agrees, differs, right)
      PROVE  Pwd!StampTells'
  BY <1>2, WriteStamps DEF Pwd!ChangeForm
<1>3. ASSUME NEW u \in Users, NEW right \in BOOLEAN, Pwd!ChangePassword(u, right)
      PROVE  Pwd!StampTells'
  BY <1>3, WriteStamps DEF Pwd!ChangePassword
<1>4. ASSUME NEW us \in (SUBSET Users) \ {{}}, NEW field, NEW filled \in BOOLEAN,
             Pwd!WritePassword(us, field, filled)
      PROVE  Pwd!StampTells'
  BY <1>4, WriteStamps DEF Pwd!WritePassword
<1>5. ASSUME NEW enabled \in BOOLEAN, NEW screen \in BOOLEAN, NEW days \in Periods,
             Pwd!Configure(enabled, days, screen)
      PROVE  Pwd!StampTells'
  <2>1. /\ policy'.days = IF screen /\ days # NoPeriod THEN Pwd!Clamped(days) ELSE days
        /\ now' = now /\ user' = user /\ changed' = changed
    BY <1>5 DEF Pwd!Configure
  <2>2. days \in Int \cup {NoPeriod} /\ (days # NoPeriod => Pwd!Clamped(days) \in Int)
    BY DEF Pwd!Proper, Pwd!Clamped
  <2> QED
    BY <2>1, <2>2 DEF Pwd!StampTells
<1>6. ASSUME NEW u \in Users, NEW internal \in BOOLEAN, NEW exempt \in BOOLEAN,
             Pwd!Edit(u, internal, exempt)
      PROVE  Pwd!StampTells'
  BY <1>6 DEF Pwd!Edit, Pwd!StampTells
<1>7. CASE Pwd!Tick
  BY <1>7 DEF Pwd!Tick, Pwd!StampTells
<1>8. CASE UNCHANGED Pwd!vars
  BY <1>8 DEF Pwd!vars, Pwd!StampTells
<1> QED
  BY <1>1, <1>2, <1>3, <1>4, <1>5, <1>6, <1>7, <1>8 DEF Pwd!Next

\* By whatever way passwords are changed, pages follow the age of the password itself.
LEMMA PagesFollow ==
  ASSUME Pwd!Proper, Pwd!StampTells
  PROVE  Pwd!AgeIsOfPassword
<1> DEFINE user == s1  policy == s2  changed == s3  page == s4  now == s5
           Users == Passwords.Users  NoStamp == Passwords.NoStamp  MinDays == Passwords.MinDays
           MaxDays == Passwords.MaxDays
<1> SUFFICES ASSUME NEW u \in Users, Pwd!Page(u)
             PROVE  IF page'.served
                      THEN policy.enabled /\ Pwd!Held(u) /\ user[u].stamp # NoStamp =>
                             /\ now - changed[u] < MaxDays
                             /\ policy.days \in MinDays..MaxDays => now - changed[u] < policy.days
                      ELSE Pwd!Held(u) /\ now - changed[u] >= MinDays
  BY DEF Pwd!AgeIsOfPassword
<1>1. page'.served = ~Pwd!Expired(u)
  BY DEF Pwd!Page
<1>2. /\ Pwd!Period \in MinDays..MaxDays
      /\ policy.days \in MinDays..MaxDays => Pwd!Period = policy.days
  BY PeriodIsInRange
<1>3. /\ now \in Nat /\ changed[u] \in Nat /\ MinDays \in Nat /\ MaxDays \in Nat
      /\ user[u].stamp # NoStamp => user[u].stamp = changed[u]
  BY DEF Pwd!StampTells, Pwd!Proper
<1>4. CASE Pwd!Expired(u)
  <2>1. Pwd!Held(u) /\ now >= changed[u] + Pwd!Period
    BY <1>3, <1>4 DEF Pwd!Expired, Pwd!Exempt, Pwd!Held
  <2> QED
    <3>1. ~page'.served
      BY <1>1, <1>4
    <3>2. now - changed[u] >= MinDays
      BY <1>2, <1>3, <2>1
    <3> QED
      BY <2>1, <3>1, <3>2
<1>5. CASE ~Pwd!Expired(u)
  <2>1. policy.enabled /\ Pwd!Held(u) /\ user[u].stamp # NoStamp => ~(now >= changed[u] + Pwd!Period)
    BY <1>3, <1>5 DEF Pwd!Expired, Pwd!Exempt, Pwd!Held
  <2> QED
    <3>1. page'.served
      BY <1>1, <1>5
    <3>2. ASSUME policy.enabled, Pwd!Held(u), user[u].stamp # NoStamp
          PROVE  /\ now - changed[u] < MaxDays
                 /\ policy.days \in MinDays..MaxDays => now - changed[u] < policy.days
      BY <1>2, <1>3, <2>1, <3>2
    <3> QED
      BY <3>1, <3>2
<1> QED
  BY <1>4, <1>5

-----------------------------------------------------------------------------
(* FieldRules: a rule that was changed is in force in every worker.        *)

LEMMA RulesBegin == ASSUME Fru!Init PROVE Fru!CachesSound
BY DEF Fru!Init, Fru!CachesSound, Fru!SoundFor, Fru!Valid, Fru!Idle, Fru!Busy

LEMMA RequestBegins ==
  ASSUME Fru!CachesSound, NEW w \in Restraints.Workers, NEW r, r.pc \in {"open", "save"},
         Fru!Begin(w, r)
  PROVE  Fru!CachesSound'
<1> DEFINE rule == s1  cache == s2  signalled == s3  request == s4  Workers == Restraints.Workers
           NoCache == Restraints.NoCache
<1> DEFINE late == \E v \in Workers : request[v].pc = "committed"
           new == [pc |-> r.pc, user |-> r.user, fields |-> r.fields, seen |-> Fru!Active(rule), late |-> late]
<1>1. new.pc = r.pc /\ new.seen = Fru!Active(rule) /\ new.late = late /\ Fru!Whole(new)
  BY DEF Fru!Whole
<1>2. /\ request[w].pc = "idle" /\ request' = [request EXCEPT ![w] = new]
      /\ cache' = IF w \in signalled THEN [cache EXCEPT ![w] = NoCache] ELSE cache
      /\ signalled' = signalled \ {w} /\ rule' = rule
  BY DEF Fru!Begin
<1> HIDE DEF new, late
<1>3. /\ request'[w] = new
      /\ \A v \in Workers \ {w} : request'[v] = request[v] /\ cache'[v] = cache[v]
      /\ cache'[w] = IF w \in signalled THEN NoCache ELSE cache[w]
  BY <1>2 DEF Fru!CachesSound
<1>4. Fru!Active(rule)' = Fru!Active(rule)
  BY <1>2 DEF Fru!Active
<1>5. \A v \in Workers \ {w} : (Fru!Owed(v) => Fru!Owed(v)') /\ (Fru!Valid(v) => Fru!Valid(v)')
  BY <1>1, <1>2, <1>3, <1>4 DEF Fru!Owed, Fru!Valid
<1>6. late => Fru!Owed(w)'
  BY <1>2, <1>3 DEF late, Fru!Owed
<1>7. ~late => Fru!Valid(w)'
  BY <1>2, <1>3, <1>4 DEF late, Fru!Owed, Fru!Valid, Fru!SoundFor, Fru!CachesSound
<1>8. /\ request' = [v \in Workers |-> request'[v]] /\ cache' = [v \in Workers |-> cache'[v]]
      /\ signalled' \subseteq Workers
  BY <1>2 DEF Fru!CachesSound
<1>9. ASSUME NEW v \in Workers PROVE Fru!SoundFor(v)'
  <2>1. CASE v = w
    BY <1>1, <1>2, <1>3, <1>6, <1>7, <1>4, <2>1 DEF Fru!Busy, Fru!SoundFor
  <2>2. CASE v # w
    BY <1>2, <1>3, <1>5, <1>4, <2>2 DEF Fru!Busy, Fru!SoundFor, Fru!CachesSound
  <2> QED
    BY <2>1, <2>2
<1> QED
  BY <1>8, <1>9 DEF Fru!CachesSound

\* the answer of a request that no change overtook fills the cache with what is committed
LEMMA RequestEnds ==
  ASSUME Fru!CachesSound, NEW w \in Restraints.Workers, NEW a, Fru!Busy(w), Fru!Answered(w, a)
  PROVE  Fru!CachesSound'
<1> DEFINE rule == s1  cache == s2  signalled == s3  request == s4  Workers == Restraints.Workers
           NoCache == Restraints.NoCache
<1> DEFINE kept == IF cache[w] = NoCache THEN request[w].seen ELSE cache[w]
<1>1. /\ request' = [request EXCEPT ![w] = Fru!Idle] /\ rule' = rule /\ signalled' = signalled
      /\ cache' = [cache EXCEPT ![w] = kept]
  BY DEF Fru!Answered
<1>2. request[w].late \/ kept \in {NoCache, Fru!Active(rule)}
  BY DEF Fru!CachesSound, Fru!SoundFor, Fru!Valid
<1> HIDE DEF kept
<1>3. /\ request'[w].pc = "idle" /\ cache'[w] = kept
      /\ \A v \in Workers \ {w} : request'[v] = request[v] /\ cache'[v] = cache[v]
  BY <1>1 DEF Fru!CachesSound, Fru!Idle
<1>4. Fru!Active(rule)' = Fru!Active(rule)
  BY <1>1 DEF Fru!Active
<1>5. \A v \in Workers : (Fru!Owed(v) => Fru!Owed(v)') /\ (v # w /\ Fru!Valid(v) => Fru!Valid(v)')
  BY <1>1, <1>3, <1>4 DEF Fru!Owed, Fru!Valid, Fru!Busy
<1>6. ASSUME NEW v \in Workers PROVE Fru!SoundFor(v)'
  <2>1. CASE v = w
    BY <1>1, <1>2, <1>3, <1>4, <1>5, <2>1 DEF Fru!Busy, Fru!Valid, Fru!SoundFor, Fru!CachesSound
  <2>2. CASE v # w
    BY <1>1, <1>3, <1>4, <1>5, <2>2 DEF Fru!Busy, Fru!SoundFor, Fru!CachesSound
  <2> QED
    BY <2>1, <2>2
<1> QED
  BY <1>1, <1>6 DEF Fru!CachesSound

\* everybody else is owed a signal by whoever has changed a rule
LEMMA RuleChanges ==
  ASSUME Fru!CachesSound, NEW w \in Restraints.Workers, NEW i, NEW r, Fru!Change(w, i, r)
  PROVE  Fru!CachesSound'
<1> DEFINE cache == s2  signalled == s3  request == s4  Workers == Restraints.Workers
           NoCache == Restraints.NoCache
<1> DEFINE after(v) == CASE v = w -> [pc |-> "committed"]
                         [] v # w /\ request[v].pc \in {"idle", "committed"} -> request[v]
                         [] OTHER -> [request[v] EXCEPT !.late = TRUE]
<1>1. /\ request' = [v \in Workers |-> after(v)] /\ request[w].pc = "idle"
      /\ cache' = [cache EXCEPT ![w] = NoCache] /\ signalled' = signalled \ {w}
  BY DEF Fru!Change, Fru!Cleared
<1>2. request'[w].pc = "committed" /\ cache'[w] = NoCache
  <2>1. request'[w] = after(w)
    <3> HIDE DEF after
    <3> QED
      BY <1>1
  <2>2. after(w) = [pc |-> "committed"]
    OBVIOUS
  <2> QED
    BY <1>1, <2>1, <2>2 DEF Fru!CachesSound
<1>3. \A v \in Workers \ {w} : Fru!Owed(v)' /\ cache'[v] = cache[v]
  BY <1>1, <1>2 DEF Fru!Owed, Fru!CachesSound
<1>4. ASSUME NEW v \in Workers \ {w}, Fru!Busy(v)
      PROVE  request'[v].pc = request[v].pc /\ request'[v].late /\ Fru!Whole(request'[v])
  <2>1. Fru!Whole(request[v])
    BY <1>4 DEF Fru!CachesSound, Fru!SoundFor
  <2>2. request'[v] = [request[v] EXCEPT !.late = TRUE]
    BY <1>1, <1>4 DEF Fru!Busy
  <2> QED
    BY <2>1, <2>2 DEF Fru!Whole
<1>5. ASSUME NEW v \in Workers \ {w}, ~Fru!Busy(v) PROVE request'[v] = request[v]
  BY <1>1, <1>5 DEF Fru!Busy, Fru!CachesSound, Fru!SoundFor
<1>6. ASSUME NEW v \in Workers PROVE Fru!SoundFor(v)'
  <2>1. CASE v = w
    BY <1>2, <2>1 DEF Fru!Busy, Fru!SoundFor
  <2>2. CASE v # w /\ Fru!Busy(v)
    BY <1>3, <1>4, <2>2 DEF Fru!Busy, Fru!SoundFor
  <2>3. CASE v # w /\ ~Fru!Busy(v)
    BY <1>3, <1>5, <2>3 DEF Fru!Busy, Fru!SoundFor, Fru!CachesSound
  <2> QED
    BY <2>1, <2>2, <2>3
<1>7. /\ request' = [v \in Workers |-> request'[v]] /\ cache' = [v \in Workers |-> cache'[v]]
      /\ signalled' \subseteq Workers
  <2> HIDE DEF after
  <2>1. request' = [v \in Workers |-> request'[v]]
    BY <1>1
  <2> QED
    BY <1>1, <2>1 DEF Fru!CachesSound
<1> QED
  BY <1>6, <1>7 DEF Fru!CachesSound

LEMMA RuleSignals ==
  ASSUME Fru!CachesSound, NEW w \in Restraints.Workers, Fru!Signal(w)
  PROVE  Fru!CachesSound'
<1> DEFINE rule == s1  cache == s2  signalled == s3  request == s4  Workers == Restraints.Workers
<1>1. /\ request[w].pc = "committed" /\ request' = [request EXCEPT ![w] = Fru!Idle]
      /\ signalled' = signalled \cup (Workers \ {w}) /\ UNCHANGED <<rule, cache>>
  BY DEF Fru!Signal
<1>2. Fru!Active(rule)' = Fru!Active(rule)
  BY <1>1 DEF Fru!Active
<1>3. /\ request'[w].pc = "idle" /\ Fru!Valid(w)'
      /\ \A v \in Workers \ {w} : request'[v] = request[v] /\ Fru!Owed(v)' /\ (Fru!Valid(v) => Fru!Valid(v)')
  BY <1>1, <1>2 DEF Fru!CachesSound, Fru!SoundFor, Fru!Idle, Fru!Owed, Fru!Valid
<1>4. ASSUME NEW v \in Workers PROVE Fru!SoundFor(v)'
  <2>1. CASE v = w
    BY <1>3, <2>1 DEF Fru!Busy, Fru!SoundFor
  <2>2. CASE v # w
    BY <1>1, <1>2, <1>3, <2>2 DEF Fru!Busy, Fru!SoundFor, Fru!CachesSound
  <2> QED
    BY <2>1, <2>2
<1> QED
  BY <1>1, <1>4 DEF Fru!CachesSound

LEMMA RulesStep ==
  ASSUME Fru!CachesSound, [Fru!Next]_(Fru!vars)
  PROVE  Fru!CachesSound'
<1> DEFINE rule == s1  cache == s2  signalled == s3  request == s4  Workers == Restraints.Workers
<1>1. ASSUME NEW w \in Workers, NEW u, Fru!OpenStart(w, u) PROVE Fru!CachesSound'
  BY <1>1, RequestBegins DEF Fru!OpenStart
<1>2. ASSUME NEW w \in Workers, NEW u, NEW fs, Fru!SaveStart(w, u, fs) PROVE Fru!CachesSound'
  BY <1>2, RequestBegins DEF Fru!SaveStart
<1>3. ASSUME NEW w \in Workers, Fru!Open(w) \/ Fru!Save(w) PROVE Fru!CachesSound'
  BY <1>3, RequestEnds DEF Fru!Open, Fru!Save, Fru!Busy
<1>4. CASE UNCHANGED Fru!vars
  <2>1. Fru!Active(rule)' = Fru!Active(rule) /\ UNCHANGED <<cache, signalled, request>>
    BY <1>4 DEF Fru!vars, Fru!Active
  <2> QED
    BY <2>1 DEF Fru!CachesSound, Fru!SoundFor, Fru!Valid, Fru!Owed, Fru!Busy
<1> QED
  BY <1>1, <1>2, <1>3, <1>4, RuleChanges, RuleSignals DEF Fru!Next

\* what the rules a request goes by are
LEMMA FreshRules ==
  ASSUME Fru!CachesSound, NEW w \in Restraints.Workers, Fru!Busy(w), Fru!Fresh(w)
  PROVE  Fru!Rules(w) = Fru!Matching(Fru!Active(s1), s4[w].user)
BY DEF Fru!CachesSound, Fru!SoundFor, Fru!Valid, Fru!Fresh, Fru!Rules

\* A save that no change overtakes goes by the rules that are committed.
LEMMA SavesFollow ==
  ASSUME Fru!CachesSound
  PROVE  Fru!RulesInForce
<1> DEFINE rule == s1  request == s4  answer == s5  RuleIds == Restraints.RuleIds
           Workers == Restraints.Workers
<1> SUFFICES ASSUME NEW w \in Workers, Fru!Save(w), Fru!Fresh(w)
             PROVE  answer'.refused = \E i \in RuleIds, f \in answer'.fields :
                        Fru!Restrains(rule[i], answer'.user, f) /\ "readonly" \in rule[i].flags
  BY DEF Fru!RulesInForce
<1> DEFINE u == request[w].user
           fs == request[w].fields
<1>1. answer'.user = u /\ answer'.fields = fs /\ answer'.refused = Fru!Refused(Fru!Rules(w), fs)
  BY DEF Fru!Save, Fru!Answered
<1>2. Fru!Rules(w) = Fru!Matching(Fru!Active(rule), u)
  BY FreshRules DEF Fru!Save, Fru!Busy
<1> HIDE DEF u, fs
<1>3. Fru!Refused(Fru!Matching(Fru!Active(rule), u), fs)
        <=> \E i \in RuleIds, f \in fs : Fru!Restrains(rule[i], u, f) /\ "readonly" \in rule[i].flags
  BY DEF Fru!Refused, Fru!Matching, Fru!Active, Fru!Restrains
<1> QED
  BY <1>1, <1>2, <1>3 DEF Fru!Refused

\* What a form offers can be saved.
LEMMA FormsFollow ==
  ASSUME Fru!CachesSound
  PROVE  Fru!FormsSavable
<1> DEFINE rule == s1  request == s4  answer == s5  Fields == Restraints.Fields
           Workers == Restraints.Workers
<1> SUFFICES ASSUME NEW w \in Workers, Fru!Open(w), NEW f \in Fields
             PROVE  /\ ~({"invisible", "required"} \subseteq answer'.flags[f])
                    /\ Fru!Fresh(w) =>
                         ("readonly" \in answer'.flags[f] <=> Fru!Refused(Fru!Matching(Fru!Active(rule), answer'.user), {f}))
  BY DEF Fru!FormsSavable
<1> DEFINE u == request[w].user
           rs == Fru!Rules(w)
<1>1. answer'.user = u /\ answer'.flags = [g \in Fields |-> Fru!Flags(rs, g)]
  BY DEF Fru!Open, Fru!Answered
<1>2. answer'.flags[f] = Fru!Flags(rs, f)
  BY <1>1
<1>3. Fru!Fresh(w) => rs = Fru!Matching(Fru!Active(rule), u)
  BY FreshRules DEF Fru!Open, Fru!Busy
<1> HIDE DEF u, rs
<1>4. ~({"invisible", "required"} \subseteq Fru!Flags(rs, f))
  BY DEF Fru!Flags
<1>5. "readonly" \in Fru!Flags(rs, f) <=> Fru!Refused(rs, {f})
  BY DEF Fru!Flags, Fru!Refused
<1>6. ~({"invisible", "required"} \subseteq answer'.flags[f])
  BY <1>2, <1>4
<1>7. Fru!Fresh(w) => ("readonly" \in answer'.flags[f] <=> Fru!Refused(Fru!Matching(Fru!Active(rule), answer'.user), {f}))
  <2> SUFFICES ASSUME Fru!Fresh(w)
               PROVE  "readonly" \in answer'.flags[f] <=> Fru!Refused(Fru!Matching(Fru!Active(rule), answer'.user), {f})
    OBVIOUS
  <2>1. rs = Fru!Matching(Fru!Active(rule), answer'.user)
    BY <1>1, <1>3
  <2> QED
    BY <1>2, <1>5, <2>1
<1> QED
  BY <1>6, <1>7

-----------------------------------------------------------------------------
(* GlobalFilter: requests know the filters that no other wrote since, so a *)
(* flag is the only one of its screen.                                     *)

LEMMA LeastFilter == ASSUME NEW S \in SUBSET Nat, S # {} PROVE Fil!Min(S) \in S
<1>1. \E x \in S : \A y \in S : x <= y
  BY LeastIsThere
<1> QED
  BY <1>1 DEF Fil!Min

\* A request that writes without having been overtaken sees what there is.
LEMMA SeesAll ==
  ASSUME Fil!FiltersTyped, Fil!SnapshotsHold, NEW r \in Offers.Requests, Fil!Open(r),
         s2[r].touched = {}
  PROVE  s2[r].seen = s1
<1> DEFINE filter == s1  request == s2  Filters == Offers.Filters
<1>1. request[r].seen = [f \in Filters |-> request[r].seen[f]]
  BY DEF Fil!FiltersTyped, Fil!RequestAsTyped
<1>2. \A f \in Filters : request[r].seen[f] = filter[f]
  BY DEF Fil!SnapshotsHold
<1>3. filter = [f \in Filters |-> filter[f]]
  BY DEF Fil!FiltersTyped
<1> QED
  BY <1>1, <1>2, <1>3

\* Where one filter is flagged, what else is offered is a filter of every screen.
LEMMA OneIsOffered ==
  ASSUME Fil!Proper, NEW fs, NEW f \in Offers.Filters, NEW u \in Offers.Users, NEW a,
         a = fs[f].action,
         <<u, a>> \notin Offers.Choosing,
         fs[f].active, fs[f].flag, fs[f].owner = Offers.Nobody,
         \A g \in Offers.Filters \ {f} :
           fs[g].owner = Offers.Nobody /\ fs[g].flag /\ fs[g].active => fs[g].action # a
  PROVE  \/ Fil!Offered(fs, u, a) = {f}
         \/ \E g \in Fil!Offered(fs, u, a) : fs[g].action = Offers.AnyAction
<1> DEFINE AnyAction == Offers.AnyAction
<1> DEFINE candidates == {g \in Fil!Listed(fs, u, a) \cap Fil!Shared(fs) : fs[g].flag}
<1>1. f \in candidates
  BY DEF Fil!Listed, Fil!Shared
<1>2. candidates \in SUBSET Nat
  BY DEF Fil!Listed, Fil!Shared, Fil!Proper
<1>3. \A g \in candidates : g = f \/ fs[g].action = AnyAction
  BY DEF Fil!Listed, Fil!Shared
<1>4. Fil!Offered(fs, u, a) = {Fil!Min(candidates)}
  <2>1. candidates # {}
    BY <1>1
  <2> QED
    BY <2>1 DEF Fil!Offered
<1> HIDE DEF candidates
<1>5. Fil!Min(candidates) \in candidates
  BY <1>1, <1>2, LeastFilter
<1> QED
  BY <1>3, <1>4, <1>5

LEMMA FlagFollows ==
  ASSUME Fil!Proper, Fil!FiltersTyped, Fil!SnapshotsHold, NEW r \in Offers.Requests,
         NEW ids \in SUBSET Offers.Filters,
         NEW change, NEW manager, Fil!Write(r, ids, change, manager)
  PROVE  Fil!DefaultFollows'
<1> DEFINE filter == s1  request == s2  flagged == s3  Filters == Offers.Filters
           Actions == Offers.Actions  AnyAction == Offers.AnyAction  Users == Offers.Users
           Nobody == Offers.Nobody  Choosing == Offers.Choosing
<1> DEFINE seen == request[r].seen
           written == Fil!Changed(seen, ids, change)
           demoted == IF Fil!Flags(change) THEN Fil!Demoted(written, ids) ELSE {}
<1>1. /\ Fil!Open(r) /\ Fil!Allowed(seen, ids, change, manager)
      /\ filter' = [f \in Filters |->
              CASE f \in demoted -> [written[f] EXCEPT !.flag = FALSE]
                [] f \in ids \ demoted -> written[f]
                [] OTHER -> filter[f]]
      /\ flagged' = IF Fil!Flags(change) /\ request[r].touched = {} THEN ids ELSE {}
  BY DEF Fil!Write, Fil!Open
<1> SUFFICES ASSUME NEW f \in Filters, flagged' = {f}, filter'[f].active,
                    NEW u \in Users, NEW a \in Actions
             PROVE  /\ a = filter'[f].action /\ <<u, a>> \notin Choosing =>
                         \/ Fil!Offered(filter', u, a) = {f}
                         \/ \E g \in Fil!Offered(filter', u, a) : filter'[g].action = AnyAction
                    /\ <<u, a>> \in Choosing => Fil!Offered(filter', u, a) = {}
  BY DEF Fil!DefaultFollows
<1>2. Fil!Flags(change) /\ request[r].touched = {} /\ ids = {f}
  BY <1>1
<1>3. seen = filter
  BY <1>1, <1>2, SeesAll
<1>4. \A g \in Filters \ {f} : written[g] = filter[g]
  BY <1>2, <1>3 DEF Fil!Changed
<1>5. written[f].flag /\ written[f].owner = Nobody
  <2>1. change.flag /\ "flag" \in DOMAIN change /\ f \in Fil!Shared(written)
    BY <1>1, <1>2 DEF Fil!Flags, Fil!Allowed
  <2> QED
    BY <1>2, <2>1 DEF Fil!Changed, Fil!Shared
<1>6. demoted = Fil!Siblings(written, f)
  BY <1>2, <1>5 DEF Fil!Demoted
<1> HIDE DEF written, demoted, seen
<1>7. f \notin demoted
  BY <1>6 DEF Fil!Siblings
<1>8. filter'[f] = written[f]
  BY <1>1, <1>2, <1>7
<1>9. ASSUME NEW g \in Filters \ {f},
             filter'[g].owner = Nobody, filter'[g].flag, filter'[g].active
      PROVE  filter'[g].action # filter'[f].action
  <2>1. CASE g \in demoted
    <3>1. filter'[g] = [written[g] EXCEPT !.flag = FALSE]
      BY <1>1, <2>1
    <3>2. written[g].flag
      BY <1>6, <2>1 DEF Fil!Siblings
    <3>3. filter'[g].flag = FALSE
      BY <3>1, <3>2
    <3> QED
      BY <1>9, <3>3
  <2>2. CASE g \notin demoted
    <3>1. filter'[g] = written[g]
      BY <1>1, <1>2, <1>4, <2>2
    <3> QED
      BY <1>6, <1>8, <1>9, <2>2, <3>1 DEF Fil!Siblings, Fil!Shared
  <2> QED
    BY <2>1, <2>2
<1>10. ASSUME a = filter'[f].action, <<u, a>> \notin Choosing
       PROVE  \/ Fil!Offered(filter', u, a) = {f}
              \/ \E g \in Fil!Offered(filter', u, a) : filter'[g].action = AnyAction
  <2> DEFINE fs == filter'
  <2>1. fs[f].active /\ fs[f].flag /\ fs[f].owner = Nobody
    BY <1>5, <1>8
  <2>2. \A g \in Filters \ {f} :
          fs[g].owner = Nobody /\ fs[g].flag /\ fs[g].active => fs[g].action # a
    BY <1>9, <1>10
  <2>3. a = fs[f].action
    BY <1>10
  <2> HIDE DEF fs
  <2>4. \/ Fil!Offered(fs, u, a) = {f}
        \/ \E g \in Fil!Offered(fs, u, a) : fs[g].action = AnyAction
    BY <1>10, <2>1, <2>2, <2>3, OneIsOffered
  <2> QED
    BY <2>4 DEF fs
<1>11. <<u, a>> \in Choosing => Fil!Offered(filter', u, a) = {}
  BY DEF Fil!Offered
<1> QED
  BY <1>10, <1>11

LEMMA WriteKeepsSnapshots ==
  ASSUME Fil!FiltersTyped, Fil!SnapshotsHold, NEW r \in Offers.Requests,
         NEW ids \in SUBSET Offers.Filters,
         NEW change, NEW manager, Fil!Write(r, ids, change, manager)
  PROVE  Fil!FiltersTyped' /\ Fil!SnapshotsHold'
<1> DEFINE filter == s1  request == s2  Filters == Offers.Filters  Requests == Offers.Requests
<1> DEFINE written == Fil!Changed(request[r].seen, ids, change)
           demoted == IF Fil!Flags(change) THEN Fil!Demoted(written, ids) ELSE {}
<1>1. /\ filter' = [f \in Filters |->
              CASE f \in demoted -> [written[f] EXCEPT !.flag = FALSE]
                [] f \in ids \ demoted -> written[f]
                [] OTHER -> filter[f]]
      /\ request' = [q \in Requests |->
              CASE q = r -> Fil!Idle
                [] request[q].pc = "open" /\ q # r ->
                     [request[q] EXCEPT !.touched = @ \cup ids \cup demoted]
                [] OTHER -> request[q]]
  BY DEF Fil!Write
<1> HIDE DEF written, demoted
<1>2. ASSUME NEW q \in Requests, Fil!Open(q)'
      PROVE  /\ Fil!Open(q)
             /\ request'[q] = [pc |-> "open", seen |-> request[q].seen,
                               touched |-> request[q].touched \cup ids \cup demoted]
  <2>1. q # r
    BY <1>1, <1>2 DEF Fil!Open, Fil!Idle
  <2>2. Fil!Open(q)
    BY <1>1, <1>2, <2>1 DEF Fil!Open
  <2>3. request'[q] = [request[q] EXCEPT !.touched = request[q].touched \cup ids \cup demoted]
    BY <1>1, <2>1, <2>2 DEF Fil!Open
  <2>4. request[q] = [pc |-> "open", seen |-> request[q].seen, touched |-> request[q].touched]
    BY <2>2 DEF Fil!FiltersTyped, Fil!RequestAsTyped
  <2> QED
    BY <2>2, <2>3, <2>4
<1>3. ASSUME NEW q \in Requests, Fil!Open(q)'
      PROVE  Fil!RequestAsTyped(request[q])'
  <2>1. request[q].seen = [f \in Filters |-> request[q].seen[f]]
    BY <1>2, <1>3 DEF Fil!FiltersTyped, Fil!RequestAsTyped
  <2>2. /\ request'[q].seen = request[q].seen
        /\ request'[q] = [pc |-> "open", seen |-> request'[q].seen, touched |-> request'[q].touched]
    <3>1. request'[q] = [pc |-> "open", seen |-> request[q].seen,
                         touched |-> request[q].touched \cup ids \cup demoted]
      BY <1>2, <1>3
    <3> QED
      BY <3>1
  <2> QED
    BY <2>1, <2>2 DEF Fil!RequestAsTyped
<1>4. ASSUME NEW q \in Requests, Fil!Open(q)', NEW f \in Filters \ request'[q].touched
      PROVE  request'[q].seen[f] = filter'[f]
  <2>1. /\ request'[q].seen = request[q].seen /\ Fil!Open(q)
        /\ request'[q].touched = request[q].touched \cup ids \cup demoted
    <3>1. Fil!Open(q) /\ request'[q] = [pc |-> "open", seen |-> request[q].seen,
                                   touched |-> request[q].touched \cup ids \cup demoted]
      BY <1>2, <1>4
    <3> QED
      BY <3>1
  <2>2. f \notin demoted /\ f \notin ids /\ f \in Filters \ request[q].touched
    BY <2>1
  <2>3. filter'[f] = filter[f]
    BY <1>1, <2>2
  <2>4. request[q].seen[f] = filter[f]
    BY <2>1, <2>2 DEF Fil!SnapshotsHold
  <2> QED
    BY <2>1, <2>3, <2>4
<1>5. filter' = [f \in Filters |-> filter'[f]] /\ request' = [q \in Requests |-> request'[q]]
  BY <1>1
<1> QED
  BY <1>3, <1>4, <1>5 DEF Fil!FiltersTyped, Fil!SnapshotsHold

LEMMA FiltersBegin ==
  ASSUME Fil!Init
  PROVE  Fil!IInv
<1> DEFINE filter == s1  request == s2  Filters == Offers.Filters  Requests == Offers.Requests
<1>1. \A r \in Requests : ~Fil!Open(r)
  BY DEF Fil!Init, Fil!Open, Fil!Idle
<1>2. filter = [f \in Filters |-> filter[f]] /\ request = [r \in Requests |-> request[r]]
  BY DEF Fil!Init
<1>3. Fil!DefaultFollows
  BY DEF Fil!Init, Fil!DefaultFollows
<1> QED
  BY <1>1, <1>2, <1>3 DEF Fil!IInv, Fil!FiltersTyped, Fil!SnapshotsHold

LEMMA FiltersStep ==
  ASSUME Fil!Proper, Fil!IInv, [Fil!Next]_(Fil!vars)
  PROVE  Fil!IInv'
<1> DEFINE filter == s1  request == s2  flagged == s3  Filters == Offers.Filters
           Actions == Offers.Actions  AnyAction == Offers.AnyAction  Users == Offers.Users
           Choosing == Offers.Choosing  Requests == Offers.Requests
<1>1. Fil!FiltersTyped /\ Fil!SnapshotsHold /\ Fil!DefaultFollows
  BY DEF Fil!IInv
<1>2. ASSUME NEW r \in Requests, Fil!Begin(r)
      PROVE  Fil!IInv'
  <2>1. /\ request' = [request EXCEPT ![r] = [pc |-> "open", seen |-> filter, touched |-> {}]]
        /\ filter' = filter /\ flagged' = {}
    BY <1>2 DEF Fil!Begin
  <2>2. \A q \in Requests : /\ q # r => request'[q] = request[q]
                            /\ q = r => request'[q] = [pc |-> "open", seen |-> filter, touched |-> {}]
    BY <1>1, <2>1 DEF Fil!FiltersTyped
  <2>3. ASSUME NEW q \in Requests, Fil!Open(q)'
        PROVE  /\ Fil!RequestAsTyped(request[q])'
               /\ \A f \in Filters \ request'[q].touched : request'[q].seen[f] = filter'[f]
    <3>1. CASE q = r
      BY <1>1, <2>1, <2>2, <3>1 DEF Fil!FiltersTyped, Fil!RequestAsTyped
    <3>2. CASE q # r
      BY <1>1, <2>1, <2>2, <2>3, <3>2 DEF Fil!FiltersTyped, Fil!RequestAsTyped,
         Fil!SnapshotsHold, Fil!Open
    <3> QED
      BY <3>1, <3>2
  <2>4. filter' = [f \in Filters |-> filter'[f]] /\ request' = [q \in Requests |-> request'[q]]
    BY <1>1, <2>1 DEF Fil!FiltersTyped
  <2>5. Fil!DefaultFollows'
    BY <2>1 DEF Fil!DefaultFollows
  <2> QED
    BY <2>3, <2>4, <2>5 DEF Fil!IInv, Fil!FiltersTyped, Fil!SnapshotsHold
<1>3. ASSUME NEW r \in Requests, Fil!Fail(r)
      PROVE  Fil!IInv'
  <2>1. request' = [request EXCEPT ![r] = Fil!Idle] /\ filter' = filter /\ flagged' = {}
    BY <1>3 DEF Fil!Fail
  <2>2. \A q \in Requests : /\ q # r => request'[q] = request[q]
                            /\ q = r => request'[q] = Fil!Idle
    BY <1>1, <2>1 DEF Fil!FiltersTyped
  <2>3. ASSUME NEW q \in Requests, Fil!Open(q)'
        PROVE  request'[q] = request[q]
    BY <2>2, <2>3 DEF Fil!Open, Fil!Idle
  <2>4. filter' = [f \in Filters |-> filter'[f]] /\ request' = [q \in Requests |-> request'[q]]
    BY <1>1, <2>1 DEF Fil!FiltersTyped
  <2>5. Fil!DefaultFollows'
    BY <2>1 DEF Fil!DefaultFollows
  <2>6. ASSUME NEW q \in Requests, Fil!Open(q)'
        PROVE  /\ Fil!RequestAsTyped(request[q])'
               /\ \A f \in Filters \ request'[q].touched : request'[q].seen[f] = filter'[f]
    <3>1. request'[q] = request[q] /\ Fil!Open(q)
      BY <2>3, <2>6 DEF Fil!Open
    <3> QED
      BY <1>1, <2>1, <3>1 DEF Fil!FiltersTyped, Fil!SnapshotsHold, Fil!RequestAsTyped
  <2> QED
    BY <2>4, <2>5, <2>6 DEF Fil!IInv, Fil!FiltersTyped, Fil!SnapshotsHold
<1>4. ASSUME NEW r \in Requests, NEW ids \in (SUBSET Filters) \ {{}}, NEW change \in Fil!Changes,
             NEW manager \in BOOLEAN, Fil!Write(r, ids, change, manager)
      PROVE  Fil!IInv'
  BY <1>1, <1>4, FlagFollows, WriteKeepsSnapshots DEF Fil!IInv
<1>5. CASE UNCHANGED Fil!vars
  <2>1. filter' = filter /\ request' = request /\ flagged' = flagged
    BY <1>5 DEF Fil!vars
  <2>2. Fil!FiltersTyped' /\ Fil!SnapshotsHold'
    BY <1>1, <2>1 DEF Fil!FiltersTyped, Fil!SnapshotsHold, Fil!RequestAsTyped, Fil!Open
  <2>3. Fil!DefaultFollows'
    <3> SUFFICES ASSUME NEW f \in Filters, flagged' = {f}, filter'[f].active,
                        NEW u \in Users, NEW a \in Actions
                 PROVE  /\ a = filter'[f].action /\ <<u, a>> \notin Choosing =>
                             \/ Fil!Offered(filter', u, a) = {f}
                             \/ \E g \in Fil!Offered(filter', u, a) : filter'[g].action = AnyAction
                        /\ <<u, a>> \in Choosing => Fil!Offered(filter', u, a) = {}
      BY DEF Fil!DefaultFollows
    <3> QED
      BY <1>1, <2>1 DEF Fil!DefaultFollows
  <2> QED
    BY <2>2, <2>3 DEF Fil!IInv
<1> QED
  BY <1>2, <1>3, <1>4, <1>5 DEF Fil!Next
-----------------------------------------------------------------------------
(* What an administrator changed is in force *)

InForce ==
  /\ part = "menus" => Men!CachesSound
  /\ part = "restraints" => Fru!CachesSound
  /\ part = "passwords" => Pwd!StampTells
  /\ part = "filters" => Fil!IInv

LEMMA InForceBegins == ASSUME Init PROVE InForce
<1>1. part = "menus" => Men!CachesSound
  BY Men!CachesBegin DEF Init
<1>2. part = "restraints" => Fru!CachesSound
  BY RulesBegin DEF Init
<1>3. part = "passwords" => Pwd!StampTells
  BY StampsBegin, AddOnsAssumption DEF Init
<1>4. part = "filters" => Fil!IInv
  BY FiltersBegin DEF Init
<1> QED
  BY <1>1, <1>2, <1>3, <1>4 DEF InForce

LEMMA InForceStep == ASSUME InForce, [Next]_vars PROVE InForce'
<1>1. ASSUME part' = "menus" PROVE Men!CachesSound'
  <2>1. part = "menus" /\ [Men!Next]_(Men!vars)
    BY <1>1, PartStays DEF Next, vars, Men!vars
  <2> QED
    BY <2>1, Men!CachesStep DEF InForce
<1>2. ASSUME part' = "restraints" PROVE Fru!CachesSound'
  <2>1. part = "restraints" /\ [Fru!Next]_(Fru!vars)
    BY <1>2, PartStays DEF Next, vars, Fru!vars
  <2> QED
    BY <2>1, RulesStep DEF InForce
<1>3. ASSUME part' = "passwords" PROVE Pwd!StampTells'
  <2>1. part = "passwords" /\ [Pwd!Next]_(Pwd!vars)
    BY <1>3, PartStays DEF Next, vars, Pwd!vars
  <2> QED
    BY <2>1, StampsStep, AddOnsAssumption DEF InForce
<1>4. ASSUME part' = "filters" PROVE Fil!IInv'
  <2>1. part = "filters" /\ [Fil!Next]_(Fil!vars)
    BY <1>4, PartStays DEF Next, vars, Fil!vars
  <2> QED
    BY <2>1, FiltersStep, AddOnsAssumption DEF InForce
<1> QED
  BY <1>1, <1>2, <1>3, <1>4 DEF InForce

\* What an administrator changed is in force: however requests and workers
\* interleave, previews and saves that no change overtakes go by the groups and the
\* rules that are committed, pages follow the age of the password, and a filter that
\* is flagged is the default of its screen (menu_access_visibility,
\* field_rules_by_group, password_expiry_policy, global_default_saved_filter).
THEOREM ChangesTakeEffect == Spec => TakesEffect
<1>1. Init => InForce
  BY InForceBegins
<1>2. InForce /\ [Next]_vars => InForce'
  BY InForceStep
<1>3. InForce /\ InForce' =>
        /\ part = "menus" => Men!TakesEffect
        /\ part = "restraints" => Fru!RulesInForce
        /\ part = "passwords" => Pwd!AgeIsOfPassword
        /\ part' = "filters" => Fil!DefaultFollows'
  BY Men!PreviewsTell, SavesFollow, PagesFollow, AddOnsAssumption DEF InForce, Fil!IInv
<1>4. InForce /\ [Next]_vars =>
        [/\ part = "menus" => Men!TakesEffect
         /\ part = "restraints" => Fru!RulesInForce
         /\ part = "passwords" => Pwd!AgeIsOfPassword
         /\ part = "filters" => Fil!DefaultFollows']_vars
  BY <1>2, <1>3, PartStays
<1> QED
  BY <1>1, <1>2, <1>4, PTL DEF Spec, TakesEffect

-----------------------------------------------------------------------------
(* CronHistory: what is to be recorded of a run is how it ended, and only  *)
(* it is recorded of it.                                                   *)

LEMMA LeastRun == ASSUME NEW S \in SUBSET Nat, S # {} PROVE His!Min(S) \in S
<1>1. \E x \in S : \A y \in S : x <= y
  BY LeastIsThere
<1> QED
  BY <1>1 DEF His!Min

LEMMA LimitsMeet ==
  ASSUME NEW x \in Int, NEW y \in Int
  PROVE  His!Max({x, y}) \in Int /\ His!Max({x, y}) >= x /\ His!Max({x, y}) >= y
<1>1. \E m \in {x, y} : \A z \in {x, y} : m >= z
  <2>1. CASE x >= y
    BY <2>1
  <2>2. CASE ~(x >= y)
    BY <2>2
  <2> QED
    BY <2>1, <2>2
<1>2. His!Max({x, y}) \in {x, y} /\ \A z \in {x, y} : His!Max({x, y}) >= z
  BY <1>1 DEF His!Max
<1> QED
  BY <1>2

LEMMA HistoryBegins ==
  ASSUME His!Proper, His!Init
  PROVE  His!IInv
<1> DEFINE run == s1  config == s4  cleanup == s5  Actions == History.Actions
<1>1. \A a \in Actions : run[a] = His!Idle /\ ~His!Busy(a) /\ run[a].pc = "idle"
  BY DEF His!Init, His!Idle, His!Busy
<1>2. His!RunsTyped
  BY <1>1 DEF His!Init, His!RunsTyped
<1>3. His!LimitsKnown
  <2>1. config.days \in Int
    BY DEF His!Init, His!Proper
  <2>2. cleanup = [limit |-> cleanup.limit, batches |-> cleanup.batches]
    BY DEF His!Init, His!NoCleanup
  <2> QED
    BY <2>1, <2>2 DEF His!Init, His!LimitsKnown
<1> QED
  BY <1>1, <1>2, <1>3 DEF His!Init, His!IInv, His!RunsApart, His!EndsKnown, His!RowsOver,
     His!HistoryTells

LEMMA RunStarts ==
  ASSUME His!Proper, His!IInv, NEW a \in History.Actions, His!Start(a)
  PROVE  His!IInv'
<1> DEFINE run == s1  handed == s2  history == s3  config == s4  cleanup == s5  fate == s6
           owed == s7  expired == s8  now == s9  edits == s10  Actions == History.Actions
           Runs == History.Runs
<1>1. His!RunsTyped /\ His!RunsApart /\ His!EndsKnown /\ His!RowsOver /\ His!LimitsKnown /\ His!HistoryTells
  BY DEF His!IInv
<1> DEFINE id == His!Min(Runs \ His!Used)
<1>2. id \in Runs \ His!Used
  <2>1. Runs \ His!Used \in SUBSET Nat /\ Runs \ His!Used # {}
    BY DEF His!Start, His!Proper
  <2> QED
    BY <2>1, LeastRun
<1> HIDE DEF id
<1>3. PICK how \in {"scheduler", "button"} :
        run' = [run EXCEPT ![a] = [pc |-> "running", how |-> how, id |-> id, start |-> now]]
  BY DEF His!Start, id
<1>4. /\ handed' = [handed EXCEPT ![a] = "none"] /\ run[a].pc = "idle"
      /\ UNCHANGED <<history, config, cleanup, fate, owed, expired, now, edits>>
  BY DEF His!Start
<1>5. /\ run'[a] = [pc |-> "running", how |-> how, id |-> id, start |-> now] /\ handed'[a] = "none"
      /\ \A b \in Actions \ {a} : run'[b] = run[b] /\ handed'[b] = handed[b]
      /\ run' = [b \in Actions |-> run'[b]] /\ handed' = [b \in Actions |-> handed'[b]]
  BY <1>1, <1>3, <1>4 DEF His!RunsTyped
<1>6. fate[id] = "none" /\ \A b \in Actions : His!Busy(b) => run[b].id # id
  BY <1>2 DEF His!Used, His!Busy
<1>7. His!RunsTyped'
  <2>1. ASSUME NEW b \in Actions
        PROVE  /\ run'[b].pc \in {"idle", "running", "done"}
               /\ His!Busy(b)' => run'[b].id \in Runs /\ run'[b].start \in Int
               /\ run'[b].pc = "running" => run'[b].how \in {"scheduler", "button"}
               /\ run'[b].pc = "done" => run'[b].raised \in BOOLEAN
    <3>1. CASE b = a
      BY <1>1, <1>2, <1>5, <3>1 DEF His!LimitsKnown
    <3>2. CASE b # a
      BY <1>1, <1>5, <3>2 DEF His!RunsTyped, His!Busy
    <3> QED
      BY <3>1, <3>2
  <2> QED
    BY <1>1, <1>4, <1>5, <2>1 DEF His!RunsTyped
<1>8. His!RunsApart'
  BY <1>1, <1>5, <1>6 DEF His!RunsApart, His!Busy
<1>9. His!EndsKnown'
  <2>1. ASSUME NEW b \in Actions
        PROVE  /\ run'[b].pc = "running" => fate[run'[b].id] = "none" /\ handed'[b] = "none"
               /\ run'[b].pc = "done" => fate[run'[b].id] = His!State(b)'
    <3>1. CASE b = a
      BY <1>5, <1>6, <3>1
    <3>2. CASE b # a
      BY <1>1, <1>5, <3>2 DEF His!EndsKnown, His!State
    <3> QED
      BY <3>1, <3>2
  <2> QED
    BY <1>4, <2>1 DEF His!EndsKnown
<1>10. His!RowsOver'
  <2>1. \A row \in history : fate[row.run] # "none" /\ \A b \in Actions : His!Busy(b)' => run'[b].id # row.run
    <3>1. ASSUME NEW row \in history, NEW b \in Actions, His!Busy(b)'
          PROVE  fate[row.run] # "none" /\ run'[b].id # row.run
      BY <1>1, <1>5, <1>6, <3>1 DEF His!RowsOver, His!Busy
    <3> QED
      BY <1>1, <3>1 DEF His!RowsOver
  <2> QED
    BY <1>4, <2>1 DEF His!RowsOver
<1>11. His!LimitsKnown' /\ His!HistoryTells'
  BY <1>1, <1>4 DEF His!LimitsKnown, His!HistoryTells, His!NoCleanup
<1> QED
  BY <1>7, <1>8, <1>9, <1>10, <1>11 DEF His!IInv

LEMMA BodyKnown ==
  ASSUME His!IInv, NEW a \in History.Actions, His!Body(a)
  PROVE  His!IInv'
<1> DEFINE run == s1  handed == s2  history == s3  config == s4  cleanup == s5  fate == s6
           owed == s7  expired == s8  now == s9  edits == s10  Actions == History.Actions
           Runs == History.Runs
<1>1. His!RunsTyped /\ His!RunsApart /\ His!EndsKnown /\ His!RowsOver /\ His!LimitsKnown /\ His!HistoryTells
  BY DEF His!IInv
<1>2. PICK outcome \in {"success", "failure"} :
        /\ fate' = [fate EXCEPT ![run[a].id] = outcome]
        /\ handed' = [handed EXCEPT ![a] =
             IF run[a].how = "scheduler" /\ outcome = "failure" THEN "error" ELSE @]
        /\ run' = [run EXCEPT ![a] = [pc |-> "done", id |-> @.id, start |-> @.start,
                     raised |-> run[a].how = "button" /\ outcome = "failure"]]
  BY DEF His!Body
<1>3. run[a].pc = "running" /\ UNCHANGED <<history, config, cleanup, owed, expired, now, edits>>
  BY DEF His!Body
<1> DEFINE id == run[a].id
<1>4. /\ id \in Runs /\ run[a].start \in Int /\ fate[id] = "none" /\ handed[a] = "none"
      /\ run[a].how \in {"scheduler", "button"} /\ His!Busy(a)
  BY <1>1, <1>3 DEF His!RunsTyped, His!EndsKnown, His!Busy
<1>5. /\ run'[a] = [pc |-> "done", id |-> id, start |-> run[a].start,
                    raised |-> run[a].how = "button" /\ outcome = "failure"]
      /\ handed'[a] = IF run[a].how = "scheduler" /\ outcome = "failure" THEN "error" ELSE "none"
      /\ \A b \in Actions \ {a} : run'[b] = run[b] /\ handed'[b] = handed[b]
      /\ run' = [b \in Actions |-> run'[b]] /\ handed' = [b \in Actions |-> handed'[b]]
  BY <1>1, <1>2, <1>4 DEF His!RunsTyped
<1>raised. /\ run'[a].pc = "done" /\ run'[a].id = id /\ run'[a].start = run[a].start
           /\ run'[a].raised \in BOOLEAN
           /\ run'[a].raised <=> run[a].how = "button" /\ outcome = "failure"
  <2> DEFINE raised == run[a].how = "button" /\ outcome = "failure"
  <2>1. raised \in BOOLEAN
    OBVIOUS
  <2>2. run'[a] = [pc |-> "done", id |-> id, start |-> run[a].start, raised |-> raised]
    BY <1>5
  <2> HIDE DEF raised
  <2>3. /\ run'[a].pc = "done" /\ run'[a].id = id /\ run'[a].start = run[a].start
        /\ run'[a].raised = raised
    BY <2>2
  <2> QED
    BY <2>1, <2>3 DEF raised
<1>6. /\ fate'[id] = outcome /\ fate' = [r \in Runs |-> fate'[r]]
      /\ \A r : r # id => (fate'[r] = fate[r] \/ r \notin Runs)
  BY <1>1, <1>2, <1>4 DEF His!RunsTyped
<1>7. \A b \in Actions \ {a} : His!Busy(b) => run[b].id # id /\ run[b].id \in Runs
  BY <1>1, <1>4 DEF His!RunsApart, His!RunsTyped
<1> HIDE DEF id
<1>8. His!RunsTyped'
  <2>1. ASSUME NEW b \in Actions
        PROVE  /\ run'[b].pc \in {"idle", "running", "done"}
               /\ His!Busy(b)' => run'[b].id \in Runs /\ run'[b].start \in Int
               /\ run'[b].pc = "running" => run'[b].how \in {"scheduler", "button"}
               /\ run'[b].pc = "done" => run'[b].raised \in BOOLEAN
    <3>1. CASE b = a
      BY <1>4, <1>raised, <3>1
    <3>2. CASE b # a
      BY <1>1, <1>5, <3>2 DEF His!RunsTyped, His!Busy
    <3> QED
      BY <3>1, <3>2
  <2> QED
    BY <1>5, <1>6, <2>1 DEF His!RunsTyped
<1>9. His!RunsApart'
  <2> SUFFICES ASSUME NEW b \in Actions, NEW c \in Actions, His!Busy(b)', His!Busy(c)',
                      run'[b].id = run'[c].id
               PROVE  b = c
    BY DEF His!RunsApart
  <2>1. \A d \in Actions : His!Busy(d)' => His!Busy(d) /\ run'[d].id = run[d].id
    BY <1>4, <1>5 DEF His!Busy, id
  <2> QED
    BY <1>1, <2>1 DEF His!RunsApart
<1>10. His!EndsKnown'
  <2>1. ASSUME NEW b \in Actions
        PROVE  /\ run'[b].pc = "running" => fate'[run'[b].id] = "none" /\ handed'[b] = "none"
               /\ run'[b].pc = "done" => fate'[run'[b].id] = His!State(b)'
    <3>1. CASE b = a
      <4>1. His!State(b)' = outcome
        BY <1>4, <1>5, <1>raised, <3>1 DEF His!State
      <4> QED
        BY <1>5, <1>6, <3>1, <4>1
    <3>2. CASE b # a
      <4>1. run'[b] = run[b] /\ handed'[b] = handed[b] /\ His!State(b)' = His!State(b)
        BY <1>5, <3>2 DEF His!State
      <4>2. His!Busy(b) => fate'[run[b].id] = fate[run[b].id]
        BY <1>6, <1>7, <3>2
      <4> QED
        BY <1>1, <4>1, <4>2 DEF His!EndsKnown, His!Busy
    <3> QED
      BY <3>1, <3>2
  <2> QED
    BY <2>1 DEF His!EndsKnown
<1>11. His!RowsOver'
  <2>1. ASSUME NEW row \in history
        PROVE  fate'[row.run] # "none" /\ \A b \in Actions : His!Busy(b)' => run'[b].id # row.run
    <3>1. fate[row.run] # "none" /\ row.run # id /\ \A b \in Actions : His!Busy(b) => run[b].id # row.run
      BY <1>1, <1>4 DEF His!RowsOver, id
    <3>2. fate'[row.run] = fate[row.run]
      BY <1>1, <1>2, <3>1 DEF His!RunsTyped, id
    <3>3. \A d \in Actions : His!Busy(d)' => His!Busy(d) /\ run'[d].id = run[d].id
      BY <1>4, <1>5 DEF His!Busy, id
    <3> QED
      BY <3>1, <3>2, <3>3
  <2> QED
    BY <1>3, <2>1 DEF His!RowsOver
<1>12. His!LimitsKnown' /\ His!HistoryTells'
  BY <1>1, <1>3 DEF His!LimitsKnown, His!HistoryTells, His!NoCleanup
<1> QED
  BY <1>8, <1>9, <1>10, <1>11, <1>12 DEF His!IInv

\* A run that is over and recorded nowhere any more: its record, or its end, is all
\* that changes.
LEMMA RunEnds ==
  ASSUME His!IInv, NEW a \in History.Actions, His!Busy(a), s1' = [s1 EXCEPT ![a] = His!Idle],
         s2' = s2,
         NEW f, s6' = [s6 EXCEPT ![s1[a].id] = f], f # "none",
         NEW rows, s3' = s3 \cup rows, s7' = s7 \cup rows,
         \A row \in rows : row.run = s1[a].id /\ row.start = s1[a].start,
         \A row, other \in rows : row = other,
         UNCHANGED <<s4, s5, s8, s9>>
  PROVE  His!IInv'
<1> DEFINE run == s1  history == s3  fate == s6  owed == s7  expired == s8
           Actions == History.Actions  Runs == History.Runs
<1>1. His!RunsTyped /\ His!RunsApart /\ His!EndsKnown /\ His!RowsOver /\ His!LimitsKnown /\ His!HistoryTells
  BY DEF His!IInv
<1> DEFINE id == run[a].id
<1>2. id \in Runs /\ run[a].start \in Int
  BY <1>1 DEF His!RunsTyped
<1>3. /\ run'[a].pc = "idle" /\ run' = [b \in Actions |-> run'[b]]
      /\ \A b \in Actions \ {a} : run'[b] = run[b]
  BY <1>1 DEF His!RunsTyped, His!Idle
<1>4. /\ fate'[id] = f /\ fate' = [r \in Runs |-> fate'[r]]
  BY <1>1, <1>2 DEF His!RunsTyped
<1>5. \A b \in Actions : His!Busy(b)' => b # a /\ His!Busy(b) /\ run'[b].id = run[b].id /\ run[b].id # id
  BY <1>1, <1>3 DEF His!Busy, His!RunsApart
<1>6. \A b \in Actions : His!Busy(b)' => fate'[run[b].id] = fate[run[b].id]
  BY <1>1, <1>5 DEF His!RunsTyped
<1> HIDE DEF id
<1>7. His!RunsTyped'
  <2>1. ASSUME NEW b \in Actions
        PROVE  /\ run'[b].pc \in {"idle", "running", "done"}
               /\ His!Busy(b)' => run'[b].id \in Runs /\ run'[b].start \in Int
               /\ run'[b].pc = "running" => run'[b].how \in {"scheduler", "button"}
               /\ run'[b].pc = "done" => run'[b].raised \in BOOLEAN
    BY <1>1, <1>3 DEF His!RunsTyped, His!Busy
  <2> QED
    BY <1>1, <1>3, <1>4, <2>1 DEF His!RunsTyped
<1>8. His!RunsApart'
  BY <1>1, <1>5 DEF His!RunsApart
<1>9. His!EndsKnown'
  <2>1. ASSUME NEW b \in Actions, His!Busy(b)'
        PROVE  run'[b] = run[b] /\ His!State(b)' = His!State(b) /\ fate'[run[b].id] = fate[run[b].id]
    BY <1>3, <1>5, <1>6, <2>1 DEF His!State
  <2> QED
    BY <1>1, <2>1 DEF His!EndsKnown, His!Busy
<1>10. His!RowsOver'
  <2>1. ASSUME NEW row \in history
        PROVE  fate'[row.run] # "none" /\ \A b \in Actions : His!Busy(b)' => run'[b].id # row.run
    <3>1. fate[row.run] # "none" /\ row.run # id /\ \A b \in Actions : His!Busy(b) => run[b].id # row.run
      BY <1>1 DEF His!RowsOver, id
    <3>2. fate'[row.run] = fate[row.run]
      BY <1>1, <3>1 DEF His!RunsTyped, id
    <3> QED
      BY <1>5, <3>1, <3>2
  <2>2. ASSUME NEW row \in rows
        PROVE  fate'[row.run] # "none" /\ \A b \in Actions : His!Busy(b)' => run'[b].id # row.run
    BY <1>4, <1>5 DEF id
  <2> QED
    BY <2>1, <2>2 DEF His!RowsOver
<1>11. His!LimitsKnown'
  <2>1. \A row \in owed' : row.start \in Int
    BY <1>1, <1>2 DEF His!LimitsKnown
  <2> QED
    BY <1>1, <2>1 DEF His!LimitsKnown, His!NoCleanup
<1>12. His!HistoryTells'
  <2>1. history' \subseteq owed' /\ \A row \in owed' \ history' : row.start < expired'
    BY <1>1 DEF His!HistoryTells
  <2>2. ASSUME NEW row \in history', NEW other \in history', row.run = other.run
        PROVE  row = other
    <3>1. \A old \in history : old.run # id
      BY <1>1 DEF His!RowsOver, id
    <3> QED
      BY <1>1, <2>2, <3>1 DEF His!HistoryTells, id
  <2> QED
    BY <2>1, <2>2 DEF His!HistoryTells
<1> QED
  BY <1>7, <1>8, <1>9, <1>10, <1>11, <1>12 DEF His!IInv

LEMMA RunIsRecorded ==
  ASSUME His!IInv, NEW a \in History.Actions, His!Record(a)
  PROVE  His!IInv'
<1> DEFINE run == s1  handed == s2  history == s3  config == s4  cleanup == s5  fate == s6
           owed == s7  expired == s8  now == s9  edits == s10  Runs == History.Runs
<1> DEFINE row == [run |-> run[a].id, start |-> run[a].start, state |-> His!State(a)]
<1>1. His!RunsTyped /\ His!EndsKnown /\ His!Busy(a) /\ run[a].pc = "done"
  BY DEF His!IInv, His!Record, His!Busy
<1>2. /\ run' = [run EXCEPT ![a] = His!Idle] /\ UNCHANGED <<handed, config, cleanup, fate, expired, now, edits>>
  BY DEF His!Record
<1>3. fate[run[a].id] = His!State(a) /\ His!State(a) # "none" /\ run[a].id \in Runs
  BY <1>1 DEF His!EndsKnown, His!State, His!RunsTyped
<1>4. fate' = [fate EXCEPT ![run[a].id] = His!State(a)]
  BY <1>1, <1>2, <1>3 DEF His!RunsTyped
<1>5. [row EXCEPT !.state = fate[row.run]] = row
  BY <1>3
<1>6. PICK rows \in {{}, {row}} : history' = history \cup rows /\ owed' = owed \cup rows
  <2>1. CASE history' = His!Recorded(row) /\ owed' = owed \cup {[row EXCEPT !.state = fate[row.run]]}
    BY <1>5, <2>1 DEF His!Recorded
  <2>2. CASE UNCHANGED <<history, owed>>
    BY <2>2
  <2> QED
    BY <2>1, <2>2 DEF His!Record
<1>7. /\ \A r \in rows : r.run = run[a].id /\ r.start = run[a].start
      /\ \A r, other \in rows : r = other
  BY <1>6
<1> QED
  BY <1>1, <1>2, <1>3, <1>4, <1>6, <1>7, RunEnds

LEMMA RunIsKilled ==
  ASSUME His!IInv, NEW a \in History.Actions, His!Killed(a)
  PROVE  His!IInv'
<1> DEFINE run == s1  handed == s2  history == s3  config == s4  cleanup == s5  fate == s6
           owed == s7  expired == s8  now == s9
<1> DEFINE rows == {}
           killed == "killed"
<1>1. /\ His!Busy(a) /\ run' = [run EXCEPT ![a] = His!Idle] /\ handed' = handed
      /\ fate' = [fate EXCEPT ![run[a].id] = killed] /\ killed # "none"
      /\ history' = history \cup rows /\ owed' = owed \cup rows
      /\ config' = config /\ cleanup' = cleanup /\ expired' = expired /\ now' = now
  BY DEF His!Killed, His!Busy
<1>2. /\ \A row \in rows : row.run = run[a].id /\ row.start = run[a].start
      /\ \A row, other \in rows : row = other
  OBVIOUS
<1> HIDE DEF rows, killed
<1> QED
  BY <1>1, <1>2, RunEnds

\* What leaves the runs alone keeps all that is known of them.
LEMMA RunsKept ==
  ASSUME His!IInv, UNCHANGED <<s1, s2, s6, s7>>, s3' \subseteq s3, His!LimitsKnown',
         \A row \in s7 \ s3' : row.start < s8'
  PROVE  His!IInv'
<1>1. His!RunsTyped' /\ His!RunsApart' /\ His!EndsKnown'
  BY DEF His!IInv, His!RunsTyped, His!RunsApart, His!EndsKnown, His!Busy, His!State
<1>2. His!RowsOver' /\ His!HistoryTells'
  BY DEF His!IInv, His!RowsOver, His!HistoryTells, His!Busy
<1> QED
  BY <1>1, <1>2 DEF His!IInv

LEMMA CleanupBegins ==
  ASSUME His!IInv, His!CleanupStart
  PROVE  His!IInv'
<1> DEFINE run == s1  handed == s2  history == s3  config == s4  cleanup == s5  fate == s6
           owed == s7  expired == s8  now == s9  edits == s10  MaxBatches == History.MaxBatches
<1>1. His!LimitsKnown /\ His!HistoryTells
  BY DEF His!IInv
<1>2. /\ cleanup' = [limit |-> now - config.days, batches |-> MaxBatches]
      /\ expired' = His!Max({expired, now - config.days})
      /\ UNCHANGED <<run, handed, history, config, fate, owed, now, edits>>
  BY DEF His!CleanupStart
<1>3. now - config.days \in Int /\ expired \in Int
  BY <1>1 DEF His!LimitsKnown
<1>4. expired' \in Int /\ expired' >= expired /\ expired' >= now - config.days
  BY <1>2, <1>3, LimitsMeet
<1>5. His!LimitsKnown'
  BY <1>1, <1>2, <1>3, <1>4 DEF His!LimitsKnown
<1>6. ASSUME NEW row \in owed \ history PROVE row.start < expired'
  <2>1. row.start \in Int /\ row.start < expired
    BY <1>1 DEF His!LimitsKnown, His!HistoryTells
  <2> QED
    BY <1>3, <1>4, <2>1
<1> QED
  BY <1>2, <1>5, <1>6, RunsKept

LEMMA BatchGoes ==
  ASSUME His!IInv, His!CleanupBatch
  PROVE  His!IInv'
<1> DEFINE run == s1  handed == s2  history == s3  config == s4  cleanup == s5  fate == s6
           owed == s7  expired == s8  now == s9  edits == s10  BatchLimit == History.BatchLimit
<1> DEFINE batch == His!Batch(cleanup.limit)
<1>1. His!LimitsKnown /\ His!HistoryTells
  BY DEF His!IInv
<1>2. /\ cleanup # His!NoCleanup /\ history' = history \ batch
      /\ cleanup' = IF His!Cardinality(batch) < BatchLimit \/ cleanup.batches = 1 THEN His!NoCleanup
                    ELSE [cleanup EXCEPT !.batches = @ - 1]
      /\ UNCHANGED <<run, handed, config, fate, owed, expired, now, edits>>
  BY DEF His!CleanupBatch
<1>3. \A row \in batch : row.start < cleanup.limit
  BY DEF His!Batch, His!Expired
<1> HIDE DEF batch
<1>4. ASSUME NEW row \in owed \ history' PROVE row.start < expired
  <2>1. CASE row \in history
    <3>1. row.start < cleanup.limit /\ row.start \in Int /\ cleanup.limit \in Int /\ cleanup.limit <= expired
      BY <1>1, <1>2, <1>3, <1>4, <2>1 DEF His!LimitsKnown
    <3>2. expired \in Int
      BY <1>1 DEF His!LimitsKnown
    <3> QED
      BY <3>1, <3>2
  <2>2. CASE row \notin history
    BY <1>1, <1>2, <1>4, <2>2 DEF His!HistoryTells
  <2> QED
    BY <2>1, <2>2
<1>5. His!LimitsKnown'
  <2>1. CASE cleanup' = His!NoCleanup
    <3>1. cleanup' = [limit |-> cleanup'.limit, batches |-> cleanup'.batches]
      BY <2>1 DEF His!NoCleanup
    <3> QED
      BY <1>1, <1>2, <2>1, <3>1 DEF His!LimitsKnown
  <2>2. CASE cleanup' = [cleanup EXCEPT !.batches = @ - 1]
    <3>1. /\ cleanup' = [limit |-> cleanup'.limit, batches |-> cleanup'.batches]
          /\ cleanup'.limit = cleanup.limit
      BY <1>1, <2>2 DEF His!LimitsKnown
    <3> QED
      BY <1>1, <1>2, <3>1 DEF His!LimitsKnown
  <2> QED
    BY <1>2, <2>1, <2>2
<1> QED
  BY <1>2, <1>4, <1>5, RunsKept

LEMMA HistoryStep ==
  ASSUME His!Proper, His!IInv, [His!Next]_(His!vars)
  PROVE  His!IInv'
<1> DEFINE run == s1  handed == s2  history == s3  config == s4  cleanup == s5  fate == s6
           owed == s7  expired == s8  now == s9  edits == s10  Actions == History.Actions
           Retentions == History.Retentions
<1>1. His!LimitsKnown /\ \A row \in owed \ history : row.start < expired
  BY DEF His!IInv, His!HistoryTells
<1>2. ASSUME NEW a \in Actions, His!Start(a) \/ His!Body(a) \/ His!Record(a) \/ His!Killed(a)
      PROVE  His!IInv'
  BY <1>2, RunStarts, BodyKnown, RunIsRecorded, RunIsKilled
<1>3. CASE His!CleanupDies
  <2>1. /\ cleanup' = His!NoCleanup
        /\ UNCHANGED <<run, handed, history, config, fate, owed, expired, now, edits>>
    BY <1>3 DEF His!CleanupDies
  <2>2. cleanup' = [limit |-> cleanup'.limit, batches |-> cleanup'.batches]
    BY <2>1 DEF His!NoCleanup
  <2>3. His!LimitsKnown'
    BY <1>1, <2>1, <2>2 DEF His!LimitsKnown
  <2> QED
    BY <1>1, <2>1, <2>3, RunsKept
<1>4. CASE His!SetConfig
  <2>1. /\ config' \in [enabled : BOOLEAN, success : BOOLEAN, days : Retentions]
        /\ UNCHANGED <<run, handed, history, cleanup, fate, owed, expired, now>>
    BY <1>4 DEF His!SetConfig
  <2>2. config'.days \in Int
    BY <2>1 DEF His!Proper
  <2>3. His!LimitsKnown'
    BY <1>1, <2>1, <2>2 DEF His!LimitsKnown, His!NoCleanup
  <2> QED
    BY <1>1, <2>1, <2>3, RunsKept
<1>5. CASE His!Tick \/ UNCHANGED His!vars
  <2>1. /\ now' \in Int
        /\ UNCHANGED <<run, handed, history, config, cleanup, fate, owed, expired>>
    BY <1>1, <1>5 DEF His!Tick, His!vars, His!LimitsKnown
  <2>2. His!LimitsKnown'
    BY <1>1, <2>1 DEF His!LimitsKnown, His!NoCleanup
  <2> QED
    BY <1>1, <2>1, <2>2, RunsKept
<1> QED
  BY <1>2, <1>3, <1>4, <1>5, CleanupBegins, BatchGoes DEF His!Next
-----------------------------------------------------------------------------
(* ConfigAudit: the rows of a change say what it makes of the parameters   *)
(* it holds, and are later than those there are about them.                *)

LEMMA AuditBegins ==
  ASSUME Aud!Proper, Aud!Init
  PROVE  Aud!IInv
<1> DEFINE param == s1  Changers == Audit.Changers
<1>1. \A c \in Changers : ~Aud!Open(c)
  BY DEF Aud!Init, Aud!Open, Aud!NoTx
<1>2. Aud!ValuesOf(param)
  BY DEF Aud!Init, Aud!ValuesOf, Aud!Proper
<1>3. Aud!TrailTells
  BY DEF Aud!Init, Aud!TrailTells, Aud!Proper, Aud!About
<1> QED
  BY <1>1, <1>2, <1>3 DEF Aud!Init, Aud!IInv, Aud!AuditTyped, Aud!Apart

\* A transaction that begins: the change it makes, and the rows about it.
LEMMA ChangeBegins ==
  ASSUME Aud!Proper, Aud!IInv, NEW c \in Audit.Changers, NEW op, NEW set, NEW gone, NEW changes,
         Aud!Change(c, op, set, gone, changes), Aud!ValuesOf(set),
         \A k \in DOMAIN set \cup gone : \E ch \in changes : k \in ch.keys,
         \A ch \in changes : \A k \in ch.keys :
           IF k = ch.key /\ op # "unlink" THEN k \in DOMAIN set /\ ch.new = set[k]
           ELSE k \in gone \ DOMAIN set
  PROVE  Aud!IInv'
<1> DEFINE param == s1  log == s2  tx == s3  told == s4  now == s5  edits == s6
           Changers == Audit.Changers
<1>1. Aud!AuditTyped /\ Aud!Apart /\ Aud!TrailTells /\ \A d \in Changers : Aud!Open(d) => Aud!ChangeTells(tx[d])
  BY DEF Aud!IInv
<1> DEFINE after == Aud!With(param, set, gone)
           rows == Aud!Rows(op, after, changes)
<1>2. PICK recorded \in BOOLEAN :
        tx' = [tx EXCEPT ![c] =
          [pc |-> "open", set |-> set, gone |-> gone, recorded |-> recorded,
           rows |-> IF recorded THEN rows ELSE {}]]
  BY DEF Aud!Change
<1>3. /\ ~Aud!Open(c) /\ edits' = edits + 1 /\ UNCHANGED <<param, log, told, now>>
      /\ (DOMAIN set \cup gone) \cap Aud!Locked = {}
  BY DEF Aud!Change, Aud!Open
<1> DEFINE kept == IF recorded THEN rows ELSE {}
           t == [pc |-> "open", set |-> set, gone |-> gone, recorded |-> recorded, rows |-> kept]
<1>4. ASSUME NEW r \in rows
      PROVE  /\ r.date = now /\ r.id = edits
             /\ \A k \in r.keys : Aud!Says(r, k, set, gone)
  <2>1. PICK ch \in changes :
          r = [op |-> op, keys |-> ch.keys, key |-> ch.key, id |-> edits, date |-> now,
               new |-> Aud!Shown(after, ch.keys, ch.key, ch.new)]
    BY <1>4 DEF Aud!Rows
  <2> HIDE DEF after
  <2>2. r.new \in {Aud!Masked, ch.new}
    BY <2>1 DEF Aud!Shown
  <2> QED
    BY <2>1, <2>2 DEF Aud!Says
<1>5. ASSUME NEW k \in (DOMAIN set \cup gone) \cap Aud!AuditedAlways
      PROVE  \E r \in rows : k \in r.keys
  <2>1. PICK ch \in changes : k \in ch.keys
    OBVIOUS
  <2>2. ~Aud!Skip(after, ch.keys, ch.key)
    BY <1>5, <2>1 DEF Aud!Skip
  <2> DEFINE r == [op |-> op, keys |-> ch.keys, key |-> ch.key, id |-> edits, date |-> now,
                   new |-> Aud!Shown(after, ch.keys, ch.key, ch.new)]
  <2>3. r \in rows
    BY <2>2 DEF Aud!Rows
  <2>4. r.keys = ch.keys
    OBVIOUS
  <2> HIDE DEF r, rows
  <2> QED
    BY <2>1, <2>3, <2>4
<1> HIDE DEF rows, after
<1>6. /\ tx'[c] = t /\ tx' = [d \in Changers |-> tx'[d]]
      /\ \A d \in Changers \ {c} : tx'[d] = tx[d]
  BY <1>1, <1>2 DEF Aud!AuditTyped
<1>7. /\ t.set = set /\ t.gone = gone /\ (t.recorded <=> recorded) /\ t.rows = kept /\ t.pc = "open"
      /\ Aud!Changed(t) = DOMAIN set \cup gone
  BY DEF Aud!Changed
<1>8. \A r \in kept : r \in rows /\ recorded
  OBVIOUS
<1>9. recorded => kept = rows
  OBVIOUS
<1> HIDE DEF kept, t
<1>10. \A r \in log : Aud!Dated(r)'
  BY <1>1, <1>3 DEF Aud!AuditTyped, Aud!Dated
<1>11. Aud!AuditTyped'
  BY <1>1, <1>3, <1>6, <1>10 DEF Aud!AuditTyped, Aud!ValuesOf
<1>12. ASSUME NEW d \in Changers, d # c, Aud!Open(d)
       PROVE  Aud!Changed(tx[d]) \cap (DOMAIN set \cup gone) = {}
  BY <1>3, <1>12 DEF Aud!Locked, Aud!Changed, Aud!Open
<1>13. Aud!Apart'
  <2> SUFFICES ASSUME NEW d \in Changers, NEW e \in Changers, Aud!Open(d)', Aud!Open(e)', d # e
               PROVE  Aud!Changed(tx'[d]) \cap Aud!Changed(tx'[e]) = {}
    BY DEF Aud!Apart, Aud!Changed
  <2>1. CASE d # c /\ e # c
    BY <1>1, <1>6, <2>1 DEF Aud!Apart, Aud!Open
  <2>2. CASE d = c
    BY <1>6, <1>7, <1>12, <2>2 DEF Aud!Open
  <2>3. CASE e = c
    BY <1>6, <1>7, <1>12, <2>3 DEF Aud!Open
  <2> QED
    BY <2>1, <2>2, <2>3
<1>14. ASSUME NEW r \in kept
       PROVE  /\ r.date = now /\ r.id = edits /\ \A k \in r.keys : Aud!Says(r, k, set, gone)
  BY <1>4, <1>8
<1>15. ASSUME NEW d \in Changers, Aud!Open(d)'
       PROVE  Aud!ChangeTells(tx[d])'
  <2>1. CASE d = c
    <3>1. Aud!ValuesOf(tx'[c].set)
      BY <1>6, <1>7
    <3>2. tx'[c].recorded => \A k \in Aud!Changed(tx'[c]) \cap Aud!AuditedAlways : \E r \in tx'[c].rows : k \in r.keys
      BY <1>5, <1>6, <1>7, <1>9
    <3>3. \A r \in tx'[c].rows : Aud!Dated(r)' /\ \A k \in r.keys : Aud!Says(r, k, tx'[c].set, tx'[c].gone)
      BY <1>1, <1>3, <1>6, <1>7, <1>14 DEF Aud!Dated, Aud!AuditTyped
    <3>4. \A r \in tx'[c].rows, q \in log' : Aud!Later(r, q)
      BY <1>1, <1>3, <1>6, <1>7, <1>14 DEF Aud!Later, Aud!AuditTyped, Aud!Dated
    <3> QED
      BY <2>1, <3>1, <3>2, <3>3, <3>4 DEF Aud!ChangeTells, Aud!ValuesOf, Aud!Changed, Aud!Says
  <2>2. CASE d # c
    <3>1. tx'[d] = tx[d] /\ Aud!ChangeTells(tx[d])
      BY <1>1, <1>6, <1>15, <2>2 DEF Aud!Open
    <3>2. \A r \in tx[d].rows : Aud!Dated(r)'
      BY <1>1, <1>3, <3>1 DEF Aud!Dated, Aud!AuditTyped, Aud!ChangeTells
    <3> QED
      BY <1>3, <3>1, <3>2 DEF Aud!ChangeTells
  <2> QED
    BY <2>1, <2>2
<1>16. Aud!TrailTells'
  BY <1>1, <1>3 DEF Aud!TrailTells, Aud!About, Aud!Later
<1> QED
  BY <1>11, <1>13, <1>15, <1>16 DEF Aud!IInv

LEMMA EachChange ==
  ASSUME Aud!Proper, Aud!IInv, NEW c \in Audit.Changers,
         Aud!Create(c) \/ Aud!WriteValue(c) \/ Aud!Rename(c) \/ Aud!Unlink(c)
  PROVE  Aud!IInv'
<1> DEFINE param == s1  Keys == Audit.Keys  Values == Audit.Values
<1>1. Aud!ValuesOf(param)
  BY DEF Aud!IInv, Aud!AuditTyped
<1>2. CASE Aud!Create(c)
  <2>1. PICK ks \in (SUBSET (Keys \ DOMAIN param)) \ {{}}, v \in Values :
          Aud!Change(c, "create", [k \in ks |-> v], {}, {Aud!Single(k, v) : k \in ks})
    BY <1>2 DEF Aud!Create
  <2> DEFINE set == [k \in ks |-> v]
             changes == {Aud!Single(k, v) : k \in ks}
  <2>2. Aud!ValuesOf(set) /\ DOMAIN set = ks /\ \A k \in ks : set[k] = v
    BY DEF Aud!ValuesOf
  <2>3. \A ch \in changes : ch.keys = {ch.key} /\ ch.key \in ks /\ ch.new = v
    BY DEF Aud!Single
  <2>4. ASSUME NEW k \in ks PROVE \E ch \in changes : k \in ch.keys
    <3>1. Aud!Single(k, v) \in changes /\ k \in Aud!Single(k, v).keys
      BY DEF Aud!Single
    <3> QED
      BY <3>1
  <2> HIDE DEF set, changes
  <2>5. \A ch \in changes : \A k \in ch.keys :
          IF k = ch.key /\ "create" # "unlink" THEN k \in DOMAIN set /\ ch.new = set[k]
          ELSE k \in {} \ DOMAIN set
    BY <2>2, <2>3
  <2>6. \A k \in DOMAIN set \cup {} : \E ch \in changes : k \in ch.keys
    BY <2>2, <2>4
  <2>7. Aud!Change(c, "create", set, {}, changes)
    BY <2>1 DEF set, changes
  <2> QED
    BY <2>2, <2>5, <2>6, <2>7, ChangeBegins
<1>3. CASE Aud!WriteValue(c)
  <2>1. PICK ks \in (SUBSET DOMAIN param) \ {{}}, v \in Values :
          LET new == {k \in ks : param[k] # v}
          IN  Aud!Change(c, "write", [k \in new |-> v], {}, {Aud!Single(k, v) : k \in new})
    BY <1>3 DEF Aud!WriteValue
  <2> DEFINE new == {k \in ks : param[k] # v}
             set == [k \in new |-> v]
             changes == {Aud!Single(k, v) : k \in new}
  <2>2. Aud!ValuesOf(set) /\ DOMAIN set = new /\ \A k \in new : set[k] = v
    BY <1>1 DEF Aud!ValuesOf
  <2>3. Aud!Change(c, "write", set, {}, changes)
    BY <2>1
  <2> HIDE DEF new
  <2>4. \A ch \in changes : ch.keys = {ch.key} /\ ch.key \in new /\ ch.new = v
    BY DEF Aud!Single
  <2>5. ASSUME NEW k \in new PROVE \E ch \in changes : k \in ch.keys
    <3>1. Aud!Single(k, v) \in changes /\ k \in Aud!Single(k, v).keys
      BY DEF Aud!Single
    <3> QED
      BY <3>1
  <2> HIDE DEF set, changes
  <2>6. \A ch \in changes : \A k \in ch.keys :
          IF k = ch.key /\ "write" # "unlink" THEN k \in DOMAIN set /\ ch.new = set[k]
          ELSE k \in {} \ DOMAIN set
    BY <2>2, <2>4
  <2>7. \A k \in DOMAIN set \cup {} : \E ch \in changes : k \in ch.keys
    BY <2>2, <2>5
  <2> QED
    BY <2>2, <2>3, <2>6, <2>7, ChangeBegins
<1>4. CASE Aud!Rename(c)
  <2>1. PICK k \in DOMAIN param, to \in Keys \ DOMAIN param, v \in Values :
          Aud!Change(c, "write", [x \in {to} |-> v], {k},
                 {[keys |-> {k, to}, key |-> to, new |-> v]})
    BY <1>4 DEF Aud!Rename
  <2> DEFINE set == [x \in {to} |-> v]
             ch == [keys |-> {k, to}, key |-> to, new |-> v]
             changes == {ch}
  <2>2. Aud!ValuesOf(set) /\ DOMAIN set = {to} /\ set[to] = v /\ k # to
    BY DEF Aud!ValuesOf
  <2>3. Aud!Change(c, "write", set, {k}, changes)
    BY <2>1
  <2>4. ch.keys = {k, to} /\ ch.key = to /\ ch.new = v
    OBVIOUS
  <2> HIDE DEF set, ch
  <2>5. \A d \in changes : \A x \in d.keys :
          IF x = d.key /\ "write" # "unlink" THEN x \in DOMAIN set /\ d.new = set[x]
          ELSE x \in {k} \ DOMAIN set
    BY <2>2, <2>4
  <2>6. \A x \in DOMAIN set \cup {k} : \E d \in changes : x \in d.keys
    BY <2>2, <2>4
  <2> HIDE DEF changes
  <2> QED
    BY <2>2, <2>3, <2>5, <2>6, ChangeBegins
<1>5. CASE Aud!Unlink(c)
  <2>1. PICK ks \in (SUBSET DOMAIN param) \ {{}} :
          Aud!Change(c, "unlink", <<>>, ks, {Aud!Single(k, Aud!Nothing) : k \in ks})
    BY <1>5 DEF Aud!Unlink
  <2> DEFINE set == <<>>
             changes == {Aud!Single(k, Aud!Nothing) : k \in ks}
  <2>2. Aud!ValuesOf(set) /\ DOMAIN set = {}
    BY DEF Aud!ValuesOf
  <2>3. Aud!Change(c, "unlink", set, ks, changes)
    BY <2>1
  <2>4. \A ch \in changes : ch.keys = {ch.key} /\ ch.key \in ks
    BY DEF Aud!Single
  <2>5. ASSUME NEW k \in ks PROVE \E ch \in changes : k \in ch.keys
    <3>1. Aud!Single(k, Aud!Nothing) \in changes /\ k \in Aud!Single(k, Aud!Nothing).keys
      BY DEF Aud!Single
    <3> QED
      BY <3>1
  <2> HIDE DEF set, changes
  <2>6. \A ch \in changes : \A k \in ch.keys :
          IF k = ch.key /\ "unlink" # "unlink" THEN k \in DOMAIN set /\ ch.new = set[k]
          ELSE k \in ks \ DOMAIN set
    BY <2>2, <2>4
  <2>7. \A k \in DOMAIN set \cup ks : \E ch \in changes : k \in ch.keys
    BY <2>2, <2>5
  <2> QED
    BY <2>2, <2>3, <2>6, <2>7, ChangeBegins
<1> QED
  BY <1>2, <1>3, <1>4, <1>5

\* A transaction that ends, whatever it leaves: the others hold what they held.
LEMMA OthersGoOn ==
  ASSUME Aud!IInv, NEW c \in Audit.Changers, s3' = [s3 EXCEPT ![c] = Aud!NoTx], s5' = s5, s6' = s6,
         Aud!ValuesOf(s1'),
         \A r \in s2' \ s2 : Aud!Open(c) /\ r \in s3[c].rows, Aud!TrailTells'
  PROVE  Aud!IInv'
<1> DEFINE log == s2  tx == s3  Changers == Audit.Changers
<1>1. Aud!AuditTyped /\ Aud!Apart /\ \A d \in Changers : Aud!Open(d) => Aud!ChangeTells(tx[d])
  BY DEF Aud!IInv
<1>2. /\ tx' = [d \in Changers |-> tx'[d]] /\ tx'[c].pc # "open"
      /\ \A d \in Changers \ {c} : tx'[d] = tx[d]
  BY <1>1 DEF Aud!AuditTyped, Aud!NoTx
<1>3. \A r \in log' : Aud!Dated(r)'
  BY <1>1 DEF Aud!AuditTyped, Aud!ChangeTells, Aud!Dated
<1>4. Aud!AuditTyped'
  BY <1>1, <1>2, <1>3 DEF Aud!AuditTyped, Aud!ValuesOf
<1>5. Aud!Apart'
  BY <1>1, <1>2 DEF Aud!Apart, Aud!Open, Aud!Changed
<1>6. ASSUME NEW d \in Changers, Aud!Open(d)'
      PROVE  Aud!ChangeTells(tx[d])'
  <2>1. d # c /\ tx'[d] = tx[d] /\ Aud!Open(d) /\ Aud!ChangeTells(tx[d])
    BY <1>1, <1>2, <1>6 DEF Aud!Open
  <2>2. ASSUME NEW r \in tx[d].rows, NEW q \in log', Aud!Changed(tx[d]) \cap q.keys # {}
        PROVE  Aud!Later(r, q)
    <3>1. CASE q \in log
      BY <2>1, <2>2, <3>1 DEF Aud!ChangeTells
    <3>2. CASE q \notin log
      <4>1. q.keys \subseteq Aud!Changed(tx[c]) /\ Aud!Open(c)
        BY <1>1, <3>2 DEF Aud!ChangeTells, Aud!Says, Aud!Changed
      <4> QED
        BY <1>1, <2>1, <2>2, <4>1 DEF Aud!Apart
    <3> QED
      BY <3>1, <3>2
  <2>3. \A r \in tx[d].rows : Aud!Dated(r)'
    BY <2>1 DEF Aud!ChangeTells, Aud!Dated
  <2> QED
    BY <2>1, <2>2, <2>3 DEF Aud!ChangeTells, Aud!ValuesOf, Aud!Changed, Aud!Says
<1> QED
  BY <1>4, <1>5, <1>6 DEF Aud!IInv

LEMMA CommitTells ==
  ASSUME Aud!Proper, Aud!IInv, NEW c \in Audit.Changers, Aud!Commit(c)
  PROVE  Aud!TrailTells' /\ Aud!ValuesOf(s1')
<1> DEFINE param == s1  log == s2  tx == s3  told == s4  Keys == Audit.Keys
<1> DEFINE t == tx[c]
<1>1. Aud!TrailTells /\ Aud!ChangeTells(t) /\ Aud!AuditTyped
  BY DEF Aud!IInv, Aud!Commit, Aud!Open
<1>2. /\ param' = Aud!With(param, t.set, t.gone) /\ log' = log \cup t.rows
      /\ told' = [k \in Keys |->
           IF k \notin Aud!Changed(t) THEN told[k]
           ELSE IF \E r \in t.rows : k \in r.keys THEN "told"
           ELSE IF t.recorded THEN "skipped" ELSE "lost"]
  BY DEF Aud!Commit
<1> HIDE DEF t
<1>3. ASSUME NEW k \in Aud!AuditedAlways
      PROVE  told'[k] # "skipped"
  <2>1. k \in Keys /\ told[k] # "skipped"
    BY <1>1, <1>3 DEF Aud!Proper, Aud!TrailTells
  <2>2. k \in Aud!Changed(t) /\ t.recorded => \E r \in t.rows : k \in r.keys
    BY <1>1 DEF Aud!ChangeTells
  <2> QED
    BY <1>2, <2>1, <2>2
<1>4. \A r \in t.rows : \A k \in r.keys : k \in Aud!Changed(t) /\ Aud!Says(r, k, t.set, t.gone)
  BY <1>1 DEF Aud!ChangeTells, Aud!Says, Aud!Changed
<1>5. /\ DOMAIN param' = (DOMAIN param \ t.gone) \cup DOMAIN t.set
      /\ \A k \in DOMAIN param' : param'[k] = IF k \in DOMAIN t.set THEN t.set[k] ELSE param[k]
  BY <1>2 DEF Aud!With
<1>6. ASSUME NEW k \in Keys, told'[k] = "told", NEW r \in log', k \in r.keys,
             \A q \in log' : k \in q.keys => ~Aud!Later(q, r)
      PROVE  IF k = r.key /\ r.op # "unlink"
             THEN k \in DOMAIN param' /\ r.new \in {Aud!Masked, param'[k]}
             ELSE k \notin DOMAIN param'
  <2>1. CASE k \in Aud!Changed(t)
    <3>1. PICK new \in t.rows : k \in new.keys
      BY <1>2, <1>6, <2>1
    <3>2. r \in t.rows
      <4> SUFFICES ASSUME r \in log PROVE FALSE
        BY <1>2
      <4>1. Aud!Later(new, r)
        BY <1>1, <1>6, <2>1, <3>1 DEF Aud!ChangeTells
      <4> QED
        BY <1>2, <1>6, <3>1, <4>1
    <3>3. Aud!Says(r, k, t.set, t.gone)
      BY <1>4, <1>6, <3>2
    <3> QED
      BY <1>5, <3>3 DEF Aud!Says
  <2>2. CASE k \notin Aud!Changed(t)
    <3>1. r \in log
      BY <1>2, <1>4, <1>6, <2>2
    <3>2. told[k] = "told" /\ \A q \in Aud!About(k) : ~Aud!Later(q, r)
      BY <1>2, <1>6, <2>2 DEF Aud!About
    <3>3. IF k = r.key /\ r.op # "unlink"
          THEN k \in DOMAIN param /\ r.new \in {Aud!Masked, param[k]}
          ELSE k \notin DOMAIN param
      BY <1>1, <1>6, <3>1, <3>2 DEF Aud!TrailTells, Aud!About
    <3>4. (k \in DOMAIN param' <=> k \in DOMAIN param) /\ (k \in DOMAIN param => param'[k] = param[k])
      BY <1>5, <2>2 DEF Aud!Changed
    <3> QED
      BY <3>3, <3>4
  <2> QED
    BY <2>1, <2>2
<1>7. Aud!TrailTells'
  BY <1>3, <1>6 DEF Aud!TrailTells, Aud!About, Aud!Later
<1>8. Aud!ValuesOf(param')
  BY <1>1, <1>5 DEF Aud!AuditTyped, Aud!ChangeTells, Aud!ValuesOf
<1> QED
  BY <1>7, <1>8

\* What a removal leaves of the rows about a parameter is what is young, or it is
\* cut: the last row is still the last.
LEMMA PurgeTells ==
  ASSUME Aud!Proper, Aud!IInv, Aud!Purge
  PROVE  Aud!TrailTells'
<1> DEFINE param == s1  log == s2  told == s4  now == s5  Keys == Audit.Keys
<1>1. Aud!TrailTells /\ Aud!AuditTyped
  BY DEF Aud!IInv
<1>2. PICK removed \in SUBSET Aud!Expired :
        /\ log' = log \ removed
        /\ told' = [k \in Keys |->
             IF \E r \in removed, q \in Aud!Expired \ removed : k \in r.keys \cap q.keys
             THEN "cut" ELSE told[k]]
  BY DEF Aud!Purge
<1>3. param' = param
  BY DEF Aud!Purge
<1>4. Aud!Retention(param) \in Int
  BY <1>1 DEF Aud!Retention, Aud!Proper, Aud!AuditTyped, Aud!ValuesOf
<1>5. \A k \in Aud!AuditedAlways : told'[k] # "skipped"
  BY <1>1, <1>2 DEF Aud!TrailTells, Aud!Proper
<1>6. ASSUME NEW k \in Keys, told'[k] = "told", NEW r \in log', k \in r.keys,
             \A q \in log' : k \in q.keys => ~Aud!Later(q, r)
      PROVE  IF k = r.key /\ r.op # "unlink"
             THEN k \in DOMAIN param' /\ r.new \in {Aud!Masked, param'[k]}
             ELSE k \notin DOMAIN param'
  <2>1. told[k] = "told"
    BY <1>2, <1>6
  <2>2. ASSUME NEW q \in Aud!About(k)
        PROVE  ~Aud!Later(q, r)
    <3>1. CASE q \in removed
      <4>1. r \notin Aud!Expired
        BY <1>2, <1>6, <2>2, <3>1 DEF Aud!About
      <4>2. Aud!Retention(param) # 0 /\ q.date < now - Aud!Retention(param)
        BY <1>2, <3>1 DEF Aud!Expired
      <4>3. ~(r.date < now - Aud!Retention(param))
        BY <1>2, <1>6, <4>1, <4>2 DEF Aud!Expired
      <4>4. q.date \in Int /\ r.date \in Int /\ now \in Int
        BY <1>1, <1>2, <1>6, <2>2 DEF Aud!AuditTyped, Aud!About, Aud!Dated
      <4> QED
        BY <1>4, <4>2, <4>3, <4>4 DEF Aud!Later
    <3>2. CASE q \notin removed
      BY <1>2, <1>6, <2>2, <3>2 DEF Aud!About
    <3> QED
      BY <3>1, <3>2
  <2> QED
    BY <1>1, <1>2, <1>3, <1>6, <2>1, <2>2 DEF Aud!TrailTells, Aud!About
<1> QED
  BY <1>5, <1>6 DEF Aud!TrailTells, Aud!About, Aud!Later

LEMMA AuditStep ==
  ASSUME Aud!Proper, Aud!IInv, [Aud!Next]_(Aud!vars)
  PROVE  Aud!IInv'
<1> DEFINE param == s1  log == s2  tx == s3  told == s4  now == s5  edits == s6
           Changers == Audit.Changers
<1>1. Aud!AuditTyped /\ Aud!Apart /\ Aud!TrailTells /\ \A c \in Changers : Aud!Open(c) => Aud!ChangeTells(tx[c])
  BY DEF Aud!IInv
<1>2. ASSUME NEW c \in Changers, Aud!Commit(c)
      PROVE  Aud!IInv'
  <2>1. /\ tx' = [tx EXCEPT ![c] = Aud!NoTx] /\ now' = now /\ edits' = edits
        /\ log' = log \cup tx[c].rows /\ Aud!Open(c)
    BY <1>2 DEF Aud!Commit, Aud!Open
  <2>2. \A r \in log' \ log : Aud!Open(c) /\ r \in tx[c].rows
    BY <2>1
  <2> QED
    BY <1>2, <2>1, <2>2, CommitTells, OthersGoOn
<1>3. ASSUME NEW c \in Changers, Aud!Rollback(c)
      PROVE  Aud!IInv'
  <2>1. /\ tx' = [tx EXCEPT ![c] = Aud!NoTx] /\ now' = now /\ edits' = edits
        /\ log' = log /\ param' = param /\ told' = told
    BY <1>3 DEF Aud!Rollback
  <2>2. Aud!TrailTells' /\ Aud!ValuesOf(param') /\ \A r \in log' \ log : Aud!Open(c) /\ r \in tx[c].rows
    BY <1>1, <2>1 DEF Aud!TrailTells, Aud!About, Aud!Later, Aud!AuditTyped
  <2> QED
    BY <2>1, <2>2, OthersGoOn
<1>4. CASE Aud!Purge
  <2>1. log' \subseteq log /\ UNCHANGED <<param, tx, now, edits>>
    BY <1>4 DEF Aud!Purge
  <2>2. Aud!AuditTyped' /\ Aud!Apart'
    BY <1>1, <2>1 DEF Aud!AuditTyped, Aud!Apart, Aud!ValuesOf, Aud!Dated, Aud!Open, Aud!Changed
  <2>3. ASSUME NEW c \in Changers, Aud!Open(c)'
        PROVE  Aud!ChangeTells(tx[c])'
    <3>1. Aud!Open(c) /\ tx'[c] = tx[c] /\ Aud!ChangeTells(tx[c])
      BY <1>1, <2>1, <2>3 DEF Aud!Open
    <3> QED
      BY <2>1, <3>1 DEF Aud!ChangeTells, Aud!Dated
  <2> QED
    BY <1>4, <2>2, <2>3, PurgeTells DEF Aud!IInv
<1>5. CASE Aud!Tick \/ UNCHANGED Aud!vars
  <2>1. /\ now' \in Int /\ now' >= now /\ UNCHANGED <<param, log, tx, told, edits>>
    BY <1>1, <1>5 DEF Aud!Tick, Aud!vars, Aud!AuditTyped
  <2>2. \A r : Aud!Dated(r) => Aud!Dated(r)'
    BY <1>1, <2>1 DEF Aud!Dated, Aud!AuditTyped
  <2>3. Aud!AuditTyped' /\ Aud!Apart' /\ Aud!TrailTells'
    BY <1>1, <2>1, <2>2 DEF Aud!AuditTyped, Aud!Apart, Aud!ValuesOf, Aud!Open, Aud!Changed,
       Aud!TrailTells, Aud!About, Aud!Later
  <2>4. ASSUME NEW c \in Changers, Aud!Open(c)'
        PROVE  Aud!ChangeTells(tx[c])'
    <3>1. Aud!Open(c) /\ tx'[c] = tx[c] /\ Aud!ChangeTells(tx[c])
      BY <1>1, <2>1, <2>4 DEF Aud!Open
    <3> QED
      BY <2>1, <2>2, <3>1 DEF Aud!ChangeTells
  <2> QED
    BY <2>3, <2>4 DEF Aud!IInv
<1>6. ASSUME NEW c \in Changers,
             Aud!Create(c) \/ Aud!WriteValue(c) \/ Aud!Rename(c) \/ Aud!Unlink(c)
      PROVE  Aud!IInv'
  BY <1>6, EachChange
<1> QED
  BY <1>2, <1>3, <1>4, <1>5, <1>6 DEF Aud!Next
-----------------------------------------------------------------------------
(* The history of jobs and parameters *)

KnownHistory ==
  /\ part = "history" => His!IInv
  /\ part = "audit" => Aud!IInv

LEMMA KnownHistoryStep == ASSUME KnownHistory, [Next]_vars PROVE KnownHistory'
<1>1. ASSUME part' = "history" PROVE His!IInv'
  <2>1. part = "history" /\ [His!Next]_(His!vars)
    BY <1>1, PartStays DEF Next, vars, His!vars
  <2> QED
    BY <2>1, HistoryStep, AddOnsAssumption DEF KnownHistory
<1>2. ASSUME part' = "audit" PROVE Aud!IInv'
  <2>1. part = "audit" /\ [Aud!Next]_(Aud!vars)
    BY <1>2, PartStays DEF Next, vars, Aud!vars
  <2> QED
    BY <2>1, AuditStep, AddOnsAssumption DEF KnownHistory
<1> QED
  BY <1>1, <1>2 DEF KnownHistory

\* Every run that was recorded keeps its one row, with how it ended, until it is
\* older than the retention, and the last row about a parameter tells what it is,
\* for any number of overlapping runs and transactions (log_execution,
\* _gc_execution_history, _config_audit_record, _gc_audit_log).
THEOREM HistoryIsTold == Spec => []HistoryTells
<1>1. Init => KnownHistory
  BY HistoryBegins, AuditBegins, AddOnsAssumption DEF Init, KnownHistory
<1>2. KnownHistory /\ [Next]_vars => KnownHistory'
  BY KnownHistoryStep
<1>3. KnownHistory => HistoryTells
  BY DEF KnownHistory, HistoryTells, His!IInv, Aud!IInv
<1> QED
  BY <1>1, <1>2, <1>3, PTL DEF Spec

-----------------------------------------------------------------------------
(* cron_watchdog_alert: an open check knows every row as it is, but for    *)
(* those written since, and holds the rows it has found; the stamp of an   *)
(* action is no older than any alert that left of a committed check.       *)

LEMMA RowsBegin == ASSUME Dog!Init PROVE Dog!RowsKnown
<1> DEFINE tx == s4
<1>1. \A p \in Dog!Checkers : tx[p].pc = "none"
  BY DEF Dog!Init, Dog!NoTx
<1>2. Dog!WatchTyped
  BY <1>1 DEF Dog!Init, Dog!WatchTyped
<1> QED
  BY <1>1, <1>2 DEF Dog!RowsKnown, Dog!SnapshotsHold, Dog!FoundHeld

\* What a checker does to its own transaction, where the rows stay.
LEMMA OwnStep ==
  ASSUME Dog!Proper, Dog!RowsKnown, NEW p \in Dog!Checkers, NEW t, s4' = [s4 EXCEPT ![p] = t], s1' = s1,
         s2' = [c \in Overdue.Crons |-> s2'[c]],
         \A q \in Dog!Checkers \ {p}, c \in Overdue.Crons : s2[c] = q => s2'[c] = q,
         t.pc = "none" \/ Dog!Begun(t) \/ Dog!Checked(t),
         t.pc = "begun" => \A c \in Overdue.Crons : t.seen[c] = s1[c],
         t.pc = "checked" => \A c \in t.found : s2'[c] = p
  PROVE  Dog!RowsKnown'
<1> DEFINE cron == s1  holder == s2  tx == s4  Crons == Overdue.Crons
<1>1. Dog!WatchTyped /\ Dog!SnapshotsHold /\ Dog!FoundHeld
  BY DEF Dog!RowsKnown
<1>2. /\ tx'[p] = t /\ tx' = [q \in Dog!Checkers |-> tx'[q]]
      /\ \A q \in Dog!Checkers \ {p} : tx'[q] = tx[q]
  BY <1>1 DEF Dog!WatchTyped
<1>3. ASSUME NEW q \in Dog!Checkers
      PROVE  tx'[q].pc = "none" \/ Dog!Begun(tx'[q]) \/ Dog!Checked(tx'[q])
  BY <1>1, <1>2 DEF Dog!WatchTyped
<1>4. Dog!WatchTyped'
  BY <1>1, <1>2, <1>3 DEF Dog!WatchTyped, Dog!Begun, Dog!Checked
<1>5. ASSUME NEW q \in Dog!Checkers, tx'[q].pc = "begun", NEW c \in Crons \ tx'[q].touched
      PROVE  tx'[q].seen[c] = cron'[c]
  BY <1>1, <1>2, <1>5 DEF Dog!SnapshotsHold
<1>6. ASSUME NEW q \in Dog!Checkers, tx'[q].pc = "checked", NEW c \in tx'[q].found
      PROVE  holder'[c] = q
  <2>1. CASE q = p
    BY <1>2, <1>6, <2>1
  <2>2. CASE q # p
    <3>1. tx'[q] = tx[q] /\ holder[c] = q /\ c \in Crons
      BY <1>1, <1>2, <1>6, <2>2 DEF Dog!FoundHeld, Dog!WatchTyped, Dog!Begun, Dog!Checked
    <3> QED
      BY <2>2, <3>1
  <2> QED
    BY <2>1, <2>2
<1>7. Dog!SnapshotsHold' /\ Dog!FoundHeld'
  BY <1>5, <1>6 DEF Dog!SnapshotsHold, Dog!FoundHeld
<1> QED
  BY <1>4, <1>7 DEF Dog!RowsKnown

LEMMA BegunSays == \A t : Dog!Begun(t) => t.pc = "begun"
  BY DEF Dog!Begun

LEMMA CheckedSays == \A t : Dog!Checked(t) => t.pc = "checked"
  BY DEF Dog!Checked

LEMMA TouchedBegun ==
  ASSUME NEW seen, NEW web, NEW on, NEW touched, NEW late, NEW more, NEW later, NEW t, NEW v,
         t = [pc |-> "begun", seen |-> seen, web |-> web, enabled |-> on,
              touched |-> touched, webTouched |-> late],
         v = [t EXCEPT !.touched = more, !.webTouched = later]
  PROVE  v = [pc |-> "begun", seen |-> seen, web |-> web, enabled |-> on,
              touched |-> more, webTouched |-> later]
<1> DEFINE u == [t EXCEPT !.touched = more]
<1>1. u = [pc |-> "begun", seen |-> seen, web |-> web, enabled |-> on,
           touched |-> more, webTouched |-> late]
  OBVIOUS
<1>2. v = [u EXCEPT !.webTouched = later]
  OBVIOUS
<1> HIDE DEF u
<1> QED
  BY ONLY <1>1, <1>2

LEMMA SpoiledBegun ==
  ASSUME NEW t, NEW more, NEW later, NEW v, v = [t EXCEPT !.touched = more, !.webTouched = later],
         t = [pc |-> "begun", seen |-> t.seen, web |-> t.web, enabled |-> t.enabled,
              touched |-> t.touched, webTouched |-> t.webTouched]
  PROVE  v = [pc |-> "begun", seen |-> t.seen, web |-> t.web, enabled |-> t.enabled,
              touched |-> more, webTouched |-> later]
<1>1. PICK seen, web, on, touched, late :
        seen = t.seen /\ web = t.web /\ on = t.enabled /\ touched = t.touched /\ late = t.webTouched
  OBVIOUS
<1>2. t = [pc |-> "begun", seen |-> seen, web |-> web, enabled |-> on,
           touched |-> touched, webTouched |-> late]
  BY <1>1
<1>3. v = [pc |-> "begun", seen |-> seen, web |-> web, enabled |-> on,
           touched |-> more, webTouched |-> later]
  BY <1>2, TouchedBegun
<1> QED
  BY <1>1, <1>3

LEMMA TouchedChecked ==
  ASSUME NEW found, NEW time, NEW left, NEW touched, NEW late, NEW more, NEW later, NEW t, NEW v,
         t = [pc |-> "checked", found |-> found, time |-> time, left |-> left,
              webTouched |-> late, touched |-> touched],
         v = [t EXCEPT !.touched = more, !.webTouched = later]
  PROVE  v = [pc |-> "checked", found |-> found, time |-> time, left |-> left,
              webTouched |-> later, touched |-> more]
<1> DEFINE u == [t EXCEPT !.touched = more]
<1>1. u = [pc |-> "checked", found |-> found, time |-> time, left |-> left,
           webTouched |-> late, touched |-> more]
  OBVIOUS
<1>2. v = [u EXCEPT !.webTouched = later]
  OBVIOUS
<1> HIDE DEF u
<1> QED
  BY ONLY <1>1, <1>2

LEMMA SpoiledChecked ==
  ASSUME NEW t, NEW more, NEW later, NEW v, v = [t EXCEPT !.touched = more, !.webTouched = later],
         t = [pc |-> "checked", found |-> t.found, time |-> t.time, left |-> t.left,
              webTouched |-> t.webTouched, touched |-> t.touched]
  PROVE  v = [pc |-> "checked", found |-> t.found, time |-> t.time, left |-> t.left,
              webTouched |-> later, touched |-> more]
<1>1. PICK found, time, left, touched, late :
        found = t.found /\ time = t.time /\ left = t.left /\ touched = t.touched /\ late = t.webTouched
  OBVIOUS
<1>2. t = [pc |-> "checked", found |-> found, time |-> time, left |-> left,
           webTouched |-> late, touched |-> touched]
  BY <1>1
<1>3. v = [pc |-> "checked", found |-> found, time |-> time, left |-> left,
           webTouched |-> later, touched |-> more]
  BY <1>2, TouchedChecked
<1> QED
  BY <1>1, <1>3

\* What is written is told to those that have not ended.
LEMMA RowsWritten ==
  ASSUME Dog!Proper, Dog!RowsKnown, NEW p, NEW cs, NEW web, s4' = Dog!Spoil(p, cs, web),
         s1' = [c \in Overdue.Crons |-> s1'[c]], s2' = [c \in Overdue.Crons |-> s2'[c]],
         \A c \in Overdue.Crons \ cs : s1'[c] = s1[c],
         \A q \in Dog!Checkers \ {p}, c \in Overdue.Crons : s2[c] = q => s2'[c] = q
  PROVE  Dog!RowsKnown'
<1> DEFINE cron == s1  holder == s2  tx == s4  Crons == Overdue.Crons
<1>1. Dog!WatchTyped /\ Dog!SnapshotsHold /\ Dog!FoundHeld
  BY DEF Dog!RowsKnown
<1>2. tx' = [q \in Dog!Checkers |->
        CASE q = p -> Dog!NoTx
          [] q # p /\ tx[q].pc = "none" -> Dog!NoTx
          [] OTHER -> [tx[q] EXCEPT !.touched = @ \cup cs, !.webTouched = @ \/ web]]
  BY DEF Dog!Spoil
<1>3. tx' = [q \in Dog!Checkers |-> tx'[q]]
  BY <1>2
<1>4. ASSUME NEW q \in Dog!Checkers, tx'[q].pc # "none"
      PROVE  /\ q # p /\ tx[q].pc # "none"
             /\ tx'[q] = [tx[q] EXCEPT !.touched = @ \cup cs, !.webTouched = @ \/ web]
  <2>1. CASE q = p \/ tx[q].pc = "none"
    <3>1. tx'[q] = Dog!NoTx
      BY <1>2, <2>1
    <3> QED
      BY <1>4, <3>1 DEF Dog!NoTx
  <2>2. CASE q # p /\ tx[q].pc # "none"
    BY <1>2, <2>2
  <2> QED
    BY <2>1, <2>2
<1>10. ASSUME NEW q \in Dog!Checkers, tx'[q].pc # "none", Dog!Begun(tx[q])
      PROVE  /\ Dog!Begun(tx'[q]) /\ tx'[q].seen = tx[q].seen
             /\ tx'[q].touched = tx[q].touched \cup cs
  <2> DEFINE more == tx[q].touched \cup cs
             late == tx[q].webTouched \/ web
  <2>1. tx'[q] = [tx[q] EXCEPT !.touched = more, !.webTouched = late]
    BY <1>4, <1>10
  <2> HIDE DEF more, late
  <2>5. tx[q] = [pc |-> "begun", seen |-> tx[q].seen, web |-> tx[q].web, enabled |-> tx[q].enabled,
                 touched |-> tx[q].touched, webTouched |-> tx[q].webTouched]
    BY <1>10 DEF Dog!Begun
  <2>2. tx'[q] = [pc |-> "begun", seen |-> tx[q].seen, web |-> tx[q].web, enabled |-> tx[q].enabled,
                  touched |-> more, webTouched |-> late]
    <3>1. PICK t, u : t = tx[q] /\ u = tx'[q]
      OBVIOUS
    <3>2. u = [t EXCEPT !.touched = more, !.webTouched = late]
      BY ONLY <2>1, <3>1
    <3>3. t = [pc |-> "begun", seen |-> t.seen, web |-> t.web, enabled |-> t.enabled,
               touched |-> t.touched, webTouched |-> t.webTouched]
      BY ONLY <2>5, <3>1
    <3>4. u = [pc |-> "begun", seen |-> t.seen, web |-> t.web, enabled |-> t.enabled,
               touched |-> more, webTouched |-> late]
      BY ONLY <3>2, <3>3, SpoiledBegun
    <3> QED
      BY ONLY <3>1, <3>4
  <2>3. /\ tx'[q].pc = "begun" /\ tx'[q].seen = tx[q].seen
        /\ tx'[q].web = tx[q].web /\ tx'[q].enabled = tx[q].enabled
        /\ tx'[q].webTouched = late /\ tx'[q].touched = more
    BY <2>2
  <2>4. Dog!Begun(tx'[q])
    BY <2>2, <2>3 DEF Dog!Begun
  <2> QED
    BY <2>3, <2>4 DEF more
<1>11. ASSUME NEW q \in Dog!Checkers, tx'[q].pc # "none", Dog!Checked(tx[q])
      PROVE  /\ Dog!Checked(tx'[q]) /\ tx'[q].found = tx[q].found
             /\ tx'[q].time = tx[q].time
  <2> DEFINE more == tx[q].touched \cup cs
             late == tx[q].webTouched \/ web
  <2>1. tx'[q] = [tx[q] EXCEPT !.touched = more, !.webTouched = late]
    BY <1>4, <1>11
  <2> HIDE DEF more, late
  <2>5. tx[q] = [pc |-> "checked", found |-> tx[q].found, time |-> tx[q].time,
                 left |-> tx[q].left, webTouched |-> tx[q].webTouched, touched |-> tx[q].touched]
    BY <1>11 DEF Dog!Checked
  <2>2. tx'[q] = [pc |-> "checked", found |-> tx[q].found, time |-> tx[q].time, left |-> tx[q].left,
                  webTouched |-> late, touched |-> more]
    <3>1. PICK t, u : t = tx[q] /\ u = tx'[q]
      OBVIOUS
    <3>2. u = [t EXCEPT !.touched = more, !.webTouched = late]
      BY ONLY <2>1, <3>1
    <3>3. t = [pc |-> "checked", found |-> t.found, time |-> t.time, left |-> t.left,
               webTouched |-> t.webTouched, touched |-> t.touched]
      BY ONLY <2>5, <3>1
    <3>4. u = [pc |-> "checked", found |-> t.found, time |-> t.time, left |-> t.left,
               webTouched |-> late, touched |-> more]
      BY ONLY <3>2, <3>3, SpoiledChecked
    <3> QED
      BY ONLY <3>1, <3>4
  <2>3. /\ tx'[q].pc = "checked" /\ tx'[q].found = tx[q].found /\ tx'[q].time = tx[q].time
        /\ tx'[q].left = tx[q].left /\ tx'[q].webTouched = late /\ tx'[q].touched = more
    BY <2>2
  <2>4. tx[q].found \subseteq Crons
    BY <1>11 DEF Dog!Checked
  <2> QED
    BY <2>2, <2>3, <2>4 DEF Dog!Checked
<1>5. \A q \in Dog!Checkers : tx'[q].pc = "none" \/ Dog!Begun(tx'[q]) \/ Dog!Checked(tx'[q])
  BY <1>1, <1>4, <1>10, <1>11 DEF Dog!WatchTyped
<1>6. Dog!WatchTyped'
  BY <1>3, <1>5 DEF Dog!WatchTyped, Dog!Begun, Dog!Checked
<1>7. ASSUME NEW q \in Dog!Checkers, tx'[q].pc = "begun", NEW c \in Crons \ tx'[q].touched
      PROVE  tx'[q].seen[c] = cron'[c]
  <2>1. Dog!Begun(tx[q]) /\ tx[q].pc = "begun"
    <3>1. Dog!Begun(tx[q]) \/ Dog!Checked(tx[q])
      BY <1>1, <1>4, <1>7 DEF Dog!WatchTyped
    <3>2. Dog!Checked(tx[q]) => tx'[q].pc = "checked"
      BY <1>11, <1>7, CheckedSays
    <3> QED
      BY <1>7, <3>1, <3>2, BegunSays
  <2>2. tx'[q].seen = tx[q].seen /\ tx'[q].touched = tx[q].touched \cup cs
    BY <1>10, <1>7, <2>1
  <2>3. tx[q].seen[c] = cron[c]
    BY <1>1, <1>7, <2>1, <2>2 DEF Dog!SnapshotsHold
  <2> QED
    BY <1>7, <2>2, <2>3
<1>8. ASSUME NEW q \in Dog!Checkers, tx'[q].pc = "checked", NEW c \in tx'[q].found
      PROVE  holder'[c] = q
  <2>1. Dog!Checked(tx[q]) /\ tx[q].pc = "checked" /\ q # p
    <3>1. (Dog!Begun(tx[q]) \/ Dog!Checked(tx[q])) /\ q # p
      BY <1>1, <1>4, <1>8 DEF Dog!WatchTyped
    <3>2. Dog!Begun(tx[q]) => tx'[q].pc = "begun"
      BY <1>10, <1>8, BegunSays
    <3> QED
      BY <1>8, <3>1, <3>2, CheckedSays
  <2>2. c \in tx[q].found /\ c \in Crons
    BY <1>8, <1>11, <2>1 DEF Dog!Checked
  <2>3. holder[c] = q
    BY <1>1, <2>1, <2>2 DEF Dog!FoundHeld
  <2> QED
    BY <2>1, <2>2, <2>3
<1>9. Dog!SnapshotsHold' /\ Dog!FoundHeld'
  BY <1>7, <1>8 DEF Dog!SnapshotsHold, Dog!FoundHeld
<1> QED
  BY <1>6, <1>9 DEF Dog!RowsKnown

LEMMA RowsStep ==
  ASSUME Dog!Proper, Dog!RowsKnown, [Dog!Next]_(Dog!vars)
  PROVE  Dog!RowsKnown'
<1> DEFINE cron == s1  holder == s2  lastWeb == s3  tx == s4  enabled == s5  now == s6
           Crons == Overdue.Crons  Watchdog == Overdue.Watchdog  Interval == Overdue.Interval
<1>1. Dog!WatchTyped /\ Dog!SnapshotsHold /\ Dog!FoundHeld
  BY DEF Dog!RowsKnown
<1>2. ASSUME NEW p \in Dog!Checkers, Dog!Begin(p)
      PROVE  Dog!RowsKnown'
  <2> DEFINE t == [pc |-> "begun", seen |-> cron, web |-> lastWeb, enabled |-> enabled,
                   touched |-> {}, webTouched |-> FALSE]
  <2>1. Dog!Begun(t) /\ t.pc = "begun" /\ t.seen = cron
    BY DEF Dog!Begun
  <2>2. tx' = [tx EXCEPT ![p] = t] /\ cron' = cron /\ holder' = holder
    BY <1>2 DEF Dog!Begin
  <2>3. holder' = [c \in Crons |-> holder'[c]]
    BY <1>1, <2>2 DEF Dog!WatchTyped
  <2> HIDE DEF t
  <2> QED
    BY <2>1, <2>2, <2>3, OwnStep
<1>3. ASSUME NEW p \in Dog!Checkers, Dog!Check(p)
      PROVE  Dog!RowsKnown'
  <2>5. PICK left : tx' = [tx EXCEPT ![p] =
          [pc |-> "checked", found |-> Dog!Lockable(tx[p]), time |-> now, left |-> left,
           webTouched |-> @.webTouched, touched |-> {}]]
    BY <1>3 DEF Dog!Check
  <2> DEFINE found == Dog!Lockable(tx[p])
             t == [pc |-> "checked", found |-> found, time |-> now, left |-> left,
                   webTouched |-> tx[p].webTouched, touched |-> {}]
  <2>1. Dog!Checked(t) /\ t.pc = "checked" /\ t.found = found
    BY DEF Dog!Checked, Dog!Lockable, Dog!Stale
  <2>2. /\ tx' = [tx EXCEPT ![p] = t] /\ cron' = cron
        /\ holder' = [c \in Crons |-> IF c \in found THEN p ELSE holder[c]]
    BY <1>1, <1>3, <2>5 DEF Dog!Check, Dog!WatchTyped
  <2>3. found \subseteq Crons /\ \A c \in found : holder[c] = Dog!Free
    BY DEF Dog!Lockable, Dog!Stale
  <2> HIDE DEF t, found
  <2>4. /\ holder' = [c \in Crons |-> holder'[c]]
        /\ \A q \in Dog!Checkers \ {p}, c \in Crons : holder[c] = q => holder'[c] = q
        /\ \A c \in found : holder'[c] = p
    BY <2>2, <2>3 DEF Dog!Proper
  <2> QED
    BY <2>1, <2>2, <2>4, OwnStep
<1>4. ASSUME NEW p \in Dog!Checkers, Dog!Skip(p) \/ Dog!Rollback(p)
      PROVE  Dog!RowsKnown'
  <2>1. tx' = [tx EXCEPT ![p] = Dog!NoTx] /\ cron' = cron /\ Dog!NoTx.pc = "none"
    BY <1>4 DEF Dog!Skip, Dog!Rollback, Dog!NoTx
  <2>2. holder' = holder \/ holder' = Dog!Released(p)
    BY <1>4 DEF Dog!Skip, Dog!Rollback
  <2>3. /\ holder' = [c \in Crons |-> holder'[c]]
        /\ \A q \in Dog!Checkers \ {p}, c \in Crons : holder[c] = q => holder'[c] = q
    BY <1>1, <2>2 DEF Dog!WatchTyped, Dog!Released
  <2> QED
    BY <2>1, <2>3, OwnStep
<1>5. ASSUME NEW p \in Dog!Checkers, Dog!Commit(p)
      PROVE  Dog!RowsKnown'
  <2> DEFINE web == p # Watchdog
             cs == tx[p].found
  <2>1. /\ tx' = Dog!Spoil(p, cs, web) /\ holder' = Dog!Released(p)
        /\ cron' = [c \in Crons |->
             IF c \in cs THEN [cron[c] EXCEPT !.alerted = tx[p].time] ELSE cron[c]]
    BY <1>5 DEF Dog!Commit
  <2> HIDE DEF web, cs
  <2>2. /\ cron' = [c \in Crons |-> cron'[c]] /\ holder' = [c \in Crons |-> holder'[c]]
        /\ \A c \in Crons \ cs : cron'[c] = cron[c]
        /\ \A q \in Dog!Checkers \ {p}, c \in Crons : holder[c] = q => holder'[c] = q
    BY <2>1 DEF Dog!Released
  <2> QED
    BY <2>1, <2>2, RowsWritten
<1>6. ASSUME NEW c \in Crons, Dog!RunStart(c)
      PROVE  Dog!RowsKnown'
  <2>1. /\ holder' = [holder EXCEPT ![c] = Dog!Scheduler] /\ holder[c] = Dog!Free
        /\ cron' = cron /\ tx' = tx
    BY <1>6 DEF Dog!RunStart
  <2>2. Dog!WatchTyped' /\ Dog!SnapshotsHold'
    BY <1>1, <2>1 DEF Dog!WatchTyped, Dog!SnapshotsHold, Dog!Begun, Dog!Checked
  <2>3. ASSUME NEW p \in Dog!Checkers, tx[p].pc = "checked", NEW d \in tx[p].found
        PROVE  holder'[d] = p
    <3>1. holder[d] = p /\ d # c
      BY <1>1, <2>1, <2>3 DEF Dog!FoundHeld, Dog!Proper
    <3> QED
      BY <1>1, <2>1, <3>1 DEF Dog!WatchTyped
  <2> QED
    BY <2>1, <2>2, <2>3 DEF Dog!RowsKnown, Dog!FoundHeld
<1>7. ASSUME NEW c \in Crons, Dog!RunEnd(c)
      PROVE  Dog!RowsKnown'
  <2> DEFINE cs == {c}
             p == Dog!Scheduler
             web == FALSE
  <2>1. /\ tx' = Dog!Spoil(p, cs, web) /\ holder' = [holder EXCEPT ![c] = Dog!Free] /\ holder[c] = p
        /\ cron' = [cron EXCEPT ![c].next = now + Interval] /\ p \notin Dog!Checkers
    BY <1>7 DEF Dog!RunEnd, Dog!Proper
  <2>2. \A d \in Crons \ cs : cron'[d] = cron[d]
    BY <1>1, <2>1 DEF Dog!WatchTyped
  <2> HIDE DEF cs, p, web
  <2>3. /\ cron' = [d \in Crons |-> cron'[d]] /\ holder' = [d \in Crons |-> holder'[d]]
        /\ \A q \in Dog!Checkers \ {p}, d \in Crons : holder[d] = q => holder'[d] = q
    BY <1>1, <2>1 DEF Dog!WatchTyped
  <2> QED
    BY <2>1, <2>2, <2>3, RowsWritten
<1>8. CASE Dog!Tick \/ UNCHANGED Dog!vars
  <2>1. cron' = cron /\ holder' = holder /\ tx' = tx
    BY <1>8 DEF Dog!Tick, Dog!vars
  <2> QED
    BY <1>1, <2>1 DEF Dog!RowsKnown, Dog!WatchTyped, Dog!SnapshotsHold, Dog!FoundHeld, Dog!Begun,
       Dog!Checked
<1> QED
  BY <1>2, <1>3, <1>4, <1>5, <1>6, <1>7, <1>8 DEF Dog!Next

\* What the others learn changes neither what a check has found nor when.
LEMMA SpoiledKeeps ==
  ASSUME Dog!WatchTyped, NEW p, NEW cs, NEW web, s4' = Dog!Spoil(p, cs, web),
         NEW q \in Dog!Checkers, s4'[q].pc = "checked"
  PROVE  /\ q # p /\ s4[q].pc = "checked"
         /\ s4'[q].found = s4[q].found /\ s4'[q].time = s4[q].time
<1> DEFINE tx == s4
<1>1. /\ q = p => tx'[q] = Dog!NoTx
      /\ q # p /\ tx[q].pc = "none" => tx'[q] = Dog!NoTx
      /\ q # p /\ tx[q].pc # "none" =>
           tx'[q] = [tx[q] EXCEPT !.touched = @ \cup cs, !.webTouched = @ \/ web]
  <2>1. tx' = [r \in Dog!Checkers |->
          CASE r = p -> Dog!NoTx
            [] r # p /\ tx[r].pc = "none" -> Dog!NoTx
            [] OTHER -> [tx[r] EXCEPT !.touched = @ \cup cs, !.webTouched = @ \/ web]]
    BY DEF Dog!Spoil
  <2>2. CASE q = p
    BY <2>1, <2>2
  <2>3. CASE q # p /\ tx[q].pc = "none"
    BY <2>1, <2>3
  <2>4. CASE q # p /\ tx[q].pc # "none"
    BY <2>1, <2>4
  <2> QED
    BY <2>2, <2>3, <2>4
<1>2. q # p /\ tx[q].pc # "none"
  BY <1>1 DEF Dog!NoTx
<1> DEFINE more == tx[q].touched \cup cs
           late == tx[q].webTouched \/ web
<1>3. tx'[q] = [tx[q] EXCEPT !.touched = more, !.webTouched = late]
  BY <1>1, <1>2
<1> HIDE DEF more, late
<1>4. CASE Dog!Begun(tx[q])
  <2>1. tx[q] = [pc |-> "begun", seen |-> tx[q].seen, web |-> tx[q].web,
                 enabled |-> tx[q].enabled, touched |-> tx[q].touched,
                 webTouched |-> tx[q].webTouched]
    BY <1>4 DEF Dog!Begun
  <2>2. PICK t, u : t = tx[q] /\ u = tx'[q]
    OBVIOUS
  <2>3. u = [t EXCEPT !.touched = more, !.webTouched = late]
    BY ONLY <1>3, <2>2
  <2>4. t = [pc |-> "begun", seen |-> t.seen, web |-> t.web, enabled |-> t.enabled,
             touched |-> t.touched, webTouched |-> t.webTouched]
    BY ONLY <2>1, <2>2
  <2>5. u = [pc |-> "begun", seen |-> t.seen, web |-> t.web, enabled |-> t.enabled,
             touched |-> more, webTouched |-> late]
    BY ONLY <2>3, <2>4, SpoiledBegun
  <2> QED
    BY <2>2, <2>5
<1>5. CASE Dog!Checked(tx[q])
  <2>1. tx[q] = [pc |-> "checked", found |-> tx[q].found, time |-> tx[q].time,
                 left |-> tx[q].left, webTouched |-> tx[q].webTouched, touched |-> tx[q].touched]
    BY <1>5 DEF Dog!Checked
  <2>2. PICK t, u : t = tx[q] /\ u = tx'[q]
    OBVIOUS
  <2>3. u = [t EXCEPT !.touched = more, !.webTouched = late]
    BY ONLY <1>3, <2>2
  <2>4. t = [pc |-> "checked", found |-> t.found, time |-> t.time, left |-> t.left,
             webTouched |-> t.webTouched, touched |-> t.touched]
    BY ONLY <2>1, <2>2
  <2>5. u = [pc |-> "checked", found |-> t.found, time |-> t.time, left |-> t.left,
             webTouched |-> late, touched |-> more]
    BY ONLY <2>3, <2>4, SpoiledChecked
  <2>6. tx[q].pc = "checked"
    BY <1>5, CheckedSays
  <2>7. u.found = t.found /\ u.time = t.time
    BY ONLY <2>5
  <2> QED
    BY <1>2, <2>2, <2>6, <2>7
<1> QED
  BY <1>2, <1>4, <1>5 DEF Dog!WatchTyped

\* A step that writes no stamp keeps what the stamps tell, if what a check has found
\* since is stamped no later than now.
LEMMA StampsStay ==
  ASSUME Dog!TimesTyped, Dog!StampTells,
         s7' = s7, s6' \in Int, \A c \in Overdue.Crons : s1'[c].alerted = s1[c].alerted,
         \A c \in Overdue.Crons : s1'[c] = [next |-> s1'[c].next, alerted |-> s1'[c].alerted],
         \A q \in Dog!Checkers : s4'[q].pc = "checked" =>
           \/ /\ s4[q].pc = "checked"
              /\ s4'[q].found = s4[q].found /\ s4'[q].time = s4[q].time
           \/ /\ s4'[q].time \in Int
              /\ \A c \in s4'[q].found : c \in Overdue.Crons /\ s1[c].alerted <= s4'[q].time,
         \A q \in Dog!Checkers : s4[q].pc = "checked" => s4[q].found \subseteq Overdue.Crons
  PROVE  Dog!TimesTyped' /\ Dog!StampTells'
<1> DEFINE cron == s1  tx == s4  now == s6  kept == s7  Crons == Overdue.Crons
<1>1. Dog!TimesTyped'
  <2>1. \A q \in Dog!Checkers : tx'[q].pc = "checked" => tx'[q].time \in Int
    BY DEF Dog!TimesTyped
  <2> QED
    BY <2>1 DEF Dog!TimesTyped
<1>2. ASSUME NEW c \in Crons, NEW time \in kept'[c]
      PROVE  time <= cron'[c].alerted
  BY <1>2 DEF Dog!StampTells
<1>3. ASSUME NEW q \in Dog!Checkers, tx'[q].pc = "checked", NEW c \in tx'[q].found
      PROVE  cron'[c].alerted <= tx'[q].time
  BY <1>3 DEF Dog!StampTells
<1> QED
  BY <1>1, <1>2, <1>3 DEF Dog!StampTells

\* A check that is committed writes a stamp no earlier than any alert kept, and holds
\* what the others have found.
LEMMA StampsWritten ==
  ASSUME Dog!RowsKnown, Dog!TimesTyped, Dog!StampTells,
         NEW p \in Dog!Checkers, Dog!Commit(p)
  PROVE  Dog!TimesTyped' /\ Dog!StampTells'
<1> DEFINE cron == s1  holder == s2  tx == s4  now == s6  kept == s7  Crons == Overdue.Crons
           cs == tx[p].found  time == tx[p].time  web == p # Overdue.Watchdog
<1>1. /\ tx[p].pc = "checked" /\ now' = now
      /\ cron' = [c \in Crons |->
           IF c \in cs THEN [cron[c] EXCEPT !.alerted = time] ELSE cron[c]]
      /\ kept' = [c \in Crons |->
           IF tx[p].left /\ c \in cs THEN kept[c] \cup {time} ELSE kept[c]]
      /\ tx' = Dog!Spoil(p, cs, web)
  BY DEF Dog!Commit
<1>2. Dog!WatchTyped /\ Dog!FoundHeld /\ time \in Int
  BY <1>1 DEF Dog!RowsKnown, Dog!TimesTyped
<1> HIDE DEF web
<1>3. ASSUME NEW c \in Crons, c \in cs
      PROVE  /\ cron[c].alerted <= time /\ cron'[c].alerted = time
             /\ cron'[c] = [next |-> cron'[c].next, alerted |-> cron'[c].alerted]
             /\ kept'[c] \subseteq kept[c] \cup {time}
  <2>1. cron[c].alerted <= time
    BY <1>1, <1>3 DEF Dog!StampTells
  <2>2. cron'[c] = [cron[c] EXCEPT !.alerted = time] /\ kept'[c] \subseteq kept[c] \cup {time}
    BY <1>1, <1>3
  <2>3. cron[c] = [next |-> cron[c].next, alerted |-> cron[c].alerted]
    BY DEF Dog!TimesTyped
  <2>4. cron'[c] = [next |-> cron[c].next, alerted |-> time]
    BY <2>2, <2>3
  <2> QED
    BY <2>1, <2>2, <2>4
<1>4. \A c \in Crons : c \notin cs => cron'[c] = cron[c] /\ kept'[c] = kept[c]
  BY <1>1
<1>5. ASSUME NEW q \in Dog!Checkers, tx'[q].pc = "checked"
      PROVE  /\ q # p /\ tx[q].pc = "checked"
             /\ tx'[q].found = tx[q].found /\ tx'[q].time = tx[q].time
  BY <1>1, <1>2, <1>5, SpoiledKeeps
<1>6. ASSUME NEW c \in Crons
      PROVE  /\ cron'[c] = [next |-> cron'[c].next, alerted |-> cron'[c].alerted]
             /\ cron'[c].alerted \in Int /\ kept'[c] \subseteq Int
             /\ \A t \in kept'[c] : t <= cron'[c].alerted
  <2>1. CASE c \in cs
    <3>1. ASSUME NEW t \in kept'[c] PROVE t \in Int /\ t <= time
      <4>1. CASE t = time
        BY <1>2, <4>1
      <4>2. CASE t \in kept[c]
        <5>1. t <= cron[c].alerted /\ t \in Int /\ cron[c].alerted \in Int
          BY <4>2 DEF Dog!StampTells, Dog!TimesTyped
        <5>2. cron[c].alerted <= time /\ time \in Int
          BY <1>2, <1>3, <2>1
        <5> HIDE DEF cron, time
        <5> QED
          BY <5>1, <5>2
      <4> QED
        BY <1>3, <2>1, <3>1, <4>1, <4>2
    <3> QED
      BY <1>2, <1>3, <2>1, <3>1
  <2>2. CASE c \notin cs
    BY <1>4, <2>2 DEF Dog!TimesTyped, Dog!StampTells
  <2> QED
    BY <2>1, <2>2
<1>7. Dog!TimesTyped'
  <2>1. now' \in Int
    BY <1>1 DEF Dog!TimesTyped
  <2>2. kept' = [c \in Crons |-> kept'[c]]
    BY <1>1
  <2>3. \A q \in Dog!Checkers : tx'[q].pc = "checked" => tx'[q].time \in Int
    BY <1>5 DEF Dog!TimesTyped
  <2> QED
    BY <1>6, <2>1, <2>2, <2>3 DEF Dog!TimesTyped
<1>8. ASSUME NEW q \in Dog!Checkers, tx'[q].pc = "checked", NEW c \in tx'[q].found
      PROVE  cron'[c].alerted <= tx'[q].time
  <2>1. c \in tx[q].found /\ q # p /\ tx[q].pc = "checked" /\ tx'[q].time = tx[q].time
    BY <1>5, <1>8
  <2>2. c \in Crons
    BY <1>2, <2>1, BegunSays DEF Dog!WatchTyped, Dog!Checked
  <2>3. holder[c] = q
    BY <1>2, <2>1 DEF Dog!FoundHeld
  <2>4. c \notin cs
    BY <1>1, <1>2, <2>1, <2>3 DEF Dog!FoundHeld
  <2>5. cron'[c] = cron[c]
    BY <1>4, <2>2, <2>4
  <2> QED
    BY <2>1, <2>5 DEF Dog!StampTells
<1>9. Dog!StampTells'
  BY <1>6, <1>8 DEF Dog!StampTells
<1> QED
  BY <1>7, <1>9

\* What the stamps tell, over a step.
LEMMA StampStep ==
  ASSUME Dog!Proper, Dog!IInv, [Dog!Next]_(Dog!vars)
  PROVE  Dog!TimesTyped' /\ Dog!StampTells'
<1> DEFINE cron == s1  holder == s2  lastWeb == s3  tx == s4  now == s6  kept == s7
           Crons == Overdue.Crons
<1>1. Dog!RowsKnown /\ Dog!TimesTyped /\ Dog!StampTells
  BY DEF Dog!IInv
<1>2. /\ Dog!WatchTyped /\ Dog!SnapshotsHold
      /\ now \in Int /\ \A c \in Crons : cron[c].alerted \in Int
  BY <1>1 DEF Dog!RowsKnown, Dog!TimesTyped
<1>3. \A q \in Dog!Checkers : tx[q].pc = "checked" => tx[q].found \subseteq Crons
  BY <1>2, BegunSays DEF Dog!WatchTyped, Dog!Checked
<1>4. ASSUME NEW p \in Dog!Checkers, NEW t, t.pc # "checked", tx' = [tx EXCEPT ![p] = t],
             cron' = cron, now' = now, kept' = kept
      PROVE  Dog!TimesTyped' /\ Dog!StampTells'
  <2>1. \A q \in Dog!Checkers : tx'[q].pc = "checked" => tx'[q] = tx[q]
    BY <1>2, <1>4 DEF Dog!WatchTyped
  <2>2. \A c \in Crons : cron'[c] = [next |-> cron'[c].next, alerted |-> cron'[c].alerted]
    BY <1>1, <1>4 DEF Dog!TimesTyped
  <2> QED
    BY <1>1, <1>2, <1>3, <1>4, <2>1, <2>2, StampsStay
<1>5. ASSUME NEW p \in Dog!Checkers, Dog!Begin(p)
      PROVE  Dog!TimesTyped' /\ Dog!StampTells'
  <2> DEFINE t == [pc |-> "begun", seen |-> cron, web |-> lastWeb, enabled |-> s5,
                   touched |-> {}, webTouched |-> FALSE]
  <2>1. tx' = [tx EXCEPT ![p] = t] /\ cron' = cron /\ now' = now /\ kept' = kept
    BY <1>5 DEF Dog!Begin
  <2>2. t.pc # "checked"
    OBVIOUS
  <2> HIDE DEF t
  <2> QED
    BY <1>4, <2>1, <2>2
<1>6. ASSUME NEW p \in Dog!Checkers, Dog!Skip(p) \/ Dog!Rollback(p)
      PROVE  Dog!TimesTyped' /\ Dog!StampTells'
  <2>1. /\ tx' = [tx EXCEPT ![p] = Dog!NoTx] /\ cron' = cron /\ now' = now /\ kept' = kept
        /\ Dog!NoTx.pc # "checked"
    BY <1>6 DEF Dog!Skip, Dog!Rollback, Dog!NoTx
  <2> QED
    BY <1>4, <2>1
<1>7. ASSUME NEW p \in Dog!Checkers, Dog!Check(p)
      PROVE  Dog!TimesTyped' /\ Dog!StampTells'
  <2>1. PICK left : tx' = [tx EXCEPT ![p] =
          [pc |-> "checked", found |-> Dog!Lockable(tx[p]), time |-> now, left |-> left,
           webTouched |-> @.webTouched, touched |-> {}]]
    BY <1>7 DEF Dog!Check
  <2> DEFINE found == Dog!Lockable(tx[p])
             t == [pc |-> "checked", found |-> found, time |-> now, left |-> left,
                   webTouched |-> tx[p].webTouched, touched |-> {}]
  <2>2. tx' = [tx EXCEPT ![p] = t] /\ cron' = cron /\ now' = now /\ kept' = kept
    BY <1>2, <1>7, <2>1 DEF Dog!Check, Dog!WatchTyped
  <2>3. t.found = found /\ t.time = now
    OBVIOUS
  <2>4. ASSUME NEW c \in found
        PROVE  c \in Crons /\ cron[c].alerted <= now
    <3>1. /\ c \in Crons /\ tx[p].seen[c].alerted < now - Overdue.RealertHours
          /\ c \notin tx[p].touched /\ tx[p].pc = "begun"
      BY <1>7, <2>4 DEF Dog!Check, Dog!Abandoned, Dog!Lockable, Dog!Stale
    <3>2. tx[p].seen[c] = cron[c]
      BY <1>2, <3>1 DEF Dog!SnapshotsHold
    <3>3. Overdue.RealertHours \in Nat
      BY DEF Dog!Proper
    <3> QED
      BY <1>2, <3>1, <3>2, <3>3
  <2> HIDE DEF t, found
  <2>5. tx'[p] = t /\ \A q \in Dog!Checkers \ {p} : tx'[q] = tx[q]
    BY <1>2, <2>2 DEF Dog!WatchTyped
  <2>6. ASSUME NEW q \in Dog!Checkers, tx'[q].pc = "checked"
        PROVE  \/ /\ tx[q].pc = "checked"
                  /\ tx'[q].found = tx[q].found /\ tx'[q].time = tx[q].time
               \/ /\ tx'[q].time \in Int
                  /\ \A c \in tx'[q].found : c \in Crons /\ cron[c].alerted <= tx'[q].time
    <3>1. CASE q = p
      BY <1>2, <2>3, <2>4, <2>5, <3>1
    <3>2. CASE q # p
      BY <2>5, <2>6, <3>2
    <3> QED
      BY <3>1, <3>2
  <2>7. \A c \in Crons : cron'[c] = [next |-> cron'[c].next, alerted |-> cron'[c].alerted]
    BY <1>1, <2>2 DEF Dog!TimesTyped
  <2> QED
    BY <1>1, <1>2, <1>3, <2>2, <2>6, <2>7, StampsStay
<1>8. ASSUME NEW p \in Dog!Checkers, Dog!Commit(p)
      PROVE  Dog!TimesTyped' /\ Dog!StampTells'
  BY <1>1, <1>8, StampsWritten
<1>9. ASSUME NEW c \in Crons, Dog!RunEnd(c)
      PROVE  Dog!TimesTyped' /\ Dog!StampTells'
  <2>1. /\ cron' = [cron EXCEPT ![c].next = now + Overdue.Interval]
        /\ now' = now /\ kept' = kept /\ tx' = Dog!Spoil(Dog!Scheduler, {c}, FALSE)
    BY <1>9 DEF Dog!RunEnd
  <2>2. \A q \in Dog!Checkers : tx'[q].pc = "checked" =>
          /\ tx[q].pc = "checked"
          /\ tx'[q].found = tx[q].found /\ tx'[q].time = tx[q].time
    BY <1>2, <2>1, SpoiledKeeps
  <2>3. /\ cron'[c] = [next |-> now + Overdue.Interval, alerted |-> cron[c].alerted]
        /\ \A d \in Crons \ {c} : cron'[d] = cron[d]
    <3>1. /\ cron'[c] = [cron[c] EXCEPT !.next = now + Overdue.Interval]
          /\ \A d \in Crons \ {c} : cron'[d] = cron[d]
      BY <1>2, <2>1 DEF Dog!WatchTyped
    <3>2. cron[c] = [next |-> cron[c].next, alerted |-> cron[c].alerted]
      BY <1>1 DEF Dog!TimesTyped
    <3> QED
      BY <3>1, <3>2
  <2>4. /\ \A d \in Crons : cron'[d].alerted = cron[d].alerted
        /\ \A d \in Crons : cron'[d] = [next |-> cron'[d].next, alerted |-> cron'[d].alerted]
    BY <1>1, <2>3 DEF Dog!TimesTyped
  <2> QED
    BY <1>1, <1>2, <1>3, <2>1, <2>2, <2>4, StampsStay
<1>10. CASE (\E c \in Crons : Dog!RunStart(c)) \/ Dog!Tick \/ UNCHANGED Dog!vars
  <2>1. cron' = cron /\ tx' = tx /\ kept' = kept /\ now' \in {now, now + 1}
    BY <1>10 DEF Dog!RunStart, Dog!Tick, Dog!vars
  <2>2. \A c \in Crons : cron'[c] = [next |-> cron'[c].next, alerted |-> cron'[c].alerted]
    BY <1>1, <2>1 DEF Dog!TimesTyped
  <2> QED
    BY <1>1, <1>2, <1>3, <2>1, <2>2, StampsStay
<1> QED
  BY <1>5, <1>6, <1>7, <1>8, <1>9, <1>10 DEF Dog!Next

LEMMA WatchBegins ==
  ASSUME Dog!Proper, Dog!Init
  PROVE  Dog!IInv
<1> DEFINE tx == s4
<1>1. \A p \in Dog!Checkers : tx[p].pc = "none"
  BY DEF Dog!Init, Dog!NoTx
<1>2. Dog!TimesTyped
  BY <1>1 DEF Dog!Init, Dog!Proper, Dog!Never, Dog!TimesTyped
<1>3. Dog!StampTells
  BY <1>1 DEF Dog!Init, Dog!StampTells
<1> QED
  BY <1>2, <1>3, RowsBegin DEF Dog!IInv

LEMMA WatchStep ==
  ASSUME Dog!Proper, Dog!IInv, [Dog!Next]_(Dog!vars)
  PROVE  Dog!IInv'
  BY RowsStep, StampStep DEF Dog!IInv

\* A check that locks its rows finds them as its snapshot says, and in no other check.
LEMMA AlertsFollow ==
  ASSUME Dog!Proper, Dog!IInv
  PROVE  Dog!AlertsAreDue
<1> DEFINE cron == s1  holder == s2  tx == s4  now == s6  Crons == Overdue.Crons
           Lag == Overdue.Lag  RealertHours == Overdue.RealertHours
<1> SUFFICES ASSUME NEW p \in Dog!Checkers, Dog!Check(p), NEW c \in tx'[p].found
             PROVE  /\ cron[c].next < now - Lag /\ holder[c] # Dog!Scheduler
                    /\ \A time \in s7[c] : time < now - RealertHours
                    /\ \A q \in Dog!Checkers \ {p} : tx[q].pc = "checked" => c \notin tx[q].found
  BY DEF Dog!AlertsAreDue
<1>1. /\ Dog!WatchTyped /\ Dog!SnapshotsHold /\ Dog!FoundHeld
      /\ Dog!TimesTyped /\ Dog!StampTells
  BY DEF Dog!IInv, Dog!RowsKnown
<1> DEFINE found == Dog!Lockable(tx[p])
<1>2. tx[p].pc = "begun" /\ found \cap tx[p].touched = {}
  BY DEF Dog!Check, Dog!Abandoned
<1>3. PICK left : tx'[p] =
        [pc |-> "checked", found |-> found, time |-> now, left |-> left,
         webTouched |-> tx[p].webTouched, touched |-> {}]
  BY <1>1 DEF Dog!Check, Dog!WatchTyped
<1>4. c \in found
  BY <1>3
<1>5. /\ c \in Crons /\ holder[c] = Dog!Free
      /\ tx[p].seen[c].next < now - Lag /\ tx[p].seen[c].alerted < now - RealertHours
  BY <1>4 DEF Dog!Lockable, Dog!Stale
<1>6. tx[p].seen[c] = cron[c]
  BY <1>1, <1>2, <1>4, <1>5 DEF Dog!SnapshotsHold
<1>7. Dog!Free # Dog!Scheduler
  BY DEF Dog!Free, Dog!Scheduler
<1>8. ASSUME NEW time \in s7[c] PROVE time < now - RealertHours
  <2>1. time <= cron[c].alerted /\ time \in Int /\ cron[c].alerted \in Int /\ now \in Int
    BY <1>1, <1>5, <1>8 DEF Dog!TimesTyped, Dog!StampTells
  <2> QED
    BY <1>5, <1>6, <2>1 DEF Dog!Proper
<1> QED
  BY <1>1, <1>5, <1>6, <1>7, <1>8 DEF Dog!FoundHeld, Dog!Proper

\* A check names an action that is overdue, is not being run, and is named by no other
\* check and by no alert of the last day that left from a check that was committed; one
\* whose check was rolled back does not count (_watchdog_check, FOR NO KEY UPDATE SKIP
\* LOCKED).
THEOREM AlertsAreDueAlways == Spec => AlertsAreDue
<1>1. Init => (part = "watchdog" => Dog!IInv)
  BY WatchBegins, AddOnsAssumption DEF Init
<1>2. (part = "watchdog" => Dog!IInv) /\ [Next]_vars => (part = "watchdog" => Dog!IInv)'
  <2> SUFFICES ASSUME part = "watchdog" => Dog!IInv, [Next]_vars, part' = "watchdog"
               PROVE  Dog!IInv'
    OBVIOUS
  <2>1. part = "watchdog" /\ [Dog!Next]_(Dog!vars)
    BY PartStays DEF Next, vars, Dog!vars
  <2> QED
    BY <2>1, WatchStep, AddOnsAssumption
<1>3. (part = "watchdog" => Dog!IInv) /\ [Next]_vars =>
        [part = "watchdog" => Dog!AlertsAreDue]_vars
  BY AlertsFollow, AddOnsAssumption
<1> QED
  BY <1>1, <1>2, <1>3, PTL DEF Spec, AlertsAreDue

-----------------------------------------------------------------------------
(* Counts of the parts of a set *)

\* The sizes of the parts of a finite set.
LEMMA PartsCount ==
  ASSUME NEW S, IsFiniteSet(S), NEW T
  PROVE  /\ IsFiniteSet(S \cap T) /\ IsFiniteSet(S \ T)
         /\ Cardinality(S) \in Nat /\ Cardinality(S \cap T) \in Nat /\ Cardinality(S \ T) \in Nat
         /\ Cardinality(S) = Cardinality(S \cap T) + Cardinality(S \ T)
<1>1. IsFiniteSet(S \cap T) /\ IsFiniteSet(S \ T)
  BY FS_Subset
<1>2. Cardinality(S) \in Nat /\ Cardinality(S \cap T) \in Nat /\ Cardinality(S \ T) \in Nat
  BY <1>1, FS_CardinalityType
<1> DEFINE P == S \cap T  Q == S \ T
<1>3. P \cup Q = S /\ P \cap Q = {}
  OBVIOUS
<1> HIDE DEF P, Q
<1>4. Cardinality(P \cup Q) = Cardinality(P) + Cardinality(Q) - Cardinality(P \cap Q)
  BY <1>1, FS_Union DEF P, Q
<1>5. Cardinality(P \cap Q) = 0
  BY <1>3, FS_EmptySet
<1>6. Cardinality(S) = Cardinality(P) + Cardinality(Q)
  <2>1. Cardinality(P) \in Nat /\ Cardinality(Q) \in Nat
    BY <1>2 DEF P, Q
  <2> QED
    BY <1>3, <1>4, <1>5, <2>1
<1> QED
  BY <1>1, <1>2, <1>6 DEF P, Q

-----------------------------------------------------------------------------
(* OwnerReassign: a run that commits saw every record that it writes as it *)
(* is, and its numbers are those of all that it was asked.                 *)

LEMMA OwnersCounted ==
  /\ \A S : Own!Cardinality(S) = Cardinality(S)
  /\ \A S : Own!IsFiniteSet(S) <=> IsFiniteSet(S)
<1>1. \A S : Own!Cardinality(S) = Cardinality(S)
  BY DEF Own!Cardinality, Own!IsFiniteSet, Cardinality, IsFiniteSet
<1>2. \A S : Own!IsFiniteSet(S) <=> IsFiniteSet(S)
  BY DEF Own!IsFiniteSet, IsFiniteSet
<1> QED
  BY <1>1, <1>2

LEMMA HandoverBegins == ASSUME Own!Init PROVE Own!IInv
BY DEF Own!Init, Own!IInv, Own!RunHolds, Own!NoRun

LEMMA HandoverStep == ASSUME Own!IInv, [Own!Next]_(Own!vars) PROVE Own!IInv'
<1> DEFINE owners == s2  run == s3  Records == Owners.Records
<1>1. CASE Own!ReassignStart
  <2>1. PICK in \in Own!Inputs :
          run' = [pc |-> "running", in |-> in, seen |-> owners, touched |-> {}]
    BY <1>1 DEF Own!ReassignStart
  <2> QED
    BY <1>1, <2>1 DEF Own!ReassignStart, Own!IInv, Own!RunHolds, Own!Inputs
<1>2. CASE Own!ReassignCommit
  <2>1. run'.pc = "done" /\ DOMAIN owners' = DOMAIN owners
    BY <1>2 DEF Own!ReassignCommit
  <2> QED
    BY <2>1 DEF Own!IInv, Own!RunHolds
<1>3. CASE Own!ReassignFails \/ Own!Close
  <2>1. run'.pc = "idle" /\ owners' = owners
    BY <1>3 DEF Own!ReassignFails, Own!Close, Own!NoRun
  <2> QED
    BY <2>1 DEF Own!IInv, Own!RunHolds
<1>4. ASSUME NEW r \in Records, Own!EditOwners(r) \/ Own!Delete(r) PROVE Own!IInv'
  <2>1. /\ run' = IF run.pc = "running" THEN [run EXCEPT !.touched = @ \cup {r}] ELSE run
        /\ DOMAIN owners' \subseteq DOMAIN owners
        /\ \A s \in DOMAIN owners \ {r} : s \in DOMAIN owners' /\ owners'[s] = owners[s]
    BY <1>4 DEF Own!EditOwners, Own!Delete, Own!Editing
  <2>2. CASE run.pc = "running"
    <3> DEFINE in == run.in  seen == run.seen  touched == run.touched
    <3>1. run = [pc |-> "running", in |-> in, seen |-> seen, touched |-> touched]
      BY <2>2 DEF Own!IInv, Own!RunHolds
    <3> HIDE DEF in, seen, touched
    <3>2. run' = [pc |-> "running", in |-> in, seen |-> seen, touched |-> touched \cup {r}]
      BY <2>1, <2>2, <3>1
    <3>3. /\ run'.in = in /\ run'.seen = seen /\ run'.touched = touched \cup {r}
          /\ run.in = in /\ run.seen = seen /\ run.touched = touched
      BY <3>2 DEF in, seen, touched
    <3> QED
      BY <2>1, <2>2, <3>2, <3>3 DEF Own!IInv, Own!RunHolds, Own!Inputs
  <2>3. CASE run.pc # "running"
    BY <2>1, <2>3 DEF Own!IInv, Own!RunHolds
  <2> QED
    BY <2>2, <2>3
<1>5. CASE UNCHANGED Own!vars
  BY <1>5 DEF Own!vars, Own!IInv, Own!RunHolds, Own!Inputs
<1> QED
  BY <1>1, <1>2, <1>3, <1>4, <1>5 DEF Own!Next

\* What a run writes it saw as it is, so that it changes just what it counts; and what it
\* counts, with what it leaves, is all that it was asked to hand over.
LEMMA RecordsHandedOver == ASSUME Own!Proper, Own!IInv PROVE Own!HandsOver
<1> DEFINE many == s1  owners == s2  run == s3  Records == Owners.Records  Denied == Owners.Denied
           Refusing == Owners.Refusing
<1> DEFINE in == run.in  seen == run.seen
           changed == {r \in DOMAIN owners : owners'[r] # owners[r]}
           done == Own!ToHand(run) \ (Denied \cup Refusing)
           asked == IF in.scope = "user" THEN Own!Matching(in, seen)
                    ELSE in.selection \ (Own!First(in.selection) \ DOMAIN seen)
<1> SUFFICES ASSUME Own!ReassignCommit
             PROVE  /\ \A r \in changed :
                         /\ r \notin Denied /\ owners[r] = seen[r]
                         /\ in.new \in owners'[r]
                         /\ many => owners[r] \ owners'[r] \subseteq {in.old}
                    /\ run'.reassigned = Own!Cardinality(changed)
                    /\ run'.reassigned + run'.unchanged + run'.skipped + run'.failed
                         + run'.remaining = Own!Cardinality(asked)
  BY DEF Own!HandsOver
<1>1. /\ run.pc = "running"
      /\ (Own!ToHand(run) \ Denied) \cap run.touched = {}
      /\ owners' = [r \in DOMAIN owners |-> IF r \in done THEN Own!Handed(in, owners[r]) ELSE owners[r]]
      /\ run'.reassigned = Own!Cardinality(done)
      /\ run'.skipped = Own!Cardinality(Own!ToHand(run) \cap Denied)
      /\ run'.failed = Own!Cardinality(Own!ToHand(run) \ (Denied \cup done))
      /\ run'.unchanged = Own!Cardinality(Own!Targets(in, seen) \ Own!ToHand(run))
      /\ run'.remaining = Own!Remaining(in, seen)
  BY DEF Own!ReassignCommit, Own!Conflict
<1>2. /\ in \in Own!Inputs /\ DOMAIN seen \subseteq Records
      /\ \A r \in DOMAIN seen \ run.touched : r \in DOMAIN owners /\ owners[r] = seen[r]
  BY <1>1 DEF Own!IInv, Own!RunHolds
<1>3. Own!ToHand(run) \subseteq Own!Targets(in, seen) /\ Own!Targets(in, seen) \subseteq DOMAIN seen
  BY DEF Own!ToHand, Own!Targets, Own!First, Own!Matching
<1>4. \A r \in done : r \in DOMAIN owners /\ owners[r] = seen[r] /\ Own!Handed(in, seen[r]) # seen[r]
  BY <1>1, <1>2, <1>3 DEF Own!ToHand
<1>5. changed = done
  BY <1>1, <1>4
<1>6. \A r \in done :
        /\ r \notin Denied /\ owners[r] = seen[r] /\ in.new \in owners'[r]
        /\ many => owners[r] \ owners'[r] \subseteq {in.old}
  BY <1>1, <1>4 DEF Own!Handed
<1>7. Own!IsFiniteSet(Own!Targets(in, seen)) /\ Own!IsFiniteSet(Own!ToHand(run))
  BY <1>2, <1>3, FS_Subset, OwnersCounted DEF Own!Proper
<1> DEFINE all == Own!Targets(in, seen)  hand == Own!ToHand(run)  writable == hand \ Denied
<1>8. Own!Cardinality(all) = Own!Cardinality(done) + Own!Cardinality(all \ hand)
        + Own!Cardinality(hand \cap Denied) + Own!Cardinality(hand \ (Denied \cup done))
  <2>1. all \cap hand = hand /\ writable \cap done = done /\ writable \ done = hand \ (Denied \cup done)
    BY <1>3
  <2> HIDE DEF all, hand, done
  <2>2. /\ Own!Cardinality(all) = Own!Cardinality(hand) + Own!Cardinality(all \ hand)
        /\ Own!Cardinality(all \ hand) \in Nat
    BY <1>7, <2>1, PartsCount, OwnersCounted DEF all
  <2>3. /\ Own!Cardinality(hand) = Own!Cardinality(hand \cap Denied) + Own!Cardinality(writable)
        /\ Own!IsFiniteSet(writable) /\ Own!Cardinality(hand \cap Denied) \in Nat
    BY <1>7, PartsCount, OwnersCounted DEF hand
  <2> HIDE DEF writable
  <2>4. /\ Own!Cardinality(writable) = Own!Cardinality(done) + Own!Cardinality(writable \ done)
        /\ Own!Cardinality(done) \in Nat /\ Own!Cardinality(writable \ done) \in Nat
    BY <2>1, <2>3, PartsCount, OwnersCounted
  <2>5. Own!Cardinality(writable \ done) = Own!Cardinality(hand \ (Denied \cup done))
    BY <2>1
  <2> QED
    BY <2>2, <2>3, <2>4, <2>5
<1> HIDE DEF all, hand, writable, done
<1>9. /\ Own!Cardinality(done) \in Nat /\ Own!Cardinality(all \ hand) \in Nat
      /\ Own!Cardinality(hand \cap Denied) \in Nat /\ Own!Cardinality(hand \ (Denied \cup done)) \in Nat
      /\ Own!Cardinality(all) \in Nat
  <2>1. /\ Own!IsFiniteSet(all) /\ Own!IsFiniteSet(hand)
    BY <1>7 DEF all, hand
  <2>2. done \subseteq hand
    BY DEF done, hand
  <2>3. Own!IsFiniteSet(done) /\ Own!IsFiniteSet(hand \ (Denied \cup done))
    BY <2>1, <2>2, FS_Subset, OwnersCounted
  <2> QED
    BY <2>1, <2>3, PartsCount, FS_CardinalityType, OwnersCounted
<1>10. Own!Cardinality(all) + Own!Remaining(in, seen) = Own!Cardinality(asked)
  <2>1. CASE in.scope = "user"
    <3> DEFINE matching == Own!Matching(in, seen)
    <3>1. all = Own!First(matching) /\ Own!Remaining(in, seen) = Own!Cardinality(matching) - Own!Cardinality(Own!First(matching))
      BY <2>1 DEF all, Own!Targets, Own!Remaining
    <3>2. Own!IsFiniteSet(matching)
      <4>1. matching \subseteq Records
        BY <1>2 DEF Own!Matching
      <4> QED
        BY <4>1, FS_Subset, OwnersCounted DEF Own!Proper
    <3>3. Own!Cardinality(matching) \in Nat
      BY <3>2, FS_CardinalityType, OwnersCounted
    <3>4. asked = matching
      BY <2>1
    <3> QED
      BY <1>9, <3>1, <3>3, <3>4
  <2>2. CASE in.scope # "user"
    <3> DEFINE sel == in.selection  first == Own!First(in.selection)  gone == first \ DOMAIN seen
    <3>1. /\ all = first \cap DOMAIN seen /\ asked = sel \ gone
          /\ Own!Remaining(in, seen) = Own!Cardinality(sel) - Own!Cardinality(first)
      BY <2>2 DEF all, Own!Targets, Own!Remaining
    <3>2. sel \subseteq Records /\ first \subseteq sel
      BY <1>2, <2>2 DEF Own!Inputs, Own!First
    <3>3. Own!IsFiniteSet(sel) /\ Own!IsFiniteSet(first)
      BY <3>2, FS_Subset, OwnersCounted DEF Own!Proper
    <3> HIDE DEF sel, first, asked
    <3>4. /\ Own!Cardinality(first) = Own!Cardinality(all) + Own!Cardinality(gone)
          /\ Own!Cardinality(gone) \in Nat
      BY <3>1, <3>3, PartsCount, OwnersCounted
    <3>5. sel \cap gone = gone
      BY <3>2
    <3> HIDE DEF gone, asked
    <3>6. Own!Cardinality(sel) = Own!Cardinality(gone) + Own!Cardinality(sel \ gone) /\ Own!Cardinality(sel \ gone) \in Nat
      BY <3>3, <3>5, PartsCount, OwnersCounted
    <3>7. Own!Cardinality(asked) = Own!Cardinality(sel \ gone)
      BY <3>1
    <3> QED
      BY <1>9, <3>1, <3>4, <3>6, <3>7
  <2> QED
    BY <2>1, <2>2
<1>11. /\ run'.reassigned = Own!Cardinality(done) /\ run'.skipped = Own!Cardinality(hand \cap Denied)
       /\ run'.failed = Own!Cardinality(hand \ (Denied \cup done))
       /\ run'.unchanged = Own!Cardinality(all \ hand) /\ run'.remaining = Own!Remaining(in, seen)
  BY <1>1 DEF all, hand
<1>12. Own!Remaining(in, seen) \in Int
  <2>1. ASSUME NEW rs, rs \subseteq Records
        PROVE  Own!Cardinality(rs) \in Nat /\ Own!Cardinality(Own!First(rs)) \in Nat
    <3>1. Own!First(rs) \subseteq Records
      BY <2>1 DEF Own!First
    <3>2. Own!IsFiniteSet(rs) /\ Own!IsFiniteSet(Own!First(rs))
      BY <2>1, <3>1, FS_Subset, OwnersCounted DEF Own!Proper
    <3> QED
      BY <3>2, FS_CardinalityType, OwnersCounted
  <2>2. Own!Matching(in, seen) \subseteq Records /\ in.selection \subseteq Records
    BY <1>2 DEF Own!Matching, Own!Inputs
  <2> QED
    BY <2>1, <2>2 DEF Own!Remaining
<1> HIDE DEF asked
<1>13. run'.reassigned + run'.unchanged + run'.skipped + run'.failed + run'.remaining
         = Own!Cardinality(asked)
  BY <1>8, <1>9, <1>10, <1>11, <1>12
<1> QED
  BY <1>1, <1>5, <1>6, <1>13 DEF asked
-----------------------------------------------------------------------------
(* PermissionDiff: a user has all that the groups of theirs imply, and a   *)
(* copy that nobody disturbed was computed for the target as it is.        *)

LEMMA PermissionsCounted ==
  /\ \A S : Per!Cardinality(S) = Cardinality(S)
  /\ \A S : Per!IsFiniteSet(S) <=> IsFiniteSet(S)
<1>1. \A S : Per!Cardinality(S) = Cardinality(S)
  BY DEF Per!Cardinality, Per!IsFiniteSet, Cardinality, IsFiniteSet
<1>2. \A S : Per!IsFiniteSet(S) <=> IsFiniteSet(S)
  BY DEF Per!IsFiniteSet, IsFiniteSet
<1> QED
  BY <1>1, <1>2

\* The closure of a set of groups is the least closed one that holds it.
LEMMA ClosureIsClosed == ASSUME Per!Proper, NEW gs PROVE Per!Closure(gs) \subseteq Permissions.Groups /\ Per!Closed(Per!Closure(gs))
<1> DEFINE Groups == Permissions.Groups  Implied == Permissions.Implied
<1>1. ASSUME NEW p \in Implied, p[1] \in Per!Closure(gs) PROVE p[2] \in Per!Closure(gs)
  <2>1. p[1] \in Groups /\ p[2] \in Groups
    BY DEF Per!Proper
  <2>2. ASSUME NEW all \in SUBSET Groups, gs \subseteq all, Per!Closed(all) PROVE p[2] \in all
    <3>1. p[1] \in all
      BY <1>1, <2>2 DEF Per!Closure
    <3> QED
      BY <2>2, <3>1 DEF Per!Closed
  <2> QED
    BY <2>1, <2>2 DEF Per!Closure
<1> QED
  BY <1>1 DEF Per!Closed, Per!Closure

LEMMA ClosureHolds == ASSUME NEW gs \in SUBSET Permissions.Groups PROVE gs \subseteq Per!Closure(gs)
BY DEF Per!Closure

LEMMA ClosureIsLeast ==
  ASSUME NEW gs, NEW all \in SUBSET Permissions.Groups, Per!Closed(all), gs \subseteq all
  PROVE  Per!Closure(gs) \subseteq all
BY DEF Per!Closure

LEMMA ClosureOfClosed == ASSUME NEW gs \in SUBSET Permissions.Groups, Per!Closed(gs) PROVE Per!Closure(gs) = gs
BY ClosureHolds, ClosureIsLeast

\* What a copy leaves with the target is what either had.
LEMMA LinkedIsBoth ==
  ASSUME Per!Proper, NEW a \in SUBSET Permissions.Groups, NEW b \in SUBSET Permissions.Groups,
         Per!Closed(a), Per!Closed(b)
  PROVE  /\ Per!ToGrant(b, a) = a \ b
         /\ Per!Linked(b, Per!ToGrant(b, a)) = a \cup b
         /\ Per!Closed(a \cup b)
<1>1. Per!ToGrant(b, a) = a \ b
  BY ClosureOfClosed DEF Per!ToGrant
<1>2. b \cup (a \ b) = a \cup b
  OBVIOUS
<1>3. Per!Closed(a \cup b)
  BY DEF Per!Closed
<1>4. Per!Closure(a \cup b) = a \cup b
  BY <1>3, ClosureOfClosed
<1> QED
  BY <1>1, <1>2, <1>3, <1>4 DEF Per!Linked, Per!Stored

LEMMA CopyBegins == ASSUME Per!Proper, Per!Init PROVE Per!IInv
<1> DEFINE assigned == s1  Groups == Permissions.Groups
<1>1. \A gs \in SUBSET Groups : Per!Stored(gs) \in {x \in SUBSET Groups : Per!Closed(x)}
  BY ClosureIsClosed DEF Per!Stored
<1>2. Per!HasAll(assigned)
  BY <1>1 DEF Per!Init, Per!HasAll
<1> QED
  BY <1>2 DEF Per!Init, Per!IInv, Per!CopyHolds, Per!NoScreen, Per!NoDialog, Per!NoCopy

LEMMA CopyStep == ASSUME Per!Proper, Per!IInv, [Per!Next]_(Per!vars) PROVE Per!IInv'
<1> DEFINE assigned == s1  screen == s2  dialog == s3  copy == s4  Users == Permissions.Users
           Groups == Permissions.Groups  Protected == Permissions.Protected
<1>1. ASSUME NEW mode \in {"effective", "assigned"}, NEW ua \in Users, NEW ub \in Users,
             Per!Compare(mode, ua, ub)
      PROVE  Per!IInv'
  <2>1. /\ assigned' = assigned /\ copy' = copy /\ copy.pc = "none" /\ dialog' = Per!NoDialog
        /\ screen'.a = ua /\ screen'.b = ub /\ ua # ub
    BY <1>1 DEF Per!Compare, Per!Comparison
  <2> QED
    BY <2>1 DEF Per!IInv, Per!CopyHolds, Per!HasAll, Per!Others, Per!NoDialog
<1>2. CASE Per!OpenCopy
  <2>1. /\ assigned' = assigned /\ copy' = copy /\ copy.pc = "none" /\ screen' = screen
        /\ dialog'.a = screen.a /\ dialog'.b = screen.b /\ screen.b \notin Protected
        /\ screen.pc = "computed"
    BY <1>2 DEF Per!OpenCopy
  <2> QED
    BY <2>1 DEF Per!IInv, Per!CopyHolds, Per!HasAll, Per!Others
<1>3. CASE Per!ApplyStart
  <2> DEFINE groups == Per!Granted(dialog)  after == Per!Linked(assigned[dialog.b], groups)
  <2>1. /\ copy' = [pc |-> "open", seen |-> assigned, groups |-> groups, after |-> after,
                    stale |-> FALSE]
        /\ assigned' = assigned /\ screen' = screen /\ dialog' = dialog
        /\ dialog.pc = "open" /\ Per!OneType(after)
    BY <1>3 DEF Per!ApplyStart
  <2>2. groups = Per!ToGrant(assigned[dialog.b], assigned[dialog.a])
    BY DEF Per!Granted
  <2> HIDE DEF groups
  <2>3. /\ copy'.seen = assigned /\ copy'.groups = groups /\ copy'.after = after
        /\ copy'.stale = FALSE
    BY <2>1
  <2>4. Per!CopyHolds'
    BY <2>1, <2>2, <2>3 DEF Per!IInv, Per!CopyHolds, Per!HasAll
  <2> QED
    BY <2>1, <2>4 DEF Per!IInv, Per!HasAll, Per!Others
<1>4. CASE Per!ApplyCommit
  <2>1. /\ copy.pc = "open" /\ assigned' = [assigned EXCEPT ![dialog.b] = copy.after]
        /\ screen'.a = dialog.a /\ screen'.b = dialog.b
        /\ dialog'.pc = "none" /\ copy'.pc = "none"
    BY <1>4 DEF Per!ApplyCommit, Per!Comparison, Per!NoDialog, Per!NoCopy
  <2>2. /\ Per!HasAll(copy.seen) /\ Per!Others(dialog)
        /\ copy.after = Per!Linked(copy.seen[dialog.b],
                               Per!ToGrant(copy.seen[dialog.b], copy.seen[dialog.a]))
    BY <2>1 DEF Per!IInv, Per!CopyHolds
  <2>3. copy.after \in {gs \in SUBSET Groups : Per!Closed(gs)}
    <3> DEFINE a == copy.seen[dialog.a]  b == copy.seen[dialog.b]
    <3>1. a \in SUBSET Groups /\ b \in SUBSET Groups /\ Per!Closed(a) /\ Per!Closed(b)
      BY <2>2 DEF Per!HasAll, Per!Others
    <3>2. copy.after = Per!Linked(b, Per!ToGrant(b, a))
      BY <2>2
    <3> HIDE DEF a, b
    <3>3. copy.after = a \cup b /\ Per!Closed(a \cup b)
      BY <3>1, <3>2, LinkedIsBoth
    <3> QED
      BY <3>1, <3>3
  <2>4. Per!HasAll(assigned')
    BY <2>1, <2>2, <2>3 DEF Per!IInv, Per!HasAll, Per!Others
  <2> QED
    BY <2>1, <2>2, <2>4 DEF Per!IInv, Per!CopyHolds, Per!Others, Per!HasAll
<1>5. CASE Per!ApplyAgain
  <2>1. assigned' = assigned /\ screen' = screen /\ dialog' = dialog /\ copy'.pc = "none"
    BY <1>5 DEF Per!ApplyAgain, Per!NoCopy
  <2> QED
    BY <2>1 DEF Per!IInv, Per!CopyHolds, Per!HasAll, Per!Others
<1>6. ASSUME NEW u \in Users, Per!EditUser(u) PROVE Per!IInv'
  <2>1. PICK gs \in SUBSET Groups : assigned' = [assigned EXCEPT ![u] = Per!Stored(gs)]
    BY <1>6 DEF Per!EditUser
  <2>2. /\ screen' = screen /\ dialog' = dialog
        /\ copy' = IF copy.pc = "open" /\ u = dialog.b THEN [copy EXCEPT !.stale = TRUE] ELSE copy
    BY <1>6 DEF Per!EditUser
  <2>3. Per!Stored(gs) \in {x \in SUBSET Groups : Per!Closed(x)}
    BY ClosureIsClosed DEF Per!Stored
  <2>4. Per!HasAll(assigned')
    BY <2>1, <2>3 DEF Per!IInv, Per!HasAll
  <2>5. Per!CopyHolds'
    <3>1. CASE copy.pc # "open"
      BY <2>2, <3>1 DEF Per!CopyHolds
    <3>2. CASE copy.pc = "open" /\ u = dialog.b
      <4> DEFINE seen == copy.seen  groups == copy.groups  after == copy.after
                 stale == copy.stale
      <4>1. copy = [pc |-> "open", seen |-> seen, groups |-> groups, after |-> after,
                    stale |-> stale]
        BY <3>2 DEF Per!IInv, Per!CopyHolds
      <4> HIDE DEF seen, groups, after, stale
      <4>2. copy' = [pc |-> "open", seen |-> seen, groups |-> groups, after |-> after,
                     stale |-> TRUE]
        BY <2>2, <3>2, <4>1
      <4>3. /\ copy'.seen = seen /\ copy'.groups = groups /\ copy'.after = after
            /\ copy'.stale = TRUE
        BY <4>2
      <4>4. /\ Per!HasAll(seen) /\ dialog.pc = "open"
            /\ groups = Per!ToGrant(seen[dialog.b], seen[dialog.a])
            /\ after = Per!Linked(seen[dialog.b], groups) /\ Per!OneType(after)
        BY <3>2 DEF Per!IInv, Per!CopyHolds, seen, groups, after
      <4> QED
        BY <2>2, <4>2, <4>3, <4>4 DEF Per!CopyHolds, Per!HasAll
    <3>3. CASE copy.pc = "open" /\ u # dialog.b
      <4>1. copy' = copy /\ assigned'[dialog.b] = assigned[dialog.b]
        BY <2>1, <2>2, <3>3 DEF Per!IInv, Per!CopyHolds, Per!HasAll, Per!Others
      <4> QED
        BY <2>2, <3>3, <4>1 DEF Per!IInv, Per!CopyHolds, Per!HasAll
    <3> QED
      BY <3>1, <3>2, <3>3
  <2> QED
    BY <2>2, <2>4, <2>5 DEF Per!IInv, Per!Others
<1>7. CASE UNCHANGED Per!vars
  BY <1>7 DEF Per!vars, Per!IInv, Per!CopyHolds, Per!HasAll, Per!Others
<1> QED
  BY <1>1, <1>2, <1>3, <1>4, <1>5, <1>6, <1>7 DEF Per!Next

\* What the target gets is what the source had and it had not.
LEMMA CopyAdds ==
  ASSUME Per!Proper, Per!IInv, Per!ApplyCommit
  PROVE  \E a, b \in SUBSET Permissions.Groups :
           /\ Per!Closed(a) /\ Per!Closed(b) /\ s1[s3.b] = b
           /\ s4.seen[s3.a] = a /\ s4.seen[s3.b] = b
           /\ s4.groups = a \ b /\ s4.after = a \cup b /\ Per!Closed(a \cup b)
           /\ s1'[s3.b] = a \cup b /\ Per!OneType(a \cup b)
           /\ s3.b \notin Permissions.Protected /\ Per!Others(s3) /\ Per!HasAll(s4.seen)
<1> DEFINE assigned == s1  dialog == s3  copy == s4  Groups == Permissions.Groups
           Protected == Permissions.Protected
<1>1. /\ copy.pc = "open" /\ ~copy.stale
      /\ assigned' = [assigned EXCEPT ![dialog.b] = copy.after]
  BY DEF Per!ApplyCommit
<1>2. /\ Per!HasAll(assigned) /\ Per!HasAll(copy.seen) /\ Per!Others(dialog) /\ dialog.b \notin Protected
      /\ copy.groups = Per!ToGrant(copy.seen[dialog.b], copy.seen[dialog.a])
      /\ copy.after = Per!Linked(copy.seen[dialog.b], copy.groups) /\ Per!OneType(copy.after)
      /\ assigned[dialog.b] = copy.seen[dialog.b]
  BY <1>1 DEF Per!IInv, Per!CopyHolds
<1> DEFINE a == copy.seen[dialog.a]  b == copy.seen[dialog.b]
<1>3. a \in SUBSET Groups /\ b \in SUBSET Groups /\ Per!Closed(a) /\ Per!Closed(b)
  BY <1>2 DEF Per!HasAll, Per!Others
<1>4. copy.groups = Per!ToGrant(b, a) /\ copy.after = Per!Linked(b, Per!ToGrant(b, a))
  BY <1>2
<1>5. assigned[dialog.b] = b /\ assigned'[dialog.b] = copy.after
  BY <1>1, <1>2 DEF Per!HasAll, Per!Others
<1>6. a = copy.seen[dialog.a] /\ b = copy.seen[dialog.b]
  OBVIOUS
<1> HIDE DEF a, b
<1>7. copy.groups = a \ b /\ copy.after = a \cup b /\ Per!Closed(a \cup b)
  BY <1>3, <1>4, LinkedIsBoth
<1> QED
  BY <1>2, <1>3, <1>5, <1>6, <1>7

LEMMA CopiesOnlyAdd == ASSUME Per!Proper, Per!IInv PROVE Per!CopyOnlyAdds
<1> DEFINE assigned == s1  dialog == s3  copy == s4  Protected == Permissions.Protected
<1> SUFFICES ASSUME Per!ApplyCommit
             PROVE  /\ assigned[dialog.b] \subseteq assigned'[dialog.b]
                    /\ copy.groups = assigned'[dialog.b] \ assigned[dialog.b]
                    /\ Per!OneType(assigned'[dialog.b])
                    /\ dialog.b \notin Protected
  BY DEF Per!CopyOnlyAdds
<1> QED
  BY CopyAdds

LEMMA GapsAreClosed == ASSUME Per!Proper, Per!IInv PROVE Per!GapClosed
<1> DEFINE screen == s2  dialog == s3  copy == s4  Groups == Permissions.Groups
           Models == Permissions.Models  Ops == Permissions.Ops
<1> SUFFICES ASSUME Per!ApplyCommit
             PROVE  /\ \A g \in DOMAIN screen'.lines : screen'.lines[g].side # "only_a"
                    /\ DOMAIN screen'.gains_a = {} /\ screen'.copies = 0
  BY DEF Per!GapClosed
<1>1. PICK a, b \in SUBSET Groups :
           /\ Per!Closed(a) /\ Per!Closed(b) /\ copy.seen[dialog.a] = a /\ copy.after = a \cup b
           /\ Per!Closed(a \cup b) /\ Per!Others(dialog) /\ Per!HasAll(copy.seen)
  BY CopyAdds
<1> DEFINE users == [copy.seen EXCEPT ![dialog.b] = copy.after]  mode == screen.mode
<1>2. users[dialog.a] = a /\ users[dialog.b] = a \cup b
  BY <1>1 DEF Per!HasAll, Per!Others
<1>3. screen' = Per!Comparison(mode, dialog.a, dialog.b, users)
  BY DEF Per!ApplyCommit
<1>4. Per!Closure(a) = a /\ Per!Closure(a \cup b) = a \cup b
  BY <1>1, ClosureOfClosed
<1> HIDE DEF users, mode
<1>5. /\ screen'.lines = Per!GroupLines(mode, a, a \cup b)
      /\ screen'.gains_a = Per!Gains(a, a \cup b)
      /\ screen'.copies = Per!Cardinality(Per!ToGrant(a \cup b, a))
  BY <1>2, <1>3, <1>4 DEF Per!Comparison
<1>6. \A g \in DOMAIN screen'.lines : screen'.lines[g].side # "only_a"
  <2>1. screen'.lines = [g \in a \cup (a \cup b) |->
           [side |-> IF g \in a \cap (a \cup b) THEN "shared"
                     ELSE IF g \in a THEN "only_a" ELSE "only_b",
            source_a |-> Per!Source(g, a), source_b |-> Per!Source(g, a \cup b),
            to_copy |-> g \in a \ (a \cup b) /\ g \in a]]
    BY <1>4, <1>5 DEF Per!GroupLines
  <2> QED
    BY <2>1
<1>7. DOMAIN screen'.gains_a = {}
  <2>1. Per!Rights(a) \ Per!Rights(a \cup b) = {}
    BY DEF Per!Rights
  <2>2. \A ms : ms = {} => Per!Lowest(ms) = {}
    BY DEF Per!Lowest
  <2>3. {m \in Models : \E op \in Ops : <<m, op>> \in Per!Rights(a) \ Per!Rights(a \cup b)} = {}
    BY <2>1
  <2> QED
    BY <1>5, <2>2, <2>3 DEF Per!Gains
<1>8. screen'.copies = 0
  <2>1. Per!ToGrant(a \cup b, a) = {}
    BY <1>4 DEF Per!ToGrant
  <2> QED
    BY <1>5, <2>1, FS_EmptySet, PermissionsCounted
<1> QED
  BY <1>6, <1>7, <1>8
-----------------------------------------------------------------------------
(* What is handed over *)

\* A reassignment changes only records that it may write and that nobody wrote since, and
\* counts every record of its request once; and a copy of groups leaves the source nothing
\* that the target has not (action_reassign, action_apply).
THEOREM AllIsHandedOver == Spec => HandsOver
<1> DEFINE Inv == /\ part = "owners" => Own!IInv
                  /\ part = "permissions" => Per!IInv
<1>1. Init => Inv
  BY AddOnsAssumption, HandoverBegins, CopyBegins DEF Init
<1>2. Inv /\ [Next]_vars => Inv'
  <2> SUFFICES ASSUME Inv, [Next]_vars PROVE Inv'
    OBVIOUS
  <2>1. ASSUME part' = "owners" PROVE Own!IInv'
    <3>1. part = "owners" /\ [Own!Next]_(Own!vars)
      BY <2>1, PartStays DEF Next, vars, Own!vars
    <3> QED
      BY <3>1, HandoverStep
  <2>2. ASSUME part' = "permissions" PROVE Per!IInv'
    <3>1. part = "permissions" /\ [Per!Next]_(Per!vars)
      BY <2>2, PartStays DEF Next, vars, Per!vars
    <3> QED
      BY <3>1, AddOnsAssumption, CopyStep
  <2> QED
    BY <2>1, <2>2
<1>3. Inv /\ [Next]_vars =>
        [/\ part = "owners" => Own!HandsOver
         /\ part = "permissions" => Per!GapClosed]_vars
  BY AddOnsAssumption, RecordsHandedOver, GapsAreClosed
<1> QED
  BY <1>1, <1>2, <1>3, PTL DEF Spec, HandsOver

-----------------------------------------------------------------------------
(* BulkTags: what a run saw is still so, but for the records written since *)
(* and the tags that are gone.                                             *)

LEMMA TaggingCounted ==
  /\ \A S : Tag!Cardinality(S) = Cardinality(S)
  /\ \A S : Tag!IsFiniteSet(S) <=> IsFiniteSet(S)
<1>1. \A S : Tag!Cardinality(S) = Cardinality(S)
  BY DEF Tag!Cardinality, Tag!IsFiniteSet, Cardinality, IsFiniteSet
<1>2. \A S : Tag!IsFiniteSet(S) <=> IsFiniteSet(S)
  BY DEF Tag!IsFiniteSet, IsFiniteSet
<1> QED
  BY <1>1, <1>2

LEMMA TagsBegin == ASSUME Tag!Init PROVE Tag!IInv
<1> DEFINE tag == s1  next == s2  Names == Tagging.Names
<1>1. PICK k \in 0..2 : tag \in [1..k -> Names]
  BY DEF Tag!Init
<1>2. \A i \in DOMAIN tag : i \in Nat /\ i < next
  BY <1>1 DEF Tag!Init
<1>3. Tag!TagsHold
  BY <1>2 DEF Tag!Init, Tag!TagsHold
<1> QED
  BY <1>3 DEF Tag!Init, Tag!IInv, Tag!NoRun

\* What the rest of the world does to what a run saw.
LEMMA SeesOn ==
  ASSUME Tag!TagsHold, NEW t, Tag!RunShape(t), Tag!RunSees(t), NEW rs, NEW is,
         s2' \in Nat, s2 <= s2',
         \A i \in DOMAIN s1 \ is : i \in DOMAIN s1' /\ s1'[i] = s1[i],
         \A i \in DOMAIN s1' : i \notin DOMAIN s1 \ is => ~(i < s2),
         is \subseteq DOMAIN s1,
         \A r \in DOMAIN s3 \ rs : r \in DOMAIN s3' /\ s3'[r] = s3[r] \ is,
         NEW v, v.tag = t.tag, v.on = t.on, v.touched = t.touched \cup rs, v.gone = t.gone \cup is
  PROVE  Tag!RunSees(v)'
<1> DEFINE tag == s1  next == s2  on == s3
<1>1. \A i \in DOMAIN v.tag \cup v.gone : i \in Nat /\ i < next'
  BY DEF Tag!RunSees, Tag!TagsHold
<1>2. v.gone \cap DOMAIN tag' = {}
  BY DEF Tag!RunSees, Tag!TagsHold
<1>3. DOMAIN v.tag \ v.gone \subseteq DOMAIN tag'
  BY DEF Tag!RunSees
<1>4. ASSUME NEW r \in DOMAIN v.on \ v.touched PROVE r \in DOMAIN on' /\ on'[r] = v.on[r] \ v.gone
  <2>1. r \in DOMAIN on /\ on[r] = t.on[r] \ t.gone
    BY DEF Tag!RunSees
  <2>2. r \in DOMAIN on' /\ on'[r] = on[r] \ is
    BY <2>1
  <2> QED
    BY <2>1, <2>2
<1> QED
  BY <1>1, <1>2, <1>3, <1>4 DEF Tag!RunSees

LEMMA SpoilHolds ==
  ASSUME Tag!IInv, NEW rs, NEW is, NEW q \in Tagging.Runs, s4'[q] = Tag!Spoil(rs, is)[q],
         s2' \in Nat, s2 <= s2',
         \A i \in DOMAIN s1 \ is : i \in DOMAIN s1' /\ s1'[i] = s1[i],
         \A i \in DOMAIN s1' : i \notin DOMAIN s1 \ is => ~(i < s2),
         is \subseteq DOMAIN s1,
         \A r \in DOMAIN s3 \ rs : r \in DOMAIN s3' /\ s3'[r] = s3[r] \ is
  PROVE  /\ s4'[q].pc \in {"idle", "running", "done"}
         /\ s4'[q].pc = "idle" => s4'[q] = Tag!NoRun
         /\ s4'[q].pc = "running" => (Tag!RunShape(s4[q]) /\ Tag!RunSees(s4[q]))'
<1> DEFINE run == s4  Records == Tagging.Records  Names == Tagging.Names
<1> PICK t, v : t = run[q] /\ v = run'[q]
  OBVIOUS
<1>1. t.pc \in {"idle", "running", "done"} /\ Tag!TagsHold
  BY DEF Tag!IInv
<1>2. v = IF t.pc = "idle" THEN Tag!NoRun ELSE [t EXCEPT !.touched = @ \cup rs, !.gone = @ \cup is]
  BY DEF Tag!Spoil
<1>3. CASE t.pc = "idle"
  <2>1. v.pc = "idle" /\ v = Tag!NoRun
    BY <1>2, <1>3 DEF Tag!NoRun
  <2> QED
    BY <2>1
<1>4. CASE t.pc = "done"
  <2>1. v.pc = "done"
    BY <1>2, <1>4
  <2> QED
    BY <2>1
<1>5. CASE t.pc = "running"
  <2>1. Tag!RunShape(t) /\ Tag!RunSees(t)
    BY <1>5 DEF Tag!IInv
  <2>2. v = [t EXCEPT !.touched = @ \cup rs, !.gone = @ \cup is]
    BY <1>2, <1>5
  <2>3. /\ Tag!RunShape(v) /\ v.pc = "running"
        /\ v.tag = t.tag /\ v.on = t.on /\ v.touched = t.touched \cup rs /\ v.gone = t.gone \cup is
    <3> DEFINE a == t.selection  b == t.add  c == t.remove  d == t.create  e == t.tag  f == t.on
               g == t.touched  h == t.gone
    <3>1. t = [pc |-> "running", selection |-> a, add |-> b, remove |-> c, create |-> d, tag |-> e,
               on |-> f, touched |-> g, gone |-> h]
      BY <2>1 DEF Tag!RunShape
    <3>2. /\ b \subseteq Names /\ DOMAIN f \subseteq Records /\ \A r \in DOMAIN f : f[r] \subseteq DOMAIN e
          /\ t.tag = e /\ t.on = f /\ t.touched = g /\ t.gone = h
      BY <2>1 DEF Tag!RunShape
    <3> HIDE DEF a, b, c, d, e, f, g, h
    <3>3. v = [pc |-> "running", selection |-> a, add |-> b, remove |-> c, create |-> d, tag |-> e,
               on |-> f, touched |-> g \cup rs, gone |-> h \cup is]
      BY ONLY <2>2, <3>1
    <3>4. /\ v.pc = "running" /\ v.selection = a /\ v.add = b /\ v.remove = c /\ v.create = d
          /\ v.tag = e /\ v.on = f /\ v.touched = g \cup rs /\ v.gone = h \cup is
      BY ONLY <3>3
    <3> QED
      BY <3>2, <3>3, <3>4 DEF Tag!RunShape
  <2>4. Tag!RunSees(v)'
    BY <1>1, <2>1, <2>3, SeesOn
  <2> QED
    BY <2>3, <2>4 DEF Tag!RunShape, Tag!RunSees
<1> QED
  BY <1>1, <1>3, <1>4, <1>5

\* The run that is opened or closed, and the others, of which nothing changes.
LEMMA OneRunChanges ==
  ASSUME Tag!IInv, NEW q \in Tagging.Runs, NEW v, s4' = [s4 EXCEPT ![q] = v],
         UNCHANGED <<s1, s2, s3>>,
         v.pc \in {"idle", "running"}, v.pc = "idle" => v = Tag!NoRun,
         v.pc = "running" => Tag!RunShape(v) /\ Tag!RunSees(v)
  PROVE  Tag!IInv'
<1> DEFINE run == s4  Runs == Tagging.Runs
<1>1. run' = [u \in Runs |-> run'[u]] /\ run'[q] = v /\ \A u \in Runs \ {q} : run'[u] = run[u]
  BY DEF Tag!IInv
<1>2. Tag!TagsHold'
  BY DEF Tag!IInv, Tag!TagsHold
<1>3. ASSUME NEW w, Tag!RunSees(w) PROVE Tag!RunSees(w)'
  BY <1>3 DEF Tag!RunSees
<1>4. ASSUME NEW u \in Runs
      PROVE  (/\ run[u].pc \in {"idle", "running", "done"}
              /\ run[u].pc = "idle" => run[u] = Tag!NoRun
              /\ run[u].pc = "running" => Tag!RunShape(run[u]) /\ Tag!RunSees(run[u]))'
  <2> PICK w : w = run'[u]
    OBVIOUS
  <2>1. w.pc \in {"idle", "running", "done"} /\ (w.pc = "idle" => w = Tag!NoRun)
        /\ (w.pc = "running" => Tag!RunShape(w) /\ Tag!RunSees(w))
    BY <1>1 DEF Tag!IInv
  <2>2. w.pc = "running" => Tag!RunShape(w) /\ Tag!RunSees(w)'
    BY <1>3, <2>1
  <2> QED
    BY <2>1, <2>2 DEF Tag!RunShape, Tag!RunSees
<1> QED
  BY <1>1, <1>2, <1>4 DEF Tag!IInv

\* What a run that commits creates, gives and takes.
LEMMA CreatedTags ==
  ASSUME Tag!Proper, Tag!IInv, NEW t, Tag!RunShape(t), t.create
  PROVE  \E k \in Nat :
           /\ Tag!Created(t) \in [s2..s2 + k - 1 -> Tag!Unknown(t) \cap t.add]
           /\ \A n \in Tag!Unknown(t) \cap t.add : \E i \in DOMAIN Tag!Created(t) : Tag!Created(t)[i] = n
<1> DEFINE next == s2  Names == Tagging.Names
<1> DEFINE missing == Tag!Unknown(t) \cap t.add  k == Tag!Cardinality(missing)
<1>1. Tag!IsFiniteSet(missing)
  <2>1. missing \subseteq Names
    BY DEF Tag!RunShape
  <2> QED
    BY <2>1, FS_Subset, TaggingCounted DEF Tag!Proper
<1>2. next \in Nat /\ Tag!Created(t) = CHOOSE f \in [next..next + k - 1 -> missing] :
                             \A n \in missing : \E i \in DOMAIN f : f[i] = n
  BY DEF Tag!Created, Tag!IInv, Tag!TagsHold
<1> HIDE DEF missing
<1>3. k \in Nat /\ ExistsBijection(1..k, missing)
  BY <1>1, FS_CardinalityType, TaggingCounted
<1>4. PICK b \in Bijection(1..k, missing) : TRUE
  BY <1>3 DEF ExistsBijection
<1>5. b \in [1..k -> missing] /\ \A n \in missing : \E i \in 1..k : b[i] = n
  BY <1>4 DEF Bijection, Surjection, Injection
<1> HIDE DEF k
<1> DEFINE f == [i \in next..next + k - 1 |-> b[i - next + 1]]
<1>6. f \in [next..next + k - 1 -> missing]
  BY <1>2, <1>3, <1>5
<1>7. ASSUME NEW n \in missing PROVE \E i \in DOMAIN f : f[i] = n
  <2>1. PICK j \in 1..k : b[j] = n
    BY <1>5
  <2>2. j + next - 1 \in next..next + k - 1 /\ (j + next - 1) - next + 1 = j
    BY <1>2, <1>3
  <2>3. f[j + next - 1] = n
    BY <2>1, <2>2
  <2> QED
    BY <2>2, <2>3
<1>8. \E g \in [next..next + k - 1 -> missing] : \A n \in missing : \E i \in DOMAIN g : g[i] = n
  <2> HIDE DEF f
  <2> QED
    BY <1>6, <1>7
<1>9. /\ Tag!Created(t) \in [next..next + k - 1 -> missing]
      /\ \A n \in missing : \E i \in DOMAIN Tag!Created(t) : Tag!Created(t)[i] = n
  BY <1>2, <1>8
<1> QED
  BY <1>3, <1>9 DEF missing

LEMMA CommitIs ==
  ASSUME Tag!Proper, Tag!IInv, NEW q \in Tagging.Runs, Tag!ApplyCommit(q)
  PROVE  \E t, v, created, add, remove, changed :
           Tag!Committed(q, t, v, created, add, remove, changed)
<1> DEFINE tag == s1  next == s2  on == s3  run == s4  Records == Tagging.Records
           Denied == Tagging.Denied
<1> PICK t : t = run[q]
  OBVIOUS
<1> DEFINE created == IF t.create THEN Tag!Created(t) ELSE <<>>
           add == Tag!Tags(t, t.add) \cup DOMAIN created
           remove == Tag!Tags(t, t.remove)
           skipped == Tag!Existing(t) \cap Denied
           same == {r \in Tag!Existing(t) \ skipped : Tag!Given(t, r, add) \cup Tag!Taken(t, r, remove) = {}}
           failed == {r \in Tag!Existing(t) \ (skipped \cup same) : Tag!Fails(t, r, add, remove)}
           changed == Tag!Existing(t) \ (skipped \cup same \cup failed)
<1>1. /\ t.pc = "running" /\ Tag!Resolved(t)
      /\ tag' = [i \in DOMAIN tag \cup DOMAIN created |->
                   IF i \in DOMAIN tag THEN tag[i] ELSE created[i]]
      /\ next' = next + Tag!Cardinality(DOMAIN created)
      /\ on' = [r \in DOMAIN on |->
                  IF r \in changed
                  THEN Tag!After(on[r], Tag!Given(t, r, add), Tag!Taken(t, r, remove)) ELSE on[r]]
      /\ run' = [Tag!Spoil(changed, {}) EXCEPT ![q] =
           [pc |-> "done", selection |-> t.selection, changed |-> Tag!Cardinality(changed),
            unchanged |-> Tag!Cardinality(same), skipped |-> Tag!Cardinality(skipped),
            failed |-> Tag!Cardinality(failed), touched |-> {}, gone |-> {}]]
  BY DEF Tag!ApplyCommit
<1>2. Tag!RunShape(t) /\ Tag!RunSees(t) /\ Tag!TagsHold /\ next \in Nat
  BY <1>1 DEF Tag!IInv, Tag!TagsHold
<1>3. /\ next' \in Nat /\ next <= next'
      /\ \A i \in DOMAIN created : i \in Nat /\ next <= i /\ i < next' /\ created[i] \in t.add
      /\ \A n \in t.add : Tag!Named(t, n) = {} => \E i \in DOMAIN created : created[i] = n
  <2>1. \A n \in t.add : Tag!Named(t, n) = {} => n \in Tag!Unknown(t) \cap t.add /\ t.create
    BY <1>1 DEF Tag!Unknown, Tag!Resolved
  <2>2. CASE t.create
    <3>1. PICK k \in Nat :
             /\ Tag!Created(t) \in [next..next + k - 1 -> Tag!Unknown(t) \cap t.add]
             /\ \A n \in Tag!Unknown(t) \cap t.add : \E i \in DOMAIN Tag!Created(t) : Tag!Created(t)[i] = n
      BY <1>2, <2>2, CreatedTags
    <3>2. created = Tag!Created(t) /\ DOMAIN created = next..next + k - 1
      BY <2>2, <3>1
    <3>3. Tag!Cardinality(next..next + k - 1) = k
      BY <1>2, FS_Interval, TaggingCounted
    <3>4. next' = next + k
      BY <1>1, <3>2, <3>3
    <3> HIDE DEF created
    <3>5. \A i \in DOMAIN created : i \in Nat /\ next <= i /\ i < next + k /\ created[i] \in t.add
      BY <1>2, <3>1, <3>2
    <3>6. next' \in Nat /\ next <= next'
      BY <1>2, <3>4
    <3>7. \A i \in DOMAIN created : i \in Nat /\ next <= i /\ i < next' /\ created[i] \in t.add
      BY <3>4, <3>5
    <3>8. \A n \in t.add : Tag!Named(t, n) = {} => \E i \in DOMAIN created : created[i] = n
      BY <2>1, <3>1, <3>2
    <3> QED
      BY <3>6, <3>7, <3>8
  <2>3. CASE ~t.create
    <3>1. DOMAIN created = {}
      BY <2>3
    <3>2. Tag!Cardinality(DOMAIN created) = 0 /\ next' = next + Tag!Cardinality(DOMAIN created)
      BY <1>1, <3>1, FS_EmptySet, TaggingCounted
    <3> HIDE DEF created
    <3> QED
      BY <1>2, <2>1, <2>3, <3>1, <3>2
  <2> QED
    BY <2>2, <2>3
<1>4. Tag!Existing(t) \subseteq Records /\ Tag!Existing(t) \subseteq DOMAIN t.on \cap t.selection
  BY <1>2 DEF Tag!RunShape, Tag!Existing
<1>5. changed \subseteq DOMAIN on \cap (t.selection \ Denied)
  <2>1. \A r \in changed : r \in DOMAIN t.on \ t.touched
    BY <1>4 DEF Tag!Fails
  <2> QED
    BY <1>2, <1>4, <2>1 DEF Tag!RunSees
<1>6. \A r \in changed :
                /\ r \in DOMAIN t.on \ t.touched
                /\ (Tag!Given(t, r, add) \cup Tag!Taken(t, r, remove)) \cap t.gone = {}
                /\ Tag!Given(t, r, add) \cup Tag!Taken(t, r, remove) # {}
  BY <1>4 DEF Tag!Fails
<1>7. Tag!Cardinality(changed) + Tag!Cardinality(same) + Tag!Cardinality(skipped) + Tag!Cardinality(failed)
        = Tag!Cardinality(Tag!Existing(t))
  <2> DEFINE all == Tag!Existing(t)  rest == all \ Denied  more == rest \ same
  <2>1. Tag!IsFiniteSet(all)
    BY <1>4, FS_Subset, TaggingCounted DEF Tag!Proper
  <2>2. rest \cap same = same /\ more \cap failed = failed /\ more \ failed = changed
    OBVIOUS
  <2> HIDE DEF all, same, failed, changed
  <2>3. /\ Tag!Cardinality(all) = Tag!Cardinality(skipped) + Tag!Cardinality(rest)
        /\ Tag!IsFiniteSet(rest) /\ Tag!Cardinality(skipped) \in Nat
    BY <2>1, PartsCount, TaggingCounted DEF all
  <2> HIDE DEF skipped, rest
  <2>4. /\ Tag!Cardinality(rest) = Tag!Cardinality(same) + Tag!Cardinality(more)
        /\ Tag!IsFiniteSet(more) /\ Tag!Cardinality(same) \in Nat
    BY <2>2, <2>3, PartsCount, TaggingCounted
  <2> HIDE DEF more
  <2>5. /\ Tag!Cardinality(more) = Tag!Cardinality(failed) + Tag!Cardinality(changed)
        /\ Tag!Cardinality(failed) \in Nat /\ Tag!Cardinality(changed) \in Nat
    BY <2>2, <2>4, PartsCount, TaggingCounted
  <2> QED
    BY <2>3, <2>4, <2>5 DEF all
<1> HIDE DEF created, changed, same, failed, skipped
<1>8. PICK v : v = [pc |-> "done", selection |-> t.selection, changed |-> Tag!Cardinality(changed),
            unchanged |-> Tag!Cardinality(same), skipped |-> Tag!Cardinality(skipped),
            failed |-> Tag!Cardinality(failed), touched |-> {}, gone |-> {}]
  OBVIOUS
<1>9. /\ v.pc = "done" /\ v.changed = Tag!Cardinality(changed) /\ v.unchanged = Tag!Cardinality(same)
      /\ v.skipped = Tag!Cardinality(skipped) /\ v.failed = Tag!Cardinality(failed)
  BY ONLY <1>8
<1>10. run' = [Tag!Spoil(changed, {}) EXCEPT ![q] = v]
  BY <1>1, <1>8
<1>11. v.changed + v.unchanged + v.skipped + v.failed = Tag!Cardinality(Tag!Existing(t))
  BY <1>7, <1>9
<1>12. add = Tag!Tags(t, t.add) \cup DOMAIN created /\ remove = Tag!Tags(t, t.remove)
  OBVIOUS
<1> HIDE DEF add, remove
<1>13. Tag!Committed(q, t, v, created, add, remove, changed)
  BY <1>1, <1>2, <1>3, <1>5, <1>6, <1>9, <1>10, <1>11, <1>12 DEF Tag!Committed
<1> QED
  BY <1>13

LEMMA CommitKeeps == ASSUME Tag!Proper, Tag!IInv, NEW q \in Tagging.Runs, Tag!ApplyCommit(q) PROVE Tag!IInv'
<1> DEFINE tag == s1  next == s2  on == s3  run == s4  Records == Tagging.Records
           Runs == Tagging.Runs
<1> PICK t, v, created, add, remove, changed :
      Tag!Committed(q, t, v, created, add, remove, changed)
  BY CommitIs
<1>1. /\ t = run[q] /\ Tag!RunShape(t) /\ Tag!RunSees(t) /\ Tag!Resolved(t)
      /\ add = Tag!Tags(t, t.add) \cup DOMAIN created /\ remove = Tag!Tags(t, t.remove)
      /\ next' \in Nat /\ next <= next'
      /\ \A i \in DOMAIN created : i \in Nat /\ next <= i /\ i < next' /\ created[i] \in t.add
      /\ tag' = [i \in DOMAIN tag \cup DOMAIN created |->
                   IF i \in DOMAIN tag THEN tag[i] ELSE created[i]]
      /\ changed \subseteq DOMAIN on
      /\ \A r \in changed : (Tag!Given(t, r, add) \cup Tag!Taken(t, r, remove)) \cap t.gone = {}
      /\ on' = [r \in DOMAIN on |->
                  IF r \in changed
                  THEN Tag!After(on[r], Tag!Given(t, r, add), Tag!Taken(t, r, remove)) ELSE on[r]]
      /\ run' = [Tag!Spoil(changed, {}) EXCEPT ![q] = v] /\ v.pc = "done"
  BY DEF Tag!Committed
<1>2. Tag!TagsHold /\ next \in Nat
  BY DEF Tag!IInv, Tag!TagsHold
<1>3. \A i \in DOMAIN created : i \notin DOMAIN t.tag
  BY <1>1, <1>2 DEF Tag!RunSees
<1>4. \A i \in add : i \in DOMAIN created \/ i \in DOMAIN t.tag
  BY <1>1 DEF Tag!Tags, Tag!Named
<1>5. Tag!TagsHold'
  <2>1. \A i \in DOMAIN tag' : i \in Nat /\ i < next'
    BY <1>1, <1>2 DEF Tag!TagsHold
  <2>2. DOMAIN on' \subseteq Records
    BY <1>1, <1>2 DEF Tag!TagsHold
  <2>3. ASSUME NEW r \in DOMAIN on', NEW i \in on'[r] PROVE i \in DOMAIN tag'
    <3>1. DOMAIN tag' = DOMAIN tag \cup DOMAIN created /\ DOMAIN on' = DOMAIN on
      BY <1>1
    <3>2. i \in on[r] \/ (r \in changed /\ i \in Tag!Given(t, r, add))
      BY <1>1, <2>3, <3>1 DEF Tag!After
    <3>3. CASE i \in on[r]
      BY <1>2, <2>3, <3>1, <3>3 DEF Tag!TagsHold
    <3>4. CASE r \in changed /\ i \in Tag!Given(t, r, add)
      <4>1. i \in add /\ i \notin t.gone
        BY <1>1, <3>4 DEF Tag!Given
      <4> QED
        BY <1>1, <1>4, <3>1, <4>1 DEF Tag!RunSees
    <3> QED
      BY <3>2, <3>3, <3>4
  <2> QED
    BY <1>1, <2>1, <2>2, <2>3 DEF Tag!TagsHold
<1>6. run' = [u \in Runs |-> run'[u]] /\ run'[q] = v
      /\ \A u \in Runs \ {q} : run'[u] = Tag!Spoil(changed, {})[u]
  BY <1>1 DEF Tag!Spoil
<1>7. /\ \A i \in DOMAIN tag \ {} : i \in DOMAIN tag' /\ tag'[i] = tag[i]
      /\ \A i \in DOMAIN tag' : i \notin DOMAIN tag \ {} => ~(i < next)
      /\ {} \subseteq DOMAIN tag
      /\ \A r \in DOMAIN on \ changed : r \in DOMAIN on' /\ on'[r] = on[r] \ {}
  BY <1>1, <1>2
<1>8. ASSUME NEW u \in Runs
      PROVE  (/\ run[u].pc \in {"idle", "running", "done"}
              /\ run[u].pc = "idle" => run[u] = Tag!NoRun
              /\ run[u].pc = "running" => Tag!RunShape(run[u]) /\ Tag!RunSees(run[u]))'
  <2>1. CASE u = q
    <3>1. run'[u].pc = "done"
      BY <1>1, <1>6, <2>1
    <3> QED
      BY <3>1
  <2>2. CASE u # q
    <3>1. run'[u] = Tag!Spoil(changed, {})[u]
      BY <1>6, <2>2
    <3> QED
      BY <1>1, <1>7, <3>1, SpoilHolds
  <2> QED
    BY <2>1, <2>2
<1> QED
  BY <1>5, <1>6, <1>8 DEF Tag!IInv

LEMMA TagsStep == ASSUME Tag!Proper, Tag!IInv, [Tag!Next]_(Tag!vars) PROVE Tag!IInv'
<1> DEFINE tag == s1  next == s2  on == s3  run == s4  Records == Tagging.Records
           Names == Tagging.Names  Runs == Tagging.Runs
<1>1. ASSUME NEW q \in Runs, Tag!ApplyStart(q) PROVE Tag!IInv'
  <2>1. PICK selection \in SUBSET Records, add \in SUBSET Names, remove \in SUBSET Names,
             create \in BOOLEAN :
          run' = [run EXCEPT ![q] =
            [pc |-> "running", selection |-> selection, add |-> add, remove |-> remove,
             create |-> create, tag |-> tag, on |-> on, touched |-> {}, gone |-> {}]]
    BY <1>1 DEF Tag!ApplyStart
  <2>2. PICK v : v = [pc |-> "running", selection |-> selection, add |-> add, remove |-> remove,
             create |-> create, tag |-> tag, on |-> on, touched |-> {}, gone |-> {}]
    OBVIOUS
  <2>3. /\ v.pc = "running" /\ v.selection = selection /\ v.add = add /\ v.remove = remove
        /\ v.create = create /\ v.tag = tag /\ v.on = on /\ v.touched = {} /\ v.gone = {}
    BY ONLY <2>2
  <2>4. Tag!RunShape(v)
    BY <2>2, <2>3 DEF Tag!IInv, Tag!TagsHold, Tag!RunShape
  <2>5. Tag!RunSees(v)
    BY <2>3 DEF Tag!IInv, Tag!TagsHold, Tag!RunSees
  <2>6. run' = [run EXCEPT ![q] = v]
    BY <2>1, <2>2
  <2>7. UNCHANGED <<tag, next, on>>
    BY <1>1 DEF Tag!ApplyStart
  <2> QED
    BY <2>3, <2>4, <2>5, <2>6, <2>7, OneRunChanges
<1>2. ASSUME NEW q \in Runs, Tag!ApplyFails(q) \/ Tag!Close(q) PROVE Tag!IInv'
  <2>1. run' = [run EXCEPT ![q] = Tag!NoRun] /\ UNCHANGED <<tag, next, on>>
    BY <1>2 DEF Tag!ApplyFails, Tag!Close
  <2>2. Tag!NoRun.pc = "idle"
    BY DEF Tag!NoRun
  <2> QED
    BY <2>1, <2>2, OneRunChanges
<1>3. ASSUME NEW rs, NEW is, run' = Tag!Spoil(rs, is), next' \in Nat, next <= next', Tag!TagsHold',
             \A i \in DOMAIN tag \ is : i \in DOMAIN tag' /\ tag'[i] = tag[i],
             \A i \in DOMAIN tag' : i \notin DOMAIN tag \ is => ~(i < next),
             is \subseteq DOMAIN tag,
             \A r \in DOMAIN on \ rs : r \in DOMAIN on' /\ on'[r] = on[r] \ is
      PROVE  Tag!IInv'
  <2>1. \A u \in Runs : run'[u] = Tag!Spoil(rs, is)[u]
    BY <1>3
  <2>2. run' = [u \in Runs |-> run'[u]]
    BY <1>3 DEF Tag!Spoil
  <2>3. ASSUME NEW u \in Runs
        PROVE  (/\ run[u].pc \in {"idle", "running", "done"}
                /\ run[u].pc = "idle" => run[u] = Tag!NoRun
                /\ run[u].pc = "running" => Tag!RunShape(run[u]) /\ Tag!RunSees(run[u]))'
    BY <1>3, <2>1, SpoilHolds
  <2> QED
    BY <1>3, <2>2, <2>3 DEF Tag!IInv
<1>4. ASSUME NEW r \in Records, Tag!TagByHand(r) \/ Tag!DeleteRecord(r) PROVE Tag!IInv'
  <2>1. /\ run' = Tag!Spoil({r}, {}) /\ tag' = tag /\ next' = next
        /\ DOMAIN on' \subseteq DOMAIN on
        /\ \A s \in DOMAIN on \ {r} : s \in DOMAIN on' /\ on'[s] = on[s]
        /\ \A s \in DOMAIN on' : on'[s] \subseteq on[s] \cup DOMAIN tag
    <3>1. CASE Tag!TagByHand(r)
      <4>1. PICK i \in DOMAIN tag : on' = [on EXCEPT ![r] = IF i \in @ THEN @ \ {i} ELSE @ \cup {i}]
        BY <3>1 DEF Tag!TagByHand
      <4> QED
        BY <3>1, <4>1 DEF Tag!TagByHand
    <3>2. CASE Tag!DeleteRecord(r)
      BY <3>2 DEF Tag!DeleteRecord
    <3> QED
      BY <1>4, <3>1, <3>2
  <2>2. Tag!TagsHold /\ next \in Nat
    BY DEF Tag!IInv, Tag!TagsHold
  <2>3. Tag!TagsHold'
    BY <2>1, <2>2 DEF Tag!TagsHold
  <2>4. /\ next' \in Nat /\ next <= next'
        /\ \A i \in DOMAIN tag \ {} : i \in DOMAIN tag' /\ tag'[i] = tag[i]
        /\ \A i \in DOMAIN tag' : i \notin DOMAIN tag \ {} => ~(i < next)
        /\ {} \subseteq DOMAIN tag
        /\ \A s \in DOMAIN on \ {r} : s \in DOMAIN on' /\ on'[s] = on[s] \ {}
    BY <2>1, <2>2
  <2> QED
    BY <1>3, <2>1, <2>3, <2>4
<1>5. ASSUME NEW n \in Names, Tag!NewTag(n) PROVE Tag!IInv'
  <2>1. /\ tag' = [i \in DOMAIN tag \cup {next} |-> IF i = next THEN n ELSE tag[i]]
        /\ next' = next + 1 /\ on' = on /\ run' = run
    BY <1>5 DEF Tag!NewTag
  <2>2. Tag!TagsHold /\ next \in Nat /\ next \notin DOMAIN tag
    BY DEF Tag!IInv, Tag!TagsHold
  <2>3. Tag!TagsHold'
    BY <2>1, <2>2 DEF Tag!TagsHold
  <2>4. ASSUME NEW t, Tag!RunShape(t), Tag!RunSees(t) PROVE Tag!RunSees(t)'
    BY <2>1, <2>2, <2>4 DEF Tag!RunSees, Tag!TagsHold
  <2> QED
    BY <2>1, <2>3, <2>4 DEF Tag!IInv, Tag!RunShape
<1>6. ASSUME NEW i \in DOMAIN tag, Tag!DeleteTag(i) PROVE Tag!IInv'
  <2>1. /\ tag' = [j \in DOMAIN tag \ {i} |-> tag[j]]
        /\ on' = [r \in DOMAIN on |-> on[r] \ {i}]
        /\ run' = Tag!Spoil({}, {i}) /\ next' = next
    BY <1>6 DEF Tag!DeleteTag
  <2>2. Tag!TagsHold /\ next \in Nat
    BY DEF Tag!IInv, Tag!TagsHold
  <2>3. Tag!TagsHold'
    BY <2>1, <2>2 DEF Tag!TagsHold
  <2>4. /\ next' \in Nat /\ next <= next'
        /\ \A j \in DOMAIN tag \ {i} : j \in DOMAIN tag' /\ tag'[j] = tag[j]
        /\ \A j \in DOMAIN tag' : j \notin DOMAIN tag \ {i} => ~(j < next)
        /\ {i} \subseteq DOMAIN tag
        /\ \A s \in DOMAIN on \ {} : s \in DOMAIN on' /\ on'[s] = on[s] \ {i}
    BY <2>1, <2>2
  <2> QED
    BY <1>3, <2>1, <2>3, <2>4
<1>7. ASSUME NEW i \in DOMAIN tag, NEW n \in Names, Tag!RenameTag(i, n) PROVE Tag!IInv'
  <2>1. DOMAIN tag' = DOMAIN tag /\ next' = next /\ on' = on /\ run' = run
    BY <1>7 DEF Tag!RenameTag
  <2>2. Tag!TagsHold'
    BY <2>1 DEF Tag!IInv, Tag!TagsHold
  <2>3. ASSUME NEW t, Tag!RunSees(t) PROVE Tag!RunSees(t)'
    BY <2>1, <2>3 DEF Tag!RunSees
  <2> QED
    BY <2>1, <2>2, <2>3 DEF Tag!IInv, Tag!RunShape
<1>8. CASE UNCHANGED Tag!vars
  BY <1>8 DEF Tag!vars, Tag!IInv, Tag!TagsHold, Tag!RunShape, Tag!RunSees
<1> QED
  BY <1>1, <1>2, <1>4, <1>5, <1>6, <1>7, <1>8, CommitKeeps DEF Tag!Next

\* A run changes of the tags of a record just those that it was given the names of.
LEMMA OtherTagsKept == ASSUME Tag!Proper, Tag!IInv PROVE Tag!OthersKept
<1> DEFINE tag == s1  next == s2  on == s3  run == s4  Denied == Tagging.Denied
           Runs == Tagging.Runs
<1> SUFFICES ASSUME NEW q \in Runs, Tag!ApplyCommit(q),
                    NEW t, t = run[q],
                    NEW changed, changed = {r \in DOMAIN on : on'[r] # on[r]}
             PROVE  /\ \A r \in changed :
                         /\ r \in t.selection \ Denied
                         /\ \A n \in t.add :
                              /\ Tag!Named(t, n) \subseteq on'[r] \cup t.gone
                              /\ Tag!Named(t, n) = {} => \E i \in on'[r] : tag'[i] = n
                         /\ \A n \in t.remove : Tag!Named(t, n) # {}
                    /\ \A r \in DOMAIN on, i \in DOMAIN tag :
                         (i \in DOMAIN t.tag => t.tag[i] \notin t.add \cup t.remove)
                           => (i \in on[r] <=> i \in on'[r])
                    /\ run'[q].changed = Tag!Cardinality(changed)
                    /\ run'[q].changed + run'[q].unchanged + run'[q].skipped + run'[q].failed
                         = Tag!Cardinality(Tag!Existing(t))
  BY DEF Tag!OthersKept
<1> PICK v, created, add, remove, those :
      Tag!Committed(q, t, v, created, add, remove, those)
  <2>1. PICK u, v, created, add, remove, those :
          Tag!Committed(q, u, v, created, add, remove, those)
    BY CommitIs
  <2>2. u = t
    BY <2>1 DEF Tag!Committed
  <2> QED
    BY <2>1, <2>2
<1>1. /\ t = run[q] /\ Tag!RunShape(t) /\ Tag!RunSees(t) /\ Tag!Resolved(t)
      /\ add = Tag!Tags(t, t.add) \cup DOMAIN created /\ remove = Tag!Tags(t, t.remove)
      /\ \A i \in DOMAIN created : i \in Nat /\ next <= i /\ i < next' /\ created[i] \in t.add
      /\ \A n \in t.add : Tag!Named(t, n) = {} => \E i \in DOMAIN created : created[i] = n
      /\ tag' = [i \in DOMAIN tag \cup DOMAIN created |->
                   IF i \in DOMAIN tag THEN tag[i] ELSE created[i]]
      /\ those \subseteq DOMAIN on \cap (t.selection \ Denied)
      /\ \A r \in those :
           /\ r \in DOMAIN t.on \ t.touched
           /\ (Tag!Given(t, r, add) \cup Tag!Taken(t, r, remove)) \cap t.gone = {}
           /\ Tag!Given(t, r, add) \cup Tag!Taken(t, r, remove) # {}
      /\ on' = [r \in DOMAIN on |->
                  IF r \in those
                  THEN Tag!After(on[r], Tag!Given(t, r, add), Tag!Taken(t, r, remove)) ELSE on[r]]
      /\ run' = [Tag!Spoil(those, {}) EXCEPT ![q] = v]
      /\ v.changed = Tag!Cardinality(those)
      /\ v.changed + v.unchanged + v.skipped + v.failed = Tag!Cardinality(Tag!Existing(t))
  BY DEF Tag!Committed
<1>2. Tag!TagsHold /\ next \in Nat
  BY DEF Tag!IInv, Tag!TagsHold
<1>3. \A i \in DOMAIN created : i \notin DOMAIN t.tag /\ i \notin DOMAIN tag
  BY <1>1, <1>2 DEF Tag!RunSees, Tag!TagsHold
<1>4. /\ add \cap remove = {} /\ remove \subseteq DOMAIN t.tag
      /\ \A i \in remove : t.tag[i] \in t.remove
      /\ \A i \in add : i \in DOMAIN created \/ (i \in DOMAIN t.tag /\ t.tag[i] \in t.add)
      /\ \A n \in t.add : Tag!Named(t, n) \subseteq add
      /\ \A n \in t.remove : Tag!Named(t, n) # {}
  <2>1. \A i \in remove : i \in DOMAIN t.tag /\ t.tag[i] \in t.remove
    BY <1>1 DEF Tag!Tags, Tag!Named
  <2>2. \A i \in add : i \in DOMAIN created \/ (i \in DOMAIN t.tag /\ t.tag[i] \in t.add)
    BY <1>1 DEF Tag!Tags, Tag!Named
  <2>3. \A n \in t.add : Tag!Named(t, n) \subseteq add
    BY <1>1 DEF Tag!Tags
  <2>4. t.add \cap t.remove = {} /\ \A n \in t.remove : Tag!Named(t, n) # {}
    BY <1>1 DEF Tag!Resolved, Tag!Unknown
  <2> QED
    BY <1>3, <2>1, <2>2, <2>3, <2>4
<1>5. ASSUME NEW r \in those
      PROVE  /\ r \in DOMAIN on /\ on[r] = t.on[r] \ t.gone
             /\ on'[r] = (on[r] \cup (add \ t.on[r])) \ (remove \cap t.on[r])
             /\ (add \ t.on[r]) \cap t.gone = {} /\ remove \cap t.on[r] \cap t.gone = {}
             /\ (add \ t.on[r]) \cup (remove \cap t.on[r]) # {}
             /\ t.on[r] \subseteq DOMAIN t.tag
  BY <1>1 DEF Tag!RunSees, Tag!RunShape, Tag!After, Tag!Given, Tag!Taken
<1>6. those = changed
  <2>1. \A r \in those : r \in DOMAIN on /\ on'[r] # on[r]
    BY <1>5
  <2>2. \A r \in DOMAIN on : r \notin those => on'[r] = on[r]
    BY <1>1
  <2> QED
    BY <2>1, <2>2
<1>7. ASSUME NEW r \in those
      PROVE  /\ r \in t.selection \ Denied
             /\ \A n \in t.add :
                  /\ Tag!Named(t, n) \subseteq on'[r] \cup t.gone
                  /\ Tag!Named(t, n) = {} => \E i \in on'[r] : tag'[i] = n
             /\ \A n \in t.remove : Tag!Named(t, n) # {}
  <2>1. ASSUME NEW i \in add, i \notin t.gone PROVE i \in on'[r]
    BY <1>4, <1>5, <2>1
  <2>2. ASSUME NEW n \in t.add, Tag!Named(t, n) = {} PROVE \E i \in on'[r] : tag'[i] = n
    <3>1. PICK i \in DOMAIN created : created[i] = n
      BY <1>1, <2>2
    <3>2. i \in add /\ i \notin t.on[r] /\ i \notin t.gone /\ tag'[i] = n
      BY <1>1, <1>3, <1>5, <3>1
    <3> QED
      BY <2>1, <3>2
  <2> QED
    BY <1>1, <1>4, <2>1, <2>2
<1>8. ASSUME NEW r \in DOMAIN on, NEW i \in DOMAIN tag,
             i \in DOMAIN t.tag => t.tag[i] \notin t.add \cup t.remove
      PROVE  i \in on[r] <=> i \in on'[r]
  <2>1. CASE r \notin those
    BY <1>1, <2>1
  <2>2. CASE r \in those
    <3>1. i \notin add /\ i \notin remove
      BY <1>3, <1>4, <1>8
    <3> QED
      BY <1>5, <2>2, <3>1
  <2> QED
    BY <2>1, <2>2
<1>9. run'[q] = v
  BY <1>1 DEF Tag!Spoil
<1> QED
  BY <1>1, <1>6, <1>7, <1>8, <1>9
-----------------------------------------------------------------------------
(* FieldHelp: a row remembers what was there, and beside it nothing else   *)
(* is shown but what the row says.                                         *)

LEMMA TextsBegin == ASSUME Fhe!Init PROVE Fhe!IInv
<1> DEFINE source == s1  translation == s2  row == s3  own == s4  Fields == Labels.Fields
           Langs == Labels.Langs  None == Labels.None
<1>1. source \in [Fields -> Fhe!TextsOf]
  <2>1. Fhe!Values \subseteq Fhe!TextsOf
    BY DEF Fhe!Values, Fhe!TextsOf, Fhe!Keys
  <2> QED
    BY <2>1 DEF Fhe!Init
<1>2. Fhe!TextsTyped
  BY <1>1 DEF Fhe!Init, Fhe!TextsTyped, Fhe!TextsOf
<1>3. ASSUME NEW f \in Fields, NEW l \in Langs, NEW k \in Fhe!Keys PROVE Fhe!RowHolds(f, l, k)
  <2>1. /\ row[f][l] = Fhe!NoRow /\ translation[f][l][k] = None /\ own[f][l][k] = {source[f][k]}
    BY DEF Fhe!Init
  <2>2. Fhe!Shown(f, l)[k] = source[f][k]
    BY <2>1 DEF Fhe!Shown
  <2> QED
    BY <2>1, <2>2 DEF Fhe!RowHolds
<1> QED
  BY <1>2, <1>3 DEF Fhe!IInv

LEMMA RowsAreNotNone == ASSUME NEW c \in Fhe!Customizations PROVE c # Fhe!NoRow
BY DEF Fhe!Customizations, Fhe!NoRow

LEMMA ShownIs ==
  ASSUME NEW f, NEW l, NEW k \in Fhe!Keys
  PROVE  /\ Fhe!Shown(f, l)[k] = IF s2[f][l][k] # Labels.None THEN s2[f][l][k] ELSE s1[f][k]
         /\ Fhe!Shown(f, l) \in [Fhe!Keys -> {Fhe!Shown(f, l)[j] : j \in Fhe!Keys}]
BY DEF Fhe!Shown

\* What a write makes of a field in its language.
LEMMA WritesHold ==
  ASSUME Fhe!Proper, Fhe!IInv, NEW f \in Labels.Fields, NEW l \in Labels.Langs,
         NEW ks \in SUBSET Fhe!Keys, NEW values \in [ks -> Labels.Texts \cup {Labels.None}]
  PROVE  /\ Fhe!Applied(s2[f][l], values) \in Fhe!TextsOf
         /\ Fhe!Synced(Fhe!Remembered(f, l), values) \in {Fhe!NoRow} \cup Fhe!Customizations
<1> DEFINE source == s1  translation == s2  row == s3
<1>1. /\ translation[f][l] \in Fhe!TextsOf /\ source[f] \in Fhe!TextsOf
      /\ row[f][l] \in {Fhe!NoRow} \cup Fhe!Customizations
  BY DEF Fhe!IInv, Fhe!TextsTyped
<1>2. ASSUME NEW old \in Fhe!TextsOf PROVE Fhe!Applied(old, values) \in Fhe!TextsOf
  BY <1>2 DEF Fhe!Applied, Fhe!TextsOf
<1>3. Fhe!Shown(f, l) \in Fhe!TextsOf
  BY <1>1 DEF Fhe!Shown, Fhe!TextsOf
<1>4. Fhe!Remembered(f, l) \in Fhe!Customizations
  BY <1>1, <1>3 DEF Fhe!Remembered, Fhe!Customizations
<1> DEFINE r == Fhe!Remembered(f, l)
<1>5. PICK o \in Fhe!TextsOf, c \in Fhe!TextsOf : r = [original |-> o, custom |-> c]
  BY <1>4 DEF Fhe!Customizations
<1> HIDE DEF r
<1>6. [r EXCEPT !.custom = Fhe!Applied(@, values)] = [original |-> o, custom |-> Fhe!Applied(c, values)]
  BY <1>5
<1>7. Fhe!Synced(r, values) \in {Fhe!NoRow} \cup Fhe!Customizations
  BY <1>2, <1>5, <1>6 DEF Fhe!Synced, Fhe!Customizations
<1> QED
  BY <1>1, <1>2, <1>7 DEF r

LEMMA WriteStep ==
  ASSUME Fhe!Proper, Fhe!IInv, NEW fs \in SUBSET Labels.Fields, NEW l \in Labels.Langs,
         NEW ks \in SUBSET Fhe!Keys, NEW values \in [ks -> Labels.Texts \cup {Labels.None}],
         Fhe!Write(fs, l, values)
  PROVE  Fhe!IInv'
<1> DEFINE source == s1  translation == s2  row == s3  own == s4  Fields == Labels.Fields
           Langs == Labels.Langs  None == Labels.None
<1>1. /\ translation' = [f \in Fields |-> IF f \notin fs THEN translation[f]
                           ELSE [translation[f] EXCEPT ![l] = Fhe!Applied(@, values)]]
      /\ row' = [f \in Fields |-> IF f \notin fs THEN row[f]
                   ELSE [row[f] EXCEPT ![l] = Fhe!Synced(Fhe!Remembered(f, l), values)]]
      /\ source' = source /\ own' = own
  BY DEF Fhe!Write
<1>2. Fhe!TextsTyped'
  <2>1. ASSUME NEW f \in Fields PROVE translation'[f] \in [Langs -> Fhe!TextsOf]
    BY <1>1, WritesHold DEF Fhe!IInv, Fhe!TextsTyped
  <2>2. ASSUME NEW f \in Fields PROVE row'[f] \in [Langs -> {Fhe!NoRow} \cup Fhe!Customizations]
    BY <1>1, WritesHold DEF Fhe!IInv, Fhe!TextsTyped
  <2> QED
    BY <1>1, <2>1, <2>2 DEF Fhe!IInv, Fhe!TextsTyped
<1>3. ASSUME NEW f \in Fields, NEW m \in Langs, NEW k \in Fhe!Keys PROVE Fhe!RowHolds(f, m, k)'
  <2>1. Fhe!RowHolds(f, m, k)
    BY DEF Fhe!IInv
  <2>2. CASE f \notin fs \/ m # l
    <3>1. translation'[f][m] = translation[f][m] /\ row'[f][m] = row[f][m]
      BY <1>1, <2>2 DEF Fhe!IInv, Fhe!TextsTyped
    <3>2. Fhe!Shown(f, m)'[k] = Fhe!Shown(f, m)[k]
      BY <1>1, <3>1 DEF Fhe!Shown
    <3> QED
      BY <1>1, <2>1, <3>1, <3>2 DEF Fhe!RowHolds
  <2>3. CASE f \in fs /\ m = l
    <3> DEFINE old == Fhe!Remembered(f, l)
    <3>1. /\ translation'[f][l] = Fhe!Applied(translation[f][l], values)
          /\ row'[f][l] = Fhe!Synced(old, values)
      BY <1>1, <2>3 DEF Fhe!IInv, Fhe!TextsTyped
    <3>2. /\ row[f][l] \in {Fhe!NoRow} \cup Fhe!Customizations /\ translation[f][l] \in Fhe!TextsOf
          /\ source[f] \in Fhe!TextsOf
      BY DEF Fhe!IInv, Fhe!TextsTyped
    <3>3. Fhe!Shown(f, l) \in Fhe!TextsOf
      BY <3>2 DEF Fhe!Shown, Fhe!TextsOf
    <3>4. /\ old \in Fhe!Customizations /\ old.original[k] \in own[f][l][k]
          /\ \/ Fhe!Shown(f, l)[k] \in own[f][l][k] \/ Fhe!Shown(f, l)[k] = old.custom[k]
             \/ old.custom[k] = None /\ translation[f][l][k] = None
      <4>1. CASE row[f][l] = Fhe!NoRow
        <5>1. old = [original |-> Fhe!Shown(f, l), custom |-> Fhe!Shown(f, l)]
          BY <4>1 DEF Fhe!Remembered
        <5>2. Fhe!Shown(f, l)[k] \in own[f][l][k]
          BY <2>1, <2>3, <4>1 DEF Fhe!RowHolds
        <5> QED
          BY <3>3, <5>1, <5>2 DEF Fhe!Customizations
      <4>2. CASE row[f][l] # Fhe!NoRow
        <5>1. old = row[f][l]
          BY <4>2 DEF Fhe!Remembered
        <5> QED
          BY <2>1, <2>3, <3>2, <4>2, <5>1 DEF Fhe!RowHolds
      <4> QED
        BY <4>1, <4>2
    <3>5. PICK o \in Fhe!TextsOf, c \in Fhe!TextsOf : old = [original |-> o, custom |-> c]
      BY <3>4 DEF Fhe!Customizations
    <3> HIDE DEF old
    <3> DEFINE new == Fhe!Applied(c, values)
    <3>6. [old EXCEPT !.custom = Fhe!Applied(@, values)] = [original |-> o, custom |-> new]
      BY <3>5
    <3>7. /\ new = o => row'[f][l] = Fhe!NoRow
          /\ new # o => row'[f][l] = [original |-> o, custom |-> new] /\ row'[f][l] # Fhe!NoRow
      <4>1. Fhe!Synced(old, values) = IF new = o THEN Fhe!NoRow ELSE [original |-> o, custom |-> new]
        BY <3>6 DEF Fhe!Synced
      <4>2. [original |-> o, custom |-> new] # Fhe!NoRow
        BY DEF Fhe!NoRow
      <4> HIDE DEF new
      <4> QED
        BY <3>1, <4>1, <4>2
    <3>8. /\ new[k] = IF k \in ks THEN values[k] ELSE c[k]
          /\ translation'[f][l][k] = IF k \in ks THEN values[k] ELSE translation[f][l][k]
      BY <3>1 DEF Fhe!Applied
    <3>9. /\ Fhe!Shown(f, l)[k] = IF translation[f][l][k] # None THEN translation[f][l][k] ELSE source[f][k]
          /\ Fhe!Shown(f, l)'[k] = IF translation'[f][l][k] # None THEN translation'[f][l][k] ELSE source[f][k]
      BY <1>1 DEF Fhe!Shown
    <3> HIDE DEF new
    <3>10. \/ Fhe!Shown(f, l)'[k] \in own[f][l][k] \/ Fhe!Shown(f, l)'[k] = new[k]
           \/ new[k] = None /\ translation'[f][l][k] = None
      BY <3>4, <3>5, <3>8, <3>9
    <3>11. None \in own[f][l][k] => source[f][k] \in own[f][l][k]
      BY <2>1, <2>3 DEF Fhe!RowHolds
    <3>12. o[k] \in own[f][l][k]
      BY <3>4, <3>5
    <3>13. CASE new = o
      <4>1. Fhe!Shown(f, l)'[k] \in own[f][l][k]
        BY <3>9, <3>10, <3>11, <3>12, <3>13
      <4> QED
        BY <1>1, <2>3, <3>7, <3>11, <3>13, <4>1 DEF Fhe!RowHolds
    <3>14. CASE new # o
      <4>1. row'[f][l].original = o /\ row'[f][l].custom = new /\ row'[f][l] # Fhe!NoRow
        BY <3>7, <3>14
      <4> QED
        BY <1>1, <2>3, <3>10, <3>11, <3>12, <4>1 DEF Fhe!RowHolds
    <3> QED
      BY <3>13, <3>14
  <2> QED
    BY <2>2, <2>3
<1> QED
  BY <1>2, <1>3 DEF Fhe!IInv

LEMMA ResetStep ==
  ASSUME Fhe!Proper, Fhe!IInv, NEW fs \in SUBSET Labels.Fields, NEW ls \in SUBSET Labels.Langs,
         Fhe!Reset(fs, ls) \/ Fhe!Reapply(fs, ls)
  PROVE  Fhe!IInv'
<1> DEFINE source == s1  translation == s2  row == s3  own == s4  Fields == Labels.Fields
           Langs == Labels.Langs  None == Labels.None
<1> DEFINE On(f, l) == f \in fs /\ l \in ls /\ row[f][l] # Fhe!NoRow
<1>1. source' = source /\ own' = own
  BY DEF Fhe!Reset, Fhe!Reapply
<1>2. ASSUME NEW f \in Fields, NEW l \in Langs
      PROVE  /\ translation'[f][l] \in Fhe!TextsOf /\ row'[f][l] \in {Fhe!NoRow} \cup Fhe!Customizations
             /\ \A k \in Fhe!Keys : Fhe!RowHolds(f, l, k)'
  <2>1. /\ translation[f][l] \in Fhe!TextsOf /\ row[f][l] \in {Fhe!NoRow} \cup Fhe!Customizations
        /\ source[f] \in Fhe!TextsOf
    BY DEF Fhe!IInv, Fhe!TextsTyped
  <2>2. CASE ~On(f, l)
    <3>1. translation'[f][l] = translation[f][l] /\ row'[f][l] = row[f][l]
      <4>1. CASE Fhe!Reset(fs, ls)
        BY <2>2, <4>1 DEF Fhe!Reset
      <4>2. CASE Fhe!Reapply(fs, ls)
        BY <2>2, <4>2 DEF Fhe!Reapply
      <4> QED
        BY <4>1, <4>2
    <3>2. \A k \in Fhe!Keys : Fhe!Shown(f, l)'[k] = Fhe!Shown(f, l)[k]
      BY <1>1, <3>1 DEF Fhe!Shown
    <3>3. \A k \in Fhe!Keys : Fhe!RowHolds(f, l, k)
      BY DEF Fhe!IInv
    <3> QED
      BY <1>1, <2>1, <3>1, <3>2, <3>3 DEF Fhe!RowHolds
  <2>3. CASE On(f, l) /\ Fhe!Reset(fs, ls)
    <3>1. /\ translation'[f][l] = [k \in Fhe!Keys |-> IF source[f][k] = row[f][l].original[k] THEN None
                                                  ELSE row[f][l].original[k]]
          /\ row'[f][l] = Fhe!NoRow
      BY <2>3 DEF Fhe!Reset, Fhe!Restored
    <3>2. row[f][l] \in Fhe!Customizations
      BY <2>1, <2>3
    <3>3. translation'[f][l] \in Fhe!TextsOf
      BY <3>1, <3>2 DEF Fhe!TextsOf, Fhe!Customizations
    <3>4. ASSUME NEW k \in Fhe!Keys PROVE Fhe!RowHolds(f, l, k)'
      <4>1. /\ row[f][l].original[k] \in own[f][l][k]
            /\ None \in own[f][l][k] => source[f][k] \in own[f][l][k]
        BY <2>3 DEF Fhe!IInv, Fhe!RowHolds
      <4>2. Fhe!Shown(f, l)'[k] = IF translation'[f][l][k] # None THEN translation'[f][l][k] ELSE source[f][k]
        BY <1>1 DEF Fhe!Shown
      <4>3. translation'[f][l][k] = IF source[f][k] = row[f][l].original[k] THEN None
                                    ELSE row[f][l].original[k]
        BY <3>1
      <4>4. Fhe!Shown(f, l)'[k] \in own[f][l][k]
        BY <4>1, <4>2, <4>3
      <4> QED
        BY <1>1, <3>1, <4>1, <4>4 DEF Fhe!RowHolds
    <3> QED
      BY <3>1, <3>3, <3>4
  <2>4. CASE On(f, l) /\ Fhe!Reapply(fs, ls)
    <3>1. translation'[f][l] = row[f][l].custom /\ row'[f][l] = row[f][l]
      BY <2>4 DEF Fhe!Reapply
    <3>2. row[f][l] \in Fhe!Customizations
      BY <2>1, <2>4
    <3>3. translation'[f][l] \in Fhe!TextsOf
      BY <3>1, <3>2 DEF Fhe!Customizations
    <3>4. ASSUME NEW k \in Fhe!Keys PROVE Fhe!RowHolds(f, l, k)'
      <4>1. /\ row[f][l].original[k] \in own[f][l][k]
            /\ None \in own[f][l][k] => source[f][k] \in own[f][l][k]
        BY <2>4 DEF Fhe!IInv, Fhe!RowHolds
      <4>2. Fhe!Shown(f, l)'[k] = IF translation'[f][l][k] # None THEN translation'[f][l][k] ELSE source[f][k]
        BY <1>1 DEF Fhe!Shown
      <4>3. Fhe!Shown(f, l)'[k] = row[f][l].custom[k] \/ (row[f][l].custom[k] = None /\ translation'[f][l][k] = None)
        BY <3>1, <4>2
      <4> QED
        BY <1>1, <2>4, <3>1, <4>1, <4>3 DEF Fhe!RowHolds
    <3> QED
      BY <2>1, <3>1, <3>3, <3>4
  <2> QED
    BY <2>2, <2>3, <2>4
<1>3. /\ translation' = [f \in Fields |-> [l \in Langs |-> translation'[f][l]]]
      /\ row' = [f \in Fields |-> [l \in Langs |-> row'[f][l]]]
  <2>1. CASE Fhe!Reset(fs, ls)
    BY <2>1 DEF Fhe!Reset
  <2>2. CASE Fhe!Reapply(fs, ls)
    BY <2>2 DEF Fhe!Reapply, Fhe!IInv, Fhe!TextsTyped
  <2> QED
    BY <2>1, <2>2
<1>4. Fhe!TextsTyped'
  <2>1. \A f \in Fields : /\ translation'[f] \in [Langs -> Fhe!TextsOf]
                          /\ row'[f] \in [Langs -> {Fhe!NoRow} \cup Fhe!Customizations]
    BY <1>2, <1>3
  <2> QED
    BY <1>1, <1>3, <2>1 DEF Fhe!IInv, Fhe!TextsTyped
<1> QED
  BY <1>2, <1>4 DEF Fhe!IInv

\* Where nobody customized a field, what is brought is what is shown; where somebody did,
\* what is shown is what was, or is brought.
LEMMA BroughtHolds ==
  ASSUME Fhe!Proper, Fhe!IInv, NEW texts, Fhe!Brought(texts), s3' = s3,
         s1' \in [Labels.Fields -> Fhe!TextsOf], s2' \in [Labels.Fields -> [Labels.Langs -> Fhe!TextsOf]],
         \A f \in Labels.Fields, l \in Labels.Langs, k \in Fhe!Keys :
           /\ texts[f][l][k] \in SUBSET (Labels.Texts \cup {Labels.None}) \/ s3[f][l] = Fhe!NoRow
           /\ s1'[f][k] \in texts[f][l][k] \/ (Labels.None \notin texts[f][l][k] /\ s1'[f] = s1[f])
           /\ s2'[f][l][k] = s2[f][l][k] \/ s2'[f][l][k] \in texts[f][l][k]
           /\ s2'[f][l][k] # Labels.None => Labels.None \notin texts[f][l][k] \/ s1'[f][k] \in texts[f][l][k]
  PROVE  Fhe!IInv'
<1> DEFINE source == s1  translation == s2  row == s3  own == s4  Fields == Labels.Fields
           Langs == Labels.Langs  Texts == Labels.Texts  None == Labels.None
<1>1. ASSUME NEW f \in Fields, NEW l \in Langs, NEW k \in Fhe!Keys
      PROVE  own'[f][l][k] \subseteq Texts \cup {None} /\ Fhe!RowHolds(f, l, k)'
  <2> DEFINE texts0 == own[f][l][k]  new == texts[f][l][k]
             shown == Fhe!Shown(f, l)[k]  after == Fhe!Shown(f, l)'[k]
  <2>1. own'[f][l][k] = IF row[f][l] = Fhe!NoRow THEN {after} ELSE texts0 \cup new
    BY DEF Fhe!Brought
  <2>2. /\ shown = IF translation[f][l][k] # None THEN translation[f][l][k] ELSE source[f][k]
        /\ after = IF translation'[f][l][k] # None THEN translation'[f][l][k] ELSE source'[f][k]
    BY DEF Fhe!Shown
  <2>3. Fhe!RowHolds(f, l, k) /\ row'[f][l] = row[f][l]
    BY DEF Fhe!IInv
  <2>4. /\ source'[f][k] \in Texts \cup {None} /\ translation'[f][l][k] \in Texts \cup {None}
        /\ texts0 \subseteq Texts \cup {None}
    BY DEF Fhe!IInv, Fhe!TextsTyped, Fhe!TextsOf
  <2> HIDE DEF texts0, new, shown, after
  <2>5. CASE row[f][l] = Fhe!NoRow
    <3>1. own'[f][l][k] = {after}
      BY <2>1, <2>5
    <3>2. after \in Texts \cup {None} /\ (after = None => source'[f][k] = None)
      BY <2>2, <2>4
    <3>3. Fhe!Shown(f, l)'[k] = after
      BY DEF after
    <3> QED
      BY <2>3, <2>5, <3>1, <3>2, <3>3 DEF Fhe!RowHolds
  <2>6. CASE row[f][l] # Fhe!NoRow
    <3>1. own'[f][l][k] = texts0 \cup new
      BY <2>1, <2>6
    <3>2. /\ new \subseteq Texts \cup {None}
          /\ source'[f][k] \in new \/ (None \notin new /\ source'[f] = source[f])
          /\ translation'[f][l][k] = translation[f][l][k] \/ translation'[f][l][k] \in new
      BY <2>6 DEF new
    <3>3. /\ None \in texts0 => source[f][k] \in texts0
          /\ row[f][l].original[k] \in texts0
          /\ \/ shown \in texts0 \/ shown = row[f][l].custom[k]
             \/ row[f][l].custom[k] = None /\ translation[f][l][k] = None
      BY <2>3, <2>6 DEF Fhe!RowHolds, texts0, shown
    <3>4. None \in texts0 \cup new => source'[f][k] \in texts0 \cup new
      BY <3>2, <3>3
    <3>5. \/ after \in texts0 \cup new \/ after = row[f][l].custom[k]
          \/ row[f][l].custom[k] = None /\ translation'[f][l][k] = None
      BY <2>2, <3>2, <3>3, <3>4
    <3>6. Fhe!Shown(f, l)'[k] = after
      BY DEF after
    <3> QED
      BY <2>3, <2>4, <2>6, <3>1, <3>2, <3>3, <3>4, <3>5, <3>6 DEF Fhe!RowHolds
  <2> QED
    BY <2>5, <2>6
<1>2. own' \in [Fields -> [Langs -> [Fhe!Keys -> SUBSET (Texts \cup {None})]]]
  <2>1. own' = [f \in Fields |-> [l \in Langs |-> [k \in Fhe!Keys |-> own'[f][l][k]]]]
    BY DEF Fhe!Brought
  <2> QED
    BY <1>1, <2>1
<1> QED
  BY <1>1, <1>2 DEF Fhe!IInv, Fhe!TextsTyped

LEMMA UpgradeStep == ASSUME Fhe!Proper, Fhe!IInv, NEW g \in Labels.Fields, Fhe!Upgrade(g) PROVE Fhe!IInv'
<1> DEFINE source == s1  translation == s2  row == s3  Fields == Labels.Fields
           Langs == Labels.Langs  Texts == Labels.Texts  None == Labels.None
<1>1. PICK values \in Fhe!Values : source' = [source EXCEPT ![g] = values]
  BY DEF Fhe!Upgrade
<1>2. source' \in [Fields -> Fhe!TextsOf]
  <2>1. values \in Fhe!TextsOf
    BY <1>1 DEF Fhe!Values, Fhe!TextsOf, Fhe!Keys
  <2> QED
    BY <1>1, <2>1 DEF Fhe!IInv, Fhe!TextsTyped
<1> DEFINE texts == [f \in Fields |-> [l \in Langs |-> [k \in Fhe!Keys |-> {source'[f][k]}]]]
<1>3. Fhe!Brought(texts) /\ row' = row /\ translation' = translation
  BY DEF Fhe!Upgrade
<1>4. \A f \in Fields, l \in Langs, k \in Fhe!Keys :
        texts[f][l][k] = {source'[f][k]} /\ source'[f][k] \in Texts \cup {None}
  BY <1>2 DEF Fhe!TextsOf
<1>5. translation' \in [Fields -> [Langs -> Fhe!TextsOf]]
  BY <1>3 DEF Fhe!IInv, Fhe!TextsTyped
<1> HIDE DEF texts
<1> QED
  BY <1>2, <1>3, <1>4, <1>5, BroughtHolds

LEMMA TermsStep == ASSUME Fhe!Proper, Fhe!IInv, NEW m \in Labels.Langs, Fhe!LoadTerms(m) PROVE Fhe!IInv'
<1> DEFINE source == s1  translation == s2  row == s3  Fields == Labels.Fields
           Langs == Labels.Langs  Texts == Labels.Texts  None == Labels.None
           Translated == Labels.Translated
<1>1. PICK label \in Texts :
        /\ translation' = [f \in Fields |-> IF f \notin Translated THEN translation[f]
                             ELSE [translation[f] EXCEPT ![m].label = label]]
        /\ source' = source /\ row' = row
        /\ Fhe!Brought([f \in Fields |-> [l \in Langs |-> [k \in Fhe!Keys |->
             IF f \in Translated /\ l = m /\ k = "label" THEN {label} ELSE {}]]])
  BY DEF Fhe!LoadTerms
<1> DEFINE texts == [f \in Fields |-> [l \in Langs |-> [k \in Fhe!Keys |->
                       IF f \in Translated /\ l = m /\ k = "label" THEN {label} ELSE {}]]]
<1>2. \A f \in Fields, l \in Langs, k \in Fhe!Keys :
        texts[f][l][k] = IF f \in Translated /\ l = m /\ k = "label" THEN {label} ELSE {}
  OBVIOUS
<1>3. Fhe!Brought(texts)
  BY <1>1
<1>4. ASSUME NEW f \in Fields, NEW l \in Langs
      PROVE  /\ translation'[f] \in [Langs -> Fhe!TextsOf]
             /\ \A k \in Fhe!Keys : translation'[f][l][k] =
                  IF f \in Translated /\ l = m /\ k = "label" THEN label ELSE translation[f][l][k]
  <2>1. translation[f] \in [Langs -> Fhe!TextsOf]
    BY DEF Fhe!IInv, Fhe!TextsTyped
  <2>2. CASE f \notin Translated
    BY <1>1, <2>1, <2>2
  <2>3. CASE f \in Translated
    <3>1. translation'[f] = [translation[f] EXCEPT ![m] = [translation[f][m] EXCEPT !["label"] = label]]
      BY <1>1, <2>1, <2>3
    <3>2. /\ [translation[f][m] EXCEPT !["label"] = label] \in Fhe!TextsOf
          /\ \A k \in Fhe!Keys : [translation[f][m] EXCEPT !["label"] = label][k] =
               IF k = "label" THEN label ELSE translation[f][m][k]
      BY <2>1 DEF Fhe!TextsOf
    <3> QED
      BY <2>1, <2>3, <3>1, <3>2
  <2> QED
    BY <2>2, <2>3
<1>5. translation' \in [Fields -> [Langs -> Fhe!TextsOf]]
  <2>1. translation' = [f \in Fields |-> translation'[f]]
    BY <1>1
  <2>2. \A f \in Fields : translation'[f] \in [Langs -> Fhe!TextsOf]
    BY <1>4
  <2> QED
    BY <2>1, <2>2
<1>6. source' \in [Fields -> Fhe!TextsOf]
  BY <1>1 DEF Fhe!IInv, Fhe!TextsTyped
<1> HIDE DEF texts
<1>7. \A f \in Fields, l \in Langs, k \in Fhe!Keys :
           /\ texts[f][l][k] \in SUBSET (Texts \cup {None}) \/ row[f][l] = Fhe!NoRow
           /\ source'[f][k] \in texts[f][l][k] \/ (None \notin texts[f][l][k] /\ source'[f] = source[f])
           /\ translation'[f][l][k] = translation[f][l][k] \/ translation'[f][l][k] \in texts[f][l][k]
           /\ translation'[f][l][k] # None => None \notin texts[f][l][k] \/ source'[f][k] \in texts[f][l][k]
  <2> SUFFICES ASSUME NEW f \in Fields, NEW l \in Langs, NEW k \in Fhe!Keys
               PROVE  /\ texts[f][l][k] \in SUBSET (Texts \cup {None})
                      /\ None \notin texts[f][l][k]
                      /\ translation'[f][l][k] = translation[f][l][k]
                           \/ translation'[f][l][k] \in texts[f][l][k]
    BY <1>1
  <2>1. texts[f][l][k] = IF f \in Translated /\ l = m /\ k = "label" THEN {label} ELSE {}
    BY <1>2
  <2>2. translation'[f][l][k] =
          IF f \in Translated /\ l = m /\ k = "label" THEN label ELSE translation[f][l][k]
    BY <1>4
  <2>3. label \in Texts /\ label # None
    BY <1>1 DEF Fhe!Proper
  <2> HIDE DEF texts
  <2>4. CASE f \in Translated /\ l = m /\ k = "label"
    BY <2>1, <2>2, <2>3, <2>4
  <2>5. CASE ~(f \in Translated /\ l = m /\ k = "label")
    BY <2>1, <2>2, <2>5
  <2> QED
    BY <2>4, <2>5
<1> QED
  BY <1>1, <1>3, <1>5, <1>6, <1>7, BroughtHolds

LEMMA TextsStep == ASSUME Fhe!Proper, Fhe!IInv, [Fhe!Next]_(Fhe!vars) PROVE Fhe!IInv'
<1>1. CASE UNCHANGED Fhe!vars
  BY <1>1 DEF Fhe!vars, Fhe!IInv, Fhe!TextsTyped, Fhe!RowHolds, Fhe!Shown
<1> QED
  BY <1>1, WriteStep, ResetStep, UpgradeStep, TermsStep DEF Fhe!Next

LEMMA TextsAreBack == Fhe!IInv => Fhe!BackAsItWas
BY DEF Fhe!IInv, Fhe!RowHolds, Fhe!BackAsItWas
-----------------------------------------------------------------------------
(* Neutralize: a save that nobody disturbed is of the switch as it is.     *)

LEMMA SwitchBegins == ASSUME Neu!Init PROVE Neu!IInv
BY DEF Neu!Init, Neu!IInv, Neu!SaveHolds, Neu!NoSave

\* What another commit does to an open save.
LEMMA SpoiltSave ==
  ASSUME NEW t, t.pc = "open",
         t = [pc |-> "open", wanted |-> t.wanted, seen |-> t.seen, rows |-> t.rows,
              flags |-> t.flags, stale |-> t.stale],
         NEW stale, NEW u, u = [t EXCEPT !.stale = stale]
  PROVE  /\ u = [pc |-> "open", wanted |-> u.wanted, seen |-> u.seen, rows |-> u.rows,
                 flags |-> u.flags, stale |-> u.stale]
         /\ u.pc = "open" /\ u.wanted = t.wanted /\ u.seen = t.seen /\ u.rows = t.rows
         /\ u.flags = t.flags /\ u.stale = stale
<1> DEFINE w == t.wanted  e == t.seen  r == t.rows  f == t.flags  s == t.stale
<1>1. t = [pc |-> "open", wanted |-> w, seen |-> e, rows |-> r, flags |-> f, stale |-> s]
  OBVIOUS
<1> HIDE DEF w, e, r, f, s
<1>2. u = [pc |-> "open", wanted |-> w, seen |-> e, rows |-> r, flags |-> f, stale |-> stale]
  BY <1>1
<1>3. t.wanted = w /\ t.seen = e /\ t.rows = r /\ t.flags = f
  BY DEF w, e, r, f
<1> QED
  BY <1>2, <1>3

LEMMA SwitchStep == ASSUME Neu!IInv, [Neu!Next]_(Neu!vars) PROVE Neu!IInv'
<1> DEFINE active == s1  param == s2  save == s3  was == s5  Records == Switch.Records
           Saves == Switch.Saves
<1>1. ASSUME NEW s \in Saves, NEW wanted \in BOOLEAN, Neu!SaveStart(s, wanted) PROVE Neu!IInv'
  <2>1. PICK t : t = [pc |-> "open", wanted |-> wanted, seen |-> active, rows |-> Neu!Written(wanted),
                      flags |-> Neu!Target(wanted), stale |-> FALSE]
    OBVIOUS
  <2>2. /\ save' = [save EXCEPT ![s] = t] /\ param' = param /\ was' = was
        /\ wanted <=> ~param.on
    BY <1>1, <2>1 DEF Neu!SaveStart, Neu!OnAtAll
  <2>3. /\ t.pc = "open" /\ t.wanted = wanted /\ t.seen = active /\ t.rows = Neu!Written(wanted)
        /\ t.flags = Neu!Target(wanted) /\ t.stale = FALSE
        /\ t = [pc |-> "open", wanted |-> t.wanted, seen |-> t.seen, rows |-> t.rows,
                flags |-> t.flags, stale |-> t.stale]
    BY <2>1
  <2>4. /\ Neu!Target(wanted) = IF wanted THEN Neu!SwitchedOff(active) ELSE Neu!PutBack(active, param.snapshot)
        /\ Neu!Written(wanted) = {r \in DOMAIN active : Neu!Target(wanted)[r] # active[r]}
    BY DEF Neu!Target, Neu!Written, Neu!Existing
  <2>5. /\ t.wanted <=> ~param.on
        /\ t.flags = IF t.wanted THEN Neu!SwitchedOff(t.seen) ELSE Neu!PutBack(t.seen, param.snapshot)
        /\ t.rows = {r \in DOMAIN t.seen : t.flags[r] # t.seen[r]}
    BY <2>2, <2>3, <2>4
  <2>6. Neu!SaveHolds(t)'
    BY <2>2, <2>3, <2>5 DEF Neu!SaveHolds, Neu!PutBack, Neu!SwitchedOff
  <2>7. \A u \in Saves : save'[u] = IF u = s THEN t ELSE save[u]
    BY <2>2 DEF Neu!IInv
  <2>8. ASSUME NEW u \in Saves PROVE (save[u].pc \in {"idle", "open"} /\ Neu!SaveHolds(save[u]))'
    <3>1. CASE u = s
      <4>1. save'[u] = t
        BY <2>7, <3>1
      <4> QED
        BY <2>3, <2>6, <4>1 DEF Neu!SaveHolds, Neu!PutBack, Neu!SwitchedOff
    <3>2. CASE u # s
      <4>1. save'[u] = save[u] /\ save[u].pc \in {"idle", "open"} /\ Neu!SaveHolds(save[u])
        BY <2>7, <3>2 DEF Neu!IInv
      <4> QED
        BY <2>2, <4>1 DEF Neu!SaveHolds, Neu!PutBack
    <3> QED
      BY <3>1, <3>2
  <2>9. save' = [u \in Saves |-> save'[u]]
    BY <2>2 DEF Neu!IInv
  <2> QED
    BY <2>2, <2>8, <2>9 DEF Neu!IInv
<1>2. ASSUME NEW s \in Saves, Neu!SaveCommit(s) PROVE Neu!IInv'
  <2>1. /\ save[s].pc = "open" /\ ~save[s].stale
        /\ save' = [Neu!Stale(save[s].rows, TRUE) EXCEPT ![s] = Neu!NoSave]
        /\ param' = IF save[s].wanted THEN [on |-> TRUE, snapshot |-> save[s].seen]
                    ELSE [on |-> FALSE, snapshot |-> Neu!Nothing]
        /\ was' = CASE ~save[s].wanted -> Neu!Nothing
                    [] save[s].wanted /\ param.on -> was
                    [] OTHER -> save[s].seen
    BY <1>2 DEF Neu!SaveCommit
  <2>2. save[s].wanted <=> ~param.on
    BY <2>1 DEF Neu!IInv, Neu!SaveHolds
  <2>3. was' = param'.snapshot
    BY <2>1, <2>2
  <2>4. ASSUME NEW u \in Saves PROVE (save[u].pc \in {"idle", "open"} /\ Neu!SaveHolds(save[u]))'
    <3>1. CASE u = s
      BY <2>1, <3>1 DEF Neu!Stale, Neu!NoSave, Neu!SaveHolds
    <3>2. CASE u # s /\ save[u].pc = "idle"
      <4>1. save'[u] = save[u]
        BY <2>1, <3>2 DEF Neu!Stale
      <4> QED
        BY <3>2, <4>1 DEF Neu!SaveHolds
    <3>3. CASE u # s /\ save[u].pc = "open"
      <4>1. PICK t, v : t = save[u] /\ v = save'[u]
        OBVIOUS
      <4>2. PICK stale : v = [t EXCEPT !.stale = stale] /\ (stale <=> TRUE)
        BY <2>1, <3>3, <4>1 DEF Neu!Stale
      <4>3. /\ v = [pc |-> "open", wanted |-> v.wanted, seen |-> v.seen, rows |-> v.rows,
                    flags |-> v.flags, stale |-> v.stale]
            /\ v.pc = "open" /\ v.stale = stale
        BY <3>3, <4>1, <4>2, SpoiltSave DEF Neu!IInv, Neu!SaveHolds
      <4>4. Neu!SaveHolds(v)'
        BY <4>2, <4>3 DEF Neu!SaveHolds
      <4> QED
        BY <4>1, <4>3, <4>4 DEF Neu!SaveHolds, Neu!PutBack, Neu!SwitchedOff
    <3> QED
      BY <3>1, <3>2, <3>3 DEF Neu!IInv
  <2>5. save' = [u \in Saves |-> save'[u]]
    BY <2>1 DEF Neu!Stale
  <2> QED
    BY <2>3, <2>4, <2>5 DEF Neu!IInv
<1>3. ASSUME NEW s \in Saves, Neu!SaveAgain(s) PROVE Neu!IInv'
  <2>1. save' = [save EXCEPT ![s] = Neu!NoSave] /\ param' = param /\ was' = was
    BY <1>3 DEF Neu!SaveAgain
  <2>2. ASSUME NEW u \in Saves PROVE (save[u].pc \in {"idle", "open"} /\ Neu!SaveHolds(save[u]))'
    <3>1. CASE u = s
      BY <2>1, <3>1 DEF Neu!IInv, Neu!NoSave, Neu!SaveHolds
    <3>2. CASE u # s
      <4>1. save'[u] = save[u] /\ save[u].pc \in {"idle", "open"} /\ Neu!SaveHolds(save[u])
        BY <2>1, <3>2 DEF Neu!IInv
      <4> QED
        BY <2>1, <4>1 DEF Neu!SaveHolds, Neu!PutBack
    <3> QED
      BY <3>1, <3>2
  <2>3. save' = [u \in Saves |-> save'[u]]
    BY <2>1 DEF Neu!IInv
  <2> QED
    BY <2>1, <2>2, <2>3 DEF Neu!IInv
<1>4. ASSUME NEW r \in Records, Neu!Flip(r) \/ Neu!CreateRecord(r) \/ Neu!Delete(r) PROVE Neu!IInv'
  <2>1. save' = Neu!Stale({r}, FALSE) /\ param' = param /\ was' = was
    BY <1>4 DEF Neu!Flip, Neu!CreateRecord, Neu!Delete, Neu!Editing
  <2>2. ASSUME NEW u \in Saves PROVE (save[u].pc \in {"idle", "open"} /\ Neu!SaveHolds(save[u]))'
    <3>0. save[u].pc \in {"idle", "open"} /\ Neu!SaveHolds(save[u])
      BY DEF Neu!IInv
    <3>1. CASE save[u].pc = "idle"
      <4>1. save'[u] = save[u]
        BY <2>1, <3>1 DEF Neu!Stale
      <4> QED
        BY <3>1, <4>1 DEF Neu!SaveHolds
    <3>2. CASE save[u].pc = "open"
      <4>1. PICK t, v : t = save[u] /\ v = save'[u]
        OBVIOUS
      <4>2. PICK stale : v = [t EXCEPT !.stale = stale] /\ (t.stale => stale)
        BY <2>1, <3>2, <4>1 DEF Neu!Stale
      <4>3. /\ t = [pc |-> "open", wanted |-> t.wanted, seen |-> t.seen, rows |-> t.rows,
                    flags |-> t.flags, stale |-> t.stale]
            /\ t.pc = "open"
            /\ ~t.stale =>
                 /\ t.wanted <=> ~param.on
                 /\ t.flags = IF t.wanted THEN Neu!SwitchedOff(t.seen)
                              ELSE Neu!PutBack(t.seen, param.snapshot)
                 /\ t.rows = {x \in DOMAIN t.seen : t.flags[x] # t.seen[x]}
        BY <3>0, <3>2, <4>1 DEF Neu!SaveHolds
      <4>4. /\ v = [pc |-> "open", wanted |-> v.wanted, seen |-> v.seen, rows |-> v.rows,
                    flags |-> v.flags, stale |-> v.stale]
            /\ v.pc = "open" /\ v.wanted = t.wanted /\ v.seen = t.seen /\ v.rows = t.rows
            /\ v.flags = t.flags /\ v.stale = stale
        BY <4>2, <4>3, SpoiltSave
      <4>5. ~v.stale =>
                 /\ v.wanted <=> ~param.on
                 /\ v.flags = IF v.wanted THEN Neu!SwitchedOff(v.seen)
                              ELSE Neu!PutBack(v.seen, param.snapshot)
                 /\ v.rows = {x \in DOMAIN v.seen : v.flags[x] # v.seen[x]}
        BY <4>2, <4>3, <4>4
      <4>6. Neu!SaveHolds(v)'
        BY <2>1, <4>4, <4>5 DEF Neu!SaveHolds, Neu!PutBack, Neu!SwitchedOff
      <4> QED
        BY <4>1, <4>4, <4>6 DEF Neu!SaveHolds, Neu!PutBack, Neu!SwitchedOff
    <3> QED
      BY <3>0, <3>1, <3>2
  <2>3. save' = [u \in Saves |-> save'[u]]
    BY <2>1 DEF Neu!Stale
  <2> QED
    BY <2>1, <2>2, <2>3 DEF Neu!IInv
<1>5. ASSUME NEW r \in Records, Neu!Execute(r) \/ Neu!Executed(r) PROVE Neu!IInv'
  BY <1>5 DEF Neu!Execute, Neu!Executed, Neu!IInv, Neu!SaveHolds, Neu!PutBack
<1>6. CASE UNCHANGED Neu!vars
  BY <1>6 DEF Neu!vars, Neu!IInv, Neu!SaveHolds, Neu!PutBack
<1> QED
  BY <1>1, <1>2, <1>3, <1>4, <1>5, <1>6 DEF Neu!Next

\* A commit leaves a record that it saw as it is as it meant to, and it meant what was
\* remembered.
LEMMA FlagsComeBack == ASSUME Neu!IInv PROVE Neu!GivesBack
<1> DEFINE active == s1  save == s3  was == s5  Saves == Switch.Saves
<1> SUFFICES ASSUME NEW s \in Saves, Neu!SaveCommit(s),
                    NEW r \in Neu!Existing \cap DOMAIN save[s].seen, active[r] = save[s].seen[r]
             PROVE  active'[r] = CASE save[s].wanted -> FALSE
                                   [] ~save[s].wanted /\ r \in DOMAIN was -> was[r]
                                   [] OTHER -> active[r]
  BY DEF Neu!GivesBack
<1> DEFINE t == save[s]
<1>1. /\ t.pc = "open" /\ ~t.stale
      /\ active' = [x \in Neu!Existing |-> IF x \in t.rows THEN t.flags[x] ELSE active[x]]
  BY DEF Neu!SaveCommit
<1>2. /\ t.flags = IF t.wanted THEN Neu!SwitchedOff(t.seen) ELSE Neu!PutBack(t.seen, was)
      /\ t.rows = {x \in DOMAIN t.seen : t.flags[x] # t.seen[x]}
  BY <1>1 DEF Neu!IInv, Neu!SaveHolds
<1>3. active'[r] = t.flags[r]
  BY <1>1, <1>2
<1>4. t.flags[r] = IF t.wanted THEN FALSE ELSE IF r \in DOMAIN was THEN was[r] ELSE active[r]
  BY <1>2 DEF Neu!SwitchedOff, Neu!PutBack
<1> QED
  BY <1>3, <1>4
-----------------------------------------------------------------------------
(* What a change leaves alone *)

\* Whatever runs beside it, a run of tags changes those it was given the names of, a copy
\* of groups only adds, a label that nobody customizes any more is what the module or a
\* language pack brought, and the switch gives back the flags it found (_apply_tags,
\* action_apply, _fhe_restore_original, set_values).
THEOREM OthersAreKept == Spec => OthersKept
<1> DEFINE Inv == /\ part = "tags" => Tag!IInv
                  /\ part = "permissions" => Per!IInv
                  /\ part = "labels" => Fhe!IInv
                  /\ part = "neutralize" => Neu!IInv
<1>1. Init => Inv
  BY AddOnsAssumption, TagsBegin, CopyBegins, TextsBegin, SwitchBegins DEF Init
<1>2. Inv /\ [Next]_vars => Inv'
  <2> SUFFICES ASSUME Inv, [Next]_vars PROVE Inv'
    OBVIOUS
  <2>1. ASSUME part' = "tags" PROVE Tag!IInv'
    <3>1. part = "tags" /\ [Tag!Next]_(Tag!vars)
      BY <2>1, PartStays DEF Next, vars, Tag!vars
    <3> QED
      BY <3>1, AddOnsAssumption, TagsStep
  <2>2. ASSUME part' = "permissions" PROVE Per!IInv'
    <3>1. part = "permissions" /\ [Per!Next]_(Per!vars)
      BY <2>2, PartStays DEF Next, vars, Per!vars
    <3> QED
      BY <3>1, AddOnsAssumption, CopyStep
  <2>3. ASSUME part' = "labels" PROVE Fhe!IInv'
    <3>1. part = "labels" /\ [Fhe!Next]_(Fhe!vars)
      BY <2>3, PartStays DEF Next, vars, Fhe!vars
    <3> QED
      BY <3>1, AddOnsAssumption, TextsStep
  <2>4. ASSUME part' = "neutralize" PROVE Neu!IInv'
    <3>1. part = "neutralize" /\ [Neu!Next]_(Neu!vars)
      BY <2>4, PartStays DEF Next, vars, Neu!vars
    <3> QED
      BY <3>1, SwitchStep
  <2> QED
    BY <2>1, <2>2, <2>3, <2>4
<1>3. Inv => (part = "labels" => Fhe!BackAsItWas)
  BY TextsAreBack
<1>4. Inv /\ [Next]_vars =>
        [/\ part = "tags" => Tag!OthersKept
         /\ part = "permissions" => Per!CopyOnlyAdds
         /\ part = "neutralize" => Neu!GivesBack]_vars
  BY AddOnsAssumption, OtherTagsKept, CopiesOnlyAdd, FlagsComeBack
<1>5. Inv' /\ [Next]_vars => (part = "labels" => Fhe!BackAsItWas')
  <2>1. (Inv => (part = "labels" => Fhe!BackAsItWas))'
    BY <1>3, PTL
  <2> QED
    BY <2>1, PartStays
<1>6. Inv /\ Inv' /\ [Next]_vars =>
        [/\ part = "tags" => Tag!OthersKept
         /\ part = "permissions" => Per!CopyOnlyAdds
         /\ part = "labels" => Fhe!BackAsItWas'
         /\ part = "neutralize" => Neu!GivesBack]_vars
  BY <1>4, <1>5
<1> QED
  BY <1>1, <1>2, <1>6, PTL DEF Spec, OthersKept

-----------------------------------------------------------------------------
(* MassFieldUpdate: what a run writes, and what its report says.           *)

LEMMA UpdatesCounted ==
  /\ \A S : Upd!Cardinality(S) = Cardinality(S)
  /\ \A S : Upd!IsFiniteSet(S) <=> IsFiniteSet(S)
<1>1. \A S : Upd!Cardinality(S) = Cardinality(S)
  BY DEF Upd!Cardinality, Upd!IsFiniteSet, Cardinality, IsFiniteSet
<1>2. \A S : Upd!IsFiniteSet(S) <=> IsFiniteSet(S)
  BY DEF Upd!IsFiniteSet, IsFiniteSet
<1> QED
  BY <1>1, <1>2

LEMMA UpdatesBegin == ASSUME Upd!Init PROVE Upd!IInv
<1> DEFINE rec == s1  wizard == s3  request == s4  Records == Updates.Records
           Fields == Updates.Fields  Requests == Updates.Requests
<1>1. DOMAIN rec = Records /\ \A r \in Records : DOMAIN rec[r] = Fields
  BY DEF Upd!Init
<1>2. wizard.state = "closed" /\ DOMAIN request = Requests /\ \A q \in Requests : request[q].pc = "idle"
  BY DEF Upd!Init, Upd!NoRequest
<1> QED
  BY <1>1, <1>2 DEF Upd!IInv, Upd!RequestSound

\* A request learns of the rows that others write, and of the dialog when it moves on.
LEMMA SpoilingIsSound ==
  ASSUME Upd!IInv, NEW rs, NEW q \in Updates.Requests, s4'[q] = Upd!Spoil(rs)[q],
         DOMAIN s1' \subseteq DOMAIN s1,
         \A r \in DOMAIN s1 \ rs : r \in DOMAIN s1' /\ s1'[r] = s1[r],
         Updates.Dialog \in rs \/ s3'.state = s3.state
  PROVE  Upd!RequestSound(q)'
<1> DEFINE rec == s1  wizard == s3  request == s4  Records == Updates.Records
           Denied == Updates.Denied  Refusing == Updates.Refusing  Dialog == Updates.Dialog
<1>1. CASE request[q].pc = "idle"
  <2>1. request'[q].pc = "idle"
    BY <1>1 DEF Upd!Spoil, Upd!NoRequest
  <2> QED
    BY <2>1 DEF Upd!RequestSound
<1>2. CASE request[q].pc = "running"
  <2> DEFINE old == request[q]
  <2>1. request'[q] = [old EXCEPT !.touched = @ \cup rs]
    BY <1>2 DEF Upd!Spoil
  <2>2. DOMAIN old = {"pc", "seen", "touched"}
    BY <1>2 DEF Upd!IInv, Upd!RequestSound
  <2>3. /\ request'[q].pc = "running" /\ request'[q].seen = old.seen
        /\ request'[q].touched = old.touched \cup rs
        /\ DOMAIN request'[q] = {"pc", "seen", "touched"}
    BY <1>2, <2>1, <2>2
  <2>4. /\ DOMAIN rec \subseteq DOMAIN old.seen /\ DOMAIN old.seen \subseteq Records
        /\ \A r \in DOMAIN old.seen \ old.touched : r \in DOMAIN rec /\ rec[r] = old.seen[r]
        /\ Dialog \notin old.touched => wizard.state = "confirm"
    BY <1>2 DEF Upd!IInv, Upd!RequestSound
  <2> HIDE DEF old
  <2> QED
    BY <2>3, <2>4 DEF Upd!RequestSound
<1> QED
  BY <1>1, <1>2 DEF Upd!IInv, Upd!RequestSound

\* what a commit writes: the rows it saw to be changed, that neither the access rules nor a
\* constraint nor somebody's write keeps
Rewritten(q) ==
  Upd!Changing(s4[q].seen) \ (Updates.Denied \cup Updates.Refusing \cup s4[q].touched)

LEMMA CommitIsSound ==
  ASSUME Upd!Proper, Upd!IInv, NEW q \in Updates.Requests, Upd!ApplyCommit(q)
  PROVE  /\ DOMAIN s1' = DOMAIN s1 /\ Rewritten(q) \subseteq DOMAIN s1
         /\ \A r \in Rewritten(q) : s1'[r] # s1[r] /\ DOMAIN s1'[r] = DOMAIN s1[r]
         /\ \A r \in DOMAIN s1 \ Rewritten(q) : s1'[r] = s1[r]
         /\ s3.selection \subseteq Updates.Records
         /\ Upd!Changing(s4[q].seen) \subseteq Upd!Readable(s4[q].seen)
         /\ (Upd!Changing(s4[q].seen) \ Updates.Denied) \cap s4[q].touched = {}
<1> DEFINE rec == s1  wizard == s3  request == s4  Records == Updates.Records
           Denied == Updates.Denied  Fields == Updates.Fields
<1> DEFINE seen == request[q].seen  touched == request[q].touched
           field == wizard.field  value == wizard.value
<1>1. /\ DOMAIN rec \subseteq DOMAIN seen /\ DOMAIN seen \subseteq Records
      /\ \A r \in DOMAIN seen \ touched : r \in DOMAIN rec /\ rec[r] = seen[r]
  BY DEF Upd!ApplyCommit, Upd!IInv, Upd!RequestSound
<1>2. wizard.state = "confirm" /\ (Upd!Changing(seen) \ Denied) \cap touched = {}
  BY DEF Upd!ApplyCommit, Upd!Conflict, Upd!IInv, Upd!RequestSound
<1>3. wizard.selection \subseteq Records /\ field \in Fields
  BY <1>2 DEF Upd!IInv
<1>4. rec' = [r \in DOMAIN rec |-> IF r \in Rewritten(q) THEN [rec[r] EXCEPT ![field] = value] ELSE rec[r]]
  BY DEF Upd!ApplyCommit, Rewritten
<1>5. Upd!Changing(seen) \subseteq Upd!Readable(seen) /\ Upd!Readable(seen) \subseteq DOMAIN seen
  BY DEF Upd!Changing, Upd!Readable
<1>6. \A r \in Rewritten(q) : r \in DOMAIN seen \ touched /\ seen[r][field] # value
  BY <1>5 DEF Rewritten, Upd!Changing
<1> HIDE DEF seen, touched, field, value
<1>7. ASSUME NEW r \in Rewritten(q)
      PROVE  r \in DOMAIN rec /\ rec'[r] # rec[r] /\ DOMAIN rec'[r] = DOMAIN rec[r]
  <2>1. r \in DOMAIN rec /\ rec[r][field] # value
    BY <1>1, <1>6
  <2>2. rec'[r] = [rec[r] EXCEPT ![field] = value] /\ field \in DOMAIN rec[r]
    BY <1>3, <1>4, <2>1 DEF Upd!IInv
  <2>3. rec'[r][field] = value
    BY <2>2
  <2> QED
    BY <2>1, <2>2, <2>3
<1>8. DOMAIN rec' = DOMAIN rec /\ \A r \in DOMAIN rec \ Rewritten(q) : rec'[r] = rec[r]
  BY <1>4
<1> QED
  BY <1>2, <1>3, <1>5, <1>7, <1>8 DEF seen, touched

LEMMA UpdatesStep == ASSUME Upd!Proper, Upd!IInv, [Upd!Next]_(Upd!vars) PROVE Upd!IInv'
<1> DEFINE rec == s1  wizard == s3  request == s4  Records == Updates.Records
           Fields == Updates.Fields  Dialog == Updates.Dialog  Requests == Updates.Requests
<1>1. CASE UNCHANGED Upd!vars
  BY <1>1 DEF Upd!vars, Upd!IInv, Upd!RequestSound
<1>2. CASE Upd!Open
  <2>1. PICK selection \in SUBSET Records, f \in Fields, v \in Upd!Contents :
          wizard' = [state |-> "choose", selection |-> selection, field |-> f, value |-> v]
    BY <1>2 DEF Upd!Open
  <2>2. rec' = rec /\ request' = request /\ \A q \in Requests : request[q].pc = "idle"
    BY <1>2 DEF Upd!Open
  <2>3. \A q \in Requests : Upd!RequestSound(q)'
    BY <2>2 DEF Upd!RequestSound
  <2>4. /\ wizard'.state = "choose" /\ DOMAIN wizard' = {"state", "selection", "field", "value"}
        /\ wizard'.selection \subseteq Records /\ wizard'.field \in Fields
    BY <2>1
  <2> QED
    BY <2>2, <2>3, <2>4 DEF Upd!IInv
<1>3. CASE Upd!Choose \/ Upd!Preview
  <2>1. /\ wizard.state = "choose" /\ DOMAIN wizard = {"state", "selection", "field", "value"}
        /\ rec' = rec /\ request' = request
    BY <1>3 DEF Upd!Choose, Upd!Preview, Upd!IInv
  <2>2. /\ wizard'.state \in {"choose", "confirm"}
        /\ DOMAIN wizard' = {"state", "selection", "field", "value"}
        /\ wizard'.selection = wizard.selection /\ wizard'.field \in Fields
    <3>1. CASE Upd!Choose
      <4>1. PICK f \in Fields, v \in Upd!Contents : wizard' = [wizard EXCEPT !.field = f, !.value = v]
        BY <3>1 DEF Upd!Choose
      <4> QED
        BY <2>1, <4>1
    <3>2. CASE Upd!Preview
      <4>1. wizard' = [wizard EXCEPT !.state = "confirm"] /\ wizard.field \in Fields
        BY <2>1, <3>2 DEF Upd!Preview, Upd!IInv
      <4> QED
        BY <2>1, <4>1
    <3> QED
      BY <1>3, <3>1, <3>2
  <2>3. ASSUME NEW q \in Requests PROVE Upd!RequestSound(q)'
    <3>1. request[q].pc = "running" => Dialog \in request[q].touched
      BY <2>1 DEF Upd!IInv, Upd!RequestSound
    <3> QED
      BY <2>1, <3>1 DEF Upd!IInv, Upd!RequestSound
  <2> QED
    BY <2>1, <2>2, <2>3 DEF Upd!IInv
<1>4. CASE Upd!Back
  <2>1. /\ wizard' = [wizard EXCEPT !.state = "choose"]
        /\ DOMAIN wizard = {"state", "selection", "field", "value"}
        /\ wizard.selection \subseteq Records /\ wizard.field \in Fields
        /\ rec' = rec /\ request' = Upd!Spoil({Dialog})
    BY <1>4 DEF Upd!Back, Upd!IInv
  <2>2. /\ wizard'.state = "choose" /\ DOMAIN wizard' = {"state", "selection", "field", "value"}
        /\ wizard'.selection \subseteq Records /\ wizard'.field \in Fields
    BY <2>1
  <2>3. ASSUME NEW q \in Requests PROVE Upd!RequestSound(q)'
    <3>1. request'[q] = Upd!Spoil({Dialog})[q] /\ Dialog \in {Dialog}
      BY <2>1
    <3> QED
      BY <2>1, <3>1, SpoilingIsSound
  <2>4. DOMAIN request' = Requests
    BY <2>1 DEF Upd!Spoil
  <2> QED
    BY <2>1, <2>2, <2>3, <2>4 DEF Upd!IInv
<1>5. ASSUME NEW q \in Requests, Upd!ApplyStart(q) PROVE Upd!IInv'
  <2>1. /\ request' = [request EXCEPT ![q] = [pc |-> "running", seen |-> rec, touched |-> {}]]
        /\ rec' = rec /\ wizard' = wizard /\ wizard.state = "confirm"
    BY <1>5 DEF Upd!ApplyStart, Upd!MayApply
  <2>2. /\ request'[q] = [pc |-> "running", seen |-> rec, touched |-> {}]
        /\ DOMAIN request' = Requests /\ \A p \in Requests \ {q} : request'[p] = request[p]
    BY <2>1 DEF Upd!IInv
  <2>3. Upd!RequestSound(q)'
    <3>1. /\ request'[q].pc = "running" /\ request'[q].seen = rec
          /\ DOMAIN request'[q] = {"pc", "seen", "touched"}
      BY <2>2
    <3> QED
      BY <2>1, <3>1 DEF Upd!RequestSound, Upd!IInv
  <2>4. \A p \in Requests \ {q} : Upd!RequestSound(p)'
    BY <2>1, <2>2 DEF Upd!RequestSound, Upd!IInv
  <2> QED
    BY <2>1, <2>2, <2>3, <2>4 DEF Upd!IInv
<1>6. ASSUME NEW q \in Requests, Upd!ApplyCommit(q) PROVE Upd!IInv'
  <2>1. /\ DOMAIN rec' = DOMAIN rec
        /\ \A r \in DOMAIN rec : DOMAIN rec'[r] = DOMAIN rec[r]
        /\ \A r \in DOMAIN rec \ Rewritten(q) : rec'[r] = rec[r]
    BY <1>6, CommitIsSound
  <2>2. wizard'.state = "done"
    BY <1>6 DEF Upd!ApplyCommit
  <2>3. request' = [p \in Requests |-> IF p = q THEN Upd!NoRequest ELSE Upd!Spoil(Rewritten(q) \cup {Dialog})[p]]
    BY <1>6 DEF Upd!ApplyCommit, Rewritten
  <2>4. ASSUME NEW p \in Requests PROVE Upd!RequestSound(p)'
    <3>1. CASE p = q
      <4>1. request'[p].pc = "idle"
        BY <2>3, <3>1 DEF Upd!NoRequest
      <4> QED
        BY <4>1 DEF Upd!RequestSound
    <3>2. CASE p # q
      <4> DEFINE rs == Rewritten(q) \cup {Dialog}
      <4>1. request'[p] = Upd!Spoil(rs)[p] /\ Dialog \in rs
        BY <2>3, <3>2
      <4>2. \A r \in DOMAIN rec \ rs : r \in DOMAIN rec' /\ rec'[r] = rec[r]
        BY <2>1
      <4> HIDE DEF rs
      <4> QED
        BY <2>1, <4>1, <4>2, SpoilingIsSound
    <3> QED
      BY <3>1, <3>2
  <2>5. DOMAIN request' = Requests
    BY <2>3
  <2> QED
    BY <2>1, <2>2, <2>4, <2>5 DEF Upd!IInv
<1>7. ASSUME NEW q \in Requests, Upd!ApplyFails(q) PROVE Upd!IInv'
  <2>1. /\ request' = [request EXCEPT ![q] = Upd!NoRequest] /\ rec' = rec /\ wizard' = wizard
    BY <1>7 DEF Upd!ApplyFails
  <2>2. /\ request'[q].pc = "idle" /\ DOMAIN request' = Requests
        /\ \A p \in Requests \ {q} : request'[p] = request[p]
    BY <2>1 DEF Upd!IInv, Upd!NoRequest
  <2>3. \A p \in Requests : Upd!RequestSound(p)'
    BY <2>1, <2>2 DEF Upd!RequestSound, Upd!IInv
  <2> QED
    BY <2>1, <2>2, <2>3 DEF Upd!IInv
<1>8. ASSUME NEW r \in Records, Upd!Edit(r) \/ Upd!Delete(r) PROVE Upd!IInv'
  <2>1. /\ wizard' = wizard /\ request' = Upd!Spoil({r})
        /\ DOMAIN rec' \subseteq DOMAIN rec
        /\ \A s \in DOMAIN rec \ {r} : s \in DOMAIN rec' /\ rec'[s] = rec[s]
    BY <1>8 DEF Upd!Edit, Upd!Delete
  <2>2. \A s \in DOMAIN rec' : DOMAIN rec'[s] = Fields
    BY <1>8 DEF Upd!Edit, Upd!Delete, Upd!IInv
  <2>3. ASSUME NEW q \in Requests PROVE Upd!RequestSound(q)'
    <3>1. request'[q] = Upd!Spoil({r})[q] /\ wizard'.state = wizard.state
      BY <2>1
    <3> QED
      BY <2>1, <3>1, SpoilingIsSound
  <2>4. DOMAIN request' = Requests
    BY <2>1 DEF Upd!Spoil
  <2> QED
    BY <2>1, <2>2, <2>3, <2>4 DEF Upd!IInv
<1>9. ASSUME NEW f \in Fields, Upd!Regrant(f) PROVE Upd!IInv'
  BY <1>9 DEF Upd!Regrant, Upd!IInv, Upd!RequestSound
<1> QED
  BY <1>1, <1>2, <1>3, <1>4, <1>5, <1>6, <1>7, <1>8, <1>9 DEF Upd!Next

\* What Apply counts are the records of the selection, each once.
LEMMA UpdatesTell == ASSUME Upd!Proper, Upd!IInv PROVE Upd!ReportTells
<1> DEFINE rec == s1  wizard == s3  request == s4  Records == Updates.Records
           Hidden == Updates.Hidden  Denied == Updates.Denied  Refusing == Updates.Refusing
           Requests == Updates.Requests
<1> SUFFICES ASSUME NEW q \in Requests, Upd!ApplyCommit(q)
             PROVE  LET changed == {r \in DOMAIN rec : rec'[r] # rec[r]}
                    IN  /\ wizard'.updated = Upd!Cardinality(changed)
                        /\ wizard'.failed =
                             Upd!Cardinality((Upd!Changing(request[q].seen) \ Denied) \cap Refusing)
                        /\ wizard'.updated + wizard'.skipped + wizard'.failed + wizard'.unchanged
                             = Upd!Cardinality(wizard.selection)
  BY DEF Upd!ReportTells
<1> DEFINE seen == request[q].seen
           selection == wizard.selection
           changing == Upd!Changing(seen)
           done == Rewritten(q)
           skipped == (changing \cap Denied) \cup Upd!Unseen(seen) \cup Upd!Missing(seen)
           failed == (changing \ Denied) \ done
           same == Upd!Readable(seen) \ changing
<1>1. /\ wizard'.updated = Upd!Cardinality(done) /\ wizard'.skipped = Upd!Cardinality(skipped)
      /\ wizard'.failed = Upd!Cardinality(failed) /\ wizard'.unchanged = Upd!Cardinality(same)
  <2>1. wizard' = [state |-> "done", selection |-> wizard.selection,
                   updated |-> Upd!Cardinality(done), skipped |-> Upd!Skipped(seen),
                   failed |-> Upd!Cardinality(failed), unchanged |-> Upd!Cardinality(same)]
    BY DEF Upd!ApplyCommit, Rewritten
  <2>2. Upd!Skipped(seen) = Upd!Cardinality(skipped)
    BY DEF Upd!Skipped
  <2> HIDE DEF done, failed, same, skipped
  <2> QED
    BY <2>1, <2>2
<1>2. {r \in DOMAIN rec : rec'[r] # rec[r]} = done
  BY CommitIsSound
<1>3. /\ selection \subseteq Records /\ changing \subseteq Upd!Readable(seen)
      /\ (changing \ Denied) \cap request[q].touched = {}
  BY CommitIsSound
<1>4. failed = (changing \ Denied) \cap Refusing /\ done = (changing \ Denied) \ Refusing
  BY <1>3 DEF Rewritten
<1>5. Upd!IsFiniteSet(selection)
  BY <1>3, FS_Subset, UpdatesCounted DEF Upd!Proper
<1>6. /\ Upd!Readable(seen) = (selection \cap DOMAIN seen) \ Hidden
      /\ Upd!Unseen(seen) = (selection \cap DOMAIN seen) \cap Hidden
      /\ Upd!Missing(seen) = selection \ DOMAIN seen
  BY DEF Upd!Readable, Upd!Unseen, Upd!Missing
<1> HIDE DEF selection, changing, done, failed, seen
<1> DEFINE counted == changing \ Denied
<1>7. /\ selection \cap skipped = skipped /\ selection \ skipped = counted \cup same
      /\ (counted \cup same) \cap counted = counted /\ (counted \cup same) \ counted = same
      /\ counted \cap Refusing = failed /\ counted \ Refusing = done
  BY <1>3, <1>4, <1>6
<1> HIDE DEF skipped, same, counted
<1>8. /\ Upd!IsFiniteSet(skipped) /\ Upd!IsFiniteSet(counted \cup same)
      /\ Upd!Cardinality(skipped) \in Nat
      /\ Upd!Cardinality(selection) = Upd!Cardinality(skipped) + Upd!Cardinality(counted \cup same)
  <2>1. /\ Upd!IsFiniteSet(selection \cap skipped) /\ Upd!IsFiniteSet(selection \ skipped)
        /\ Upd!Cardinality(selection \cap skipped) \in Nat
        /\ Upd!Cardinality(selection) = Upd!Cardinality(selection \cap skipped) + Upd!Cardinality(selection \ skipped)
    BY <1>5, PartsCount, UpdatesCounted
  <2> QED
    BY <1>7, <2>1
<1>9. /\ Upd!IsFiniteSet(counted) /\ Upd!Cardinality(same) \in Nat
      /\ Upd!Cardinality(counted \cup same) = Upd!Cardinality(counted) + Upd!Cardinality(same)
  BY <1>7, <1>8, PartsCount, UpdatesCounted
<1>10. /\ Upd!Cardinality(failed) \in Nat /\ Upd!Cardinality(done) \in Nat
       /\ Upd!Cardinality(counted) = Upd!Cardinality(failed) + Upd!Cardinality(done)
  BY <1>7, <1>9, PartsCount, UpdatesCounted
<1>11. Upd!Cardinality(done) + Upd!Cardinality(skipped) + Upd!Cardinality(failed) + Upd!Cardinality(same)
         = Upd!Cardinality(selection)
  BY <1>8, <1>9, <1>10
<1> QED
  BY <1>1, <1>2, <1>4, <1>11 DEF selection, changing, seen
-----------------------------------------------------------------------------
(* BlacklistImport: the first entry of each address, and what a commit     *)
(* writes.                                                                 *)

LEMMA ImportsCounted ==
  /\ \A S : Bla!Cardinality(S) = Cardinality(S)
  /\ \A S : Bla!IsFiniteSet(S) <=> IsFiniteSet(S)
<1>1. \A S : Bla!Cardinality(S) = Cardinality(S)
  BY DEF Bla!Cardinality, Bla!IsFiniteSet, Cardinality, IsFiniteSet
<1>2. \A S : Bla!IsFiniteSet(S) <=> IsFiniteSet(S)
  BY DEF Bla!IsFiniteSet, IsFiniteSet
<1> QED
  BY <1>1, <1>2

\* the first of the pasted entries, up to the limit
LEMMA KeptIsSequence ==
  ASSUME Bla!Proper, NEW tokens \in Bla!Seq(Blacklist.Entries)
  PROVE  /\ Bla!Kept(tokens) \in Bla!Seq(Blacklist.Entries) /\ Bla!Len(Bla!Kept(tokens)) \in Nat
         /\ DOMAIN Bla!Kept(tokens) = 1..Bla!Len(Bla!Kept(tokens)) /\ Bla!IsFiniteSet(DOMAIN Bla!Kept(tokens))
         /\ Bla!Cardinality(DOMAIN Bla!Kept(tokens)) = Bla!Len(Bla!Kept(tokens))
<1> DEFINE Entries == Blacklist.Entries  Limit == Blacklist.Limit
<1> DEFINE n == IF Bla!Len(tokens) > Limit THEN Limit ELSE Bla!Len(tokens)
           kept == Bla!Kept(tokens)
<1>1. n \in Nat /\ n <= Bla!Len(tokens)
  BY DEF Bla!Proper
<1>2. kept = Bla!SubSeq(tokens, 1, n)
  BY DEF Bla!Kept
<1> HIDE DEF n, kept
<1>3. kept \in Bla!Seq(Entries)
  <2> HIDE DEF Entries
  <2>1. tokens \in Bla!Seq(Entries)
    BY DEF Entries
  <2>2. Bla!Len(tokens) \in Nat /\ \A i \in 1..n : tokens[i] \in Entries
    BY <1>1, <2>1
  <2>3. Bla!Len(kept) = n /\ \A i \in 1..n : kept[i] = tokens[i]
    BY <1>1, <1>2, <2>1, <2>2
  <2>4. kept = [i \in 1..n |-> tokens[i]]
    BY <1>1, <1>2, <2>1, <2>2
  <2> QED
    BY <1>1, <2>2, <2>4
<1>4. Bla!Len(kept) \in Nat /\ DOMAIN kept = 1..Bla!Len(kept)
  BY <1>3
<1>5. Bla!IsFiniteSet(1..Bla!Len(kept)) /\ Bla!Cardinality(1..Bla!Len(kept)) = Bla!Len(kept)
  <2> DEFINE l == Bla!Len(kept)
  <2>1. l \in Nat
    BY <1>4
  <2> HIDE DEF l
  <2>2. 1 \in Int /\ l \in Int
    BY <2>1
  <2>3. /\ Bla!IsFiniteSet(1..l)
        /\ Bla!Cardinality(1..l) = IF 1 > l THEN 0 ELSE l - 1 + 1
    BY <2>2, FS_Interval, ImportsCounted
  <2>4. Bla!Cardinality(1..l) = l
    BY <2>1, <2>3
  <2> QED
    BY <2>3, <2>4 DEF l
<1> QED
  BY <1>3, <1>4, <1>5 DEF kept

\* Each address that is asked for has one entry of its own, the first.
LEMMA EmailsAreFirst ==
  ASSUME Bla!Proper, NEW kept \in Bla!Seq(Blacklist.Entries)
  PROVE  /\ Bla!Emails(kept) \subseteq DOMAIN kept /\ Bla!Rejected(kept) \subseteq DOMAIN kept
         /\ Bla!Emails(kept) \cap Bla!Rejected(kept) = {}
         /\ \A i \in Bla!Emails(kept) : Blacklist.Normal[kept[i]] \in Blacklist.Addresses
         /\ \A i, j \in Bla!Emails(kept) : Blacklist.Normal[kept[i]] = Blacklist.Normal[kept[j]] => i = j
         /\ \A i \in DOMAIN kept : Blacklist.Normal[kept[i]] # Blacklist.Invalid =>
              \E j \in Bla!Emails(kept) : Blacklist.Normal[kept[j]] = Blacklist.Normal[kept[i]]
<1> DEFINE Entries == Blacklist.Entries  Addresses == Blacklist.Addresses
           Invalid == Blacklist.Invalid  Normal == Blacklist.Normal
<1> DEFINE at(i) == Normal[kept[i]]
<1>1. DOMAIN kept = 1..Bla!Len(kept) /\ Bla!Len(kept) \in Nat /\ \A i \in DOMAIN kept : kept[i] \in Entries
  OBVIOUS
<1>2. /\ Bla!Emails(kept) = {i \in DOMAIN kept : at(i) # Invalid /\ \A j \in 1..i - 1 : at(j) # at(i)}
      /\ Bla!Rejected(kept) = {i \in DOMAIN kept : at(i) = Invalid}
  BY DEF Bla!Emails, Bla!Rejected
<1>3. \A i \in DOMAIN kept : at(i) \in Addresses \cup {Invalid}
  BY <1>1 DEF Bla!Proper
<1> HIDE DEF at
<1>4. ASSUME NEW i \in Bla!Emails(kept), NEW j \in Bla!Emails(kept), at(i) = at(j) PROVE i = j
  <2>1. /\ i \in Nat /\ j \in Nat /\ i >= 1 /\ j >= 1
        /\ \A k \in 1..i - 1 : at(k) # at(i)
        /\ \A k \in 1..j - 1 : at(k) # at(j)
    BY <1>1, <1>2
  <2>2. CASE i < j
    <3>1. i \in 1..j - 1
      BY <2>1, <2>2
    <3> QED
      BY <1>4, <2>1, <3>1
  <2>3. CASE j < i
    <3>1. j \in 1..i - 1
      BY <2>1, <2>3
    <3> QED
      BY <1>4, <2>1, <3>1
  <2> QED
    BY <2>1, <2>2, <2>3
<1>5. ASSUME NEW i \in DOMAIN kept, at(i) # Invalid PROVE \E j \in Bla!Emails(kept) : at(j) = at(i)
  <2> DEFINE those == {j \in DOMAIN kept : at(j) = at(i)}
  <2>1. those \in SUBSET Nat /\ those # {}
    BY <1>1
  <2>2. PICK j \in those : \A k \in those : j <= k
    <3> HIDE DEF those
    <3> QED
      BY <2>1, LeastIsThere
  <2>3. \A k \in 1..j - 1 : k \in DOMAIN kept /\ ~(j <= k)
    BY <1>1, <2>2
  <2>4. \A k \in 1..j - 1 : at(k) # at(j)
    BY <2>2, <2>3
  <2> QED
    BY <1>2, <1>5, <2>2, <2>4
<1> QED
  BY <1>2, <1>3, <1>4, <1>5 DEF at

\* Of a finite set of numbers, each place in their order is somebody's.
LEMMA NthIsThere ==
  ASSUME NEW bad \in SUBSET Nat, Bla!IsFiniteSet(bad), NEW n \in 1..Bla!Cardinality(bad)
  PROVE  Bla!Nth(bad, n) \in bad
<1> DEFINE below(i) == {j \in bad : j < i}
           missing == {k \in 0..(Bla!Cardinality(bad) - 1) : \A i \in bad : Bla!Cardinality(below(i)) # k}
<1>1. Bla!Cardinality(bad) \in Nat /\ missing \in SUBSET Nat
  BY FS_CardinalityType, ImportsCounted
<1>2. \A i : below(i) \subseteq bad
  OBVIOUS
<1>3. ASSUME missing # {} PROVE FALSE
  <2>1. PICK k \in missing : \A l \in missing : k <= l
    <3> HIDE DEF missing
    <3> QED
      BY <1>1, <1>3, LeastIsThere
  <2>2. /\ k \in Nat /\ k < Bla!Cardinality(bad) /\ \A i \in bad : Bla!Cardinality(below(i)) # k
        /\ k # 0 => \E i \in bad : Bla!Cardinality(below(i)) = k - 1
    <3>1. k \in 0..(Bla!Cardinality(bad) - 1) /\ \A i \in bad : Bla!Cardinality(below(i)) # k
      BY <2>1
    <3>2. ASSUME NEW l \in 0..(Bla!Cardinality(bad) - 1), l < k
          PROVE  \E i \in bad : Bla!Cardinality(below(i)) = l
      <4>1. ~(k <= l)
        BY <1>1, <3>1, <3>2
      <4>2. l \notin missing
        <5> HIDE DEF missing
        <5> QED
          BY <2>1, <4>1
      <4> HIDE DEF below
      <4> QED
        BY <4>2
    <3> HIDE DEF below
    <3>3. k # 0 => k - 1 \in 0..(Bla!Cardinality(bad) - 1) /\ k - 1 < k
      BY <1>1, <3>1
    <3> QED
      BY <1>1, <3>1, <3>2, <3>3
  <2> HIDE DEF missing
  \* what is counted so far leaves somebody, and the least of the others comes next
  <2>3. PICK seen \in SUBSET bad : /\ Bla!Cardinality(seen) = k
                                  /\ \A i \in seen, j \in bad : j < i => j \in seen
    <3>1. CASE k = 0
      BY <3>1, FS_EmptySet, ImportsCounted
    <3>2. CASE k # 0
      <4>1. PICK i \in bad : Bla!Cardinality(below(i)) = k - 1
        BY <2>2, <3>2
      <4>2. Bla!IsFiniteSet(below(i)) /\ i \notin below(i) /\ i \in Nat
        BY <1>2, FS_Subset, ImportsCounted
      <4> DEFINE seen == below(i) \cup {i}
      <4>3. Bla!Cardinality(seen) = k
        <5> HIDE DEF below
        <5>1. Bla!Cardinality(below(i) \cup {i}) = Bla!Cardinality(below(i)) + 1
          BY <4>2, FS_AddElement, ImportsCounted
        <5> QED
          BY <2>2, <4>1, <5>1
      <4>4. seen \subseteq bad /\ \A a \in seen, j \in bad : j < a => j \in seen
        <5>1. \A a \in seen : a <= i /\ a \in Nat
          BY <4>2
        <5>2. \A a \in seen, j \in bad : j < a => j < i
          BY <4>2, <5>1
        <5> QED
          BY <5>2
      <4> HIDE DEF seen
      <4> QED
        BY <4>3, <4>4
    <3> QED
      BY <3>1, <3>2
  <2>4. bad \ seen # {} /\ bad \ seen \in SUBSET Nat
    <3>1. Bla!Cardinality(seen) # Bla!Cardinality(bad)
      BY <1>1, <2>2, <2>3
    <3>2. seen # bad
      BY <3>1
    <3> QED
      BY <2>3, <3>2
  <2>5. PICK i \in bad \ seen : \A j \in bad \ seen : i <= j
    <3> DEFINE rest == bad \ seen
    <3>1. rest # {} /\ rest \in SUBSET Nat
      BY <2>4
    <3> HIDE DEF rest
    <3>2. \E i \in rest : \A j \in rest : i <= j
      BY <3>1, LeastIsThere
    <3> QED
      BY <3>2 DEF rest
  <2>6. below(i) = seen
    <3>1. \A j \in bad : j < i => j \in seen
      BY <2>5
    <3>2. \A j \in seen : j < i
      BY <2>3, <2>5
    <3> QED
      BY <3>1, <3>2
  <2> QED
    BY <2>2, <2>3, <2>5, <2>6
<1>4. \E i \in bad : Bla!Cardinality(below(i)) = n - 1
  <2>1. n - 1 \in 0..(Bla!Cardinality(bad) - 1)
    BY <1>1
  <2> QED
    BY <1>3, <2>1
<1> QED
  BY <1>4 DEF Bla!Nth

\* The rejected entries are listed, each once.
LEMMA RejectedAreListed ==
  ASSUME NEW kept \in Bla!Seq(Blacklist.Entries), NEW bad \in SUBSET (DOMAIN kept),
         Bla!IsFiniteSet(bad)
  PROVE  LET listed == [n \in 1..Bla!Cardinality(bad) |-> kept[Bla!Nth(bad, n)]]
         IN  listed \in Bla!Seq(Blacklist.Entries) /\ Bla!Len(listed) = Bla!Cardinality(bad)
<1> DEFINE Entries == Blacklist.Entries
<1> DEFINE size == Bla!Cardinality(bad)
           listed == [n \in 1..size |-> kept[Bla!Nth(bad, n)]]
<1>1. size \in Nat /\ bad \in SUBSET Nat
  BY FS_CardinalityType, ImportsCounted
<1>2. \A n \in 1..size : kept[Bla!Nth(bad, n)] \in Entries
  BY <1>1, NthIsThere
<1> HIDE DEF size
<1>3. listed \in Bla!Seq(Entries) /\ Bla!Len(listed) = size
  BY <1>1, <1>2
<1> QED
  BY <1>3 DEF size

LEMMA ImportsBegin == ASSUME Bla!Init PROVE Bla!IInv
<1> DEFINE list == s1  form == s2  import == s3  Addresses == Blacklist.Addresses
<1>1. list \in UNION {[as -> BOOLEAN] : as \in SUBSET Addresses}
  BY DEF Bla!Init
<1>2. \A a \in DOMAIN list : list[a] \in BOOLEAN
  BY <1>1
<1>3. form.state = "draft" /\ form.tokens = <<>> /\ import.pc = "idle"
  BY DEF Bla!Init, Bla!Draft, Bla!NoImport
<1> QED
  BY <1>2, <1>3 DEF Bla!IInv

\* What a commit does: each address it may write is as asked, and all the others stay.
LEMMA CommitWrites ==
  ASSUME Bla!Proper, Bla!IInv, Bla!ImportCommit
  PROVE  LET kept == Bla!Kept(s2.tokens)
             failed == {i \in Bla!ToWrite(s3.seen) : Bla!Address(i) \in s3.touched}
             written == Bla!ToWrite(s3.seen) \ failed
             rows == {Bla!Address(i) : i \in written}
             bad == Bla!Rejected(kept) \cup failed
         IN  /\ DOMAIN s1' = DOMAIN s1 \cup rows
             /\ \A a \in DOMAIN s1' : s1'[a] = IF a \in rows THEN s2.mode = "add" ELSE s1[a]
             /\ s2'.state = "done" /\ s2'.tokens = s2.tokens /\ s3'.pc = "idle"
             /\ s2'.written = Bla!Cardinality(written)
             /\ s2'.same = Bla!Cardinality(Bla!Emails(kept) \ Bla!ToWrite(s3.seen))
             /\ s2'.duplicates = Bla!Len(kept) - Bla!Cardinality(Bla!Emails(kept) \cup Bla!Rejected(kept))
             /\ s2'.invalid \in Bla!Seq(Blacklist.Entries) /\ Bla!Len(s2'.invalid) = Bla!Cardinality(bad)
<1> DEFINE list == s1  form == s2  import == s3  Entries == Blacklist.Entries
           Limit == Blacklist.Limit
<1> DEFINE kept == Bla!Kept(form.tokens)
           failed == {i \in Bla!ToWrite(import.seen) : Bla!Address(i) \in import.touched}
           written == Bla!ToWrite(import.seen) \ failed
           rows == {Bla!Address(i) : i \in written}
           bad == Bla!Rejected(kept) \cup failed
           listed == [n \in 1..Bla!Cardinality(bad) |-> kept[Bla!Nth(bad, n)]]
<1>1. /\ list' = [a \in DOMAIN list \cup rows |-> IF a \in rows THEN form.mode = "add" ELSE list[a]]
      /\ form' = [state |-> "done", mode |-> form.mode, tokens |-> form.tokens,
                  found |-> Bla!Len(form.tokens), written |-> Bla!Cardinality(written),
                  same |-> Bla!Cardinality(Bla!Emails(kept) \ Bla!ToWrite(import.seen)),
                  duplicates |-> Bla!Len(kept) - Bla!Cardinality(Bla!Emails(kept) \cup Bla!Rejected(kept)),
                  invalid |-> listed, truncated |-> Bla!Len(form.tokens) > Limit]
      /\ import' = Bla!NoImport
  BY DEF Bla!ImportCommit
<1>2. import'.pc = "idle"
  BY <1>1 DEF Bla!NoImport
<1>3. kept \in Bla!Seq(Entries) /\ Bla!IsFiniteSet(DOMAIN kept)
  BY KeptIsSequence DEF Bla!IInv
<1>4. bad \in SUBSET (DOMAIN kept)
  <2>1. Bla!ToWrite(import.seen) \subseteq Bla!Emails(kept)
    BY DEF Bla!ToWrite
  <2>2. Bla!Emails(kept) \subseteq DOMAIN kept /\ Bla!Rejected(kept) \subseteq DOMAIN kept
    BY DEF Bla!Emails, Bla!Rejected
  <2> QED
    BY <2>1, <2>2
<1> HIDE DEF kept, bad, rows, written
<1>5. Bla!IsFiniteSet(bad)
  BY <1>3, <1>4, FS_Subset, ImportsCounted
<1>6. listed \in Bla!Seq(Entries) /\ Bla!Len(listed) = Bla!Cardinality(bad)
  BY <1>3, <1>4, <1>5, RejectedAreListed
<1> HIDE DEF listed
<1>7. /\ DOMAIN list' = DOMAIN list \cup rows
      /\ \A a \in DOMAIN list' : list'[a] = IF a \in rows THEN form.mode = "add" ELSE list[a]
  BY <1>1
<1>8. /\ form'.state = "done" /\ form'.tokens = form.tokens
      /\ form'.written = Bla!Cardinality(written)
      /\ form'.same = Bla!Cardinality(Bla!Emails(kept) \ Bla!ToWrite(import.seen))
      /\ form'.duplicates = Bla!Len(kept) - Bla!Cardinality(Bla!Emails(kept) \cup Bla!Rejected(kept))
      /\ form'.invalid = listed
  BY <1>1
<1> QED
  BY <1>2, <1>6, <1>7, <1>8 DEF kept, bad, rows, written

LEMMA ImportsStep == ASSUME Bla!Proper, Bla!IInv, [Bla!Next]_(Bla!vars) PROVE Bla!IInv'
<1> DEFINE list == s1  form == s2  import == s3  Entries == Blacklist.Entries
           Addresses == Blacklist.Addresses  MaxEntries == Blacklist.MaxEntries
<1>1. CASE UNCHANGED Bla!vars
  BY <1>1 DEF Bla!vars, Bla!IInv, Bla!Active
<1>2. CASE Bla!Fill
  <2>1. PICK mode \in {"add", "remove"}, n \in 1..MaxEntries : \E tokens \in [1..n -> Entries] :
          form' = Bla!Draft(mode, tokens)
    BY <1>2 DEF Bla!Fill
  <2>2. PICK tokens \in [1..n -> Entries] : form' = Bla!Draft(mode, tokens)
    BY <2>1
  <2>3. form'.state = "draft" /\ form'.tokens = tokens /\ tokens \in Bla!Seq(Entries)
    BY <2>1, <2>2 DEF Bla!Draft
  <2>4. list' = list /\ import' = import /\ import.pc = "idle"
    BY <1>2 DEF Bla!Fill
  <2> QED
    BY <2>3, <2>4 DEF Bla!IInv
<1>3. CASE Bla!ImportStart
  <2>1. /\ import' = [pc |-> "running", seen |-> list, touched |-> {}]
        /\ list' = list /\ form' = form /\ form.state = "draft"
    BY <1>3 DEF Bla!ImportStart
  <2>2. /\ import'.pc = "running" /\ import'.seen = list
        /\ DOMAIN import' = {"pc", "seen", "touched"}
    BY <2>1
  <2> QED
    BY <2>1, <2>2 DEF Bla!IInv, Bla!Active
<1>4. CASE Bla!ImportCommit
  <2> DEFINE rows == {Bla!Address(i) : i \in Bla!ToWrite(import.seen)
                                        \ {i \in Bla!ToWrite(import.seen) : Bla!Address(i) \in import.touched}}
  <2>1. /\ DOMAIN list' = DOMAIN list \cup rows
        /\ \A a \in DOMAIN list' : list'[a] = IF a \in rows THEN form.mode = "add" ELSE list[a]
        /\ form'.state = "done" /\ form'.tokens = form.tokens /\ import'.pc = "idle"
        /\ form'.invalid \in Bla!Seq(Entries)
    BY <1>4, CommitWrites
  <2> HIDE DEF rows
  <2>2. \A a \in DOMAIN list' : list'[a] \in BOOLEAN
    <3> SUFFICES ASSUME NEW a \in DOMAIN list' PROVE list'[a] \in BOOLEAN
      OBVIOUS
    <3>1. CASE a \in rows
      BY <2>1, <3>1
    <3>2. CASE a \notin rows
      BY <2>1, <3>2 DEF Bla!IInv
    <3> QED
      BY <3>1, <3>2
  <2> QED
    BY <2>1, <2>2 DEF Bla!IInv
<1>5. CASE Bla!ImportFails
  <2>1. import'.pc = "idle" /\ list' = list /\ form' = form
    BY <1>5 DEF Bla!ImportFails, Bla!NoImport
  <2> QED
    BY <2>1 DEF Bla!IInv
<1>6. CASE Bla!RetryInvalid
  <2>1. /\ list' = list /\ import' = import /\ form.state = "done" /\ form.invalid \in Bla!Seq(Entries)
        /\ form'.state = "draft" /\ form'.tokens = form.invalid
    BY <1>6 DEF Bla!RetryInvalid, Bla!Draft, Bla!IInv
  <2>2. import.pc = "idle"
    BY <2>1 DEF Bla!IInv
  <2> QED
    BY <2>1, <2>2 DEF Bla!IInv
<1>8. CASE Bla!Reopen
  <2>1. /\ list' = list /\ import' = import /\ form.state = "done"
        /\ form'.state = "draft" /\ form'.tokens = <<>>
    BY <1>8 DEF Bla!Reopen, Bla!Draft
  <2>2. import.pc = "idle" /\ <<>> \in Bla!Seq(Entries)
    BY <2>1 DEF Bla!IInv
  <2> QED
    BY <2>1, <2>2 DEF Bla!IInv
<1>7. ASSUME NEW a \in Addresses, Bla!Flip(a) PROVE Bla!IInv'
  <2>1. /\ list' = [b \in DOMAIN list \cup {a} |-> IF b = a THEN ~Bla!Active(list, a) ELSE list[b]]
        /\ import' = IF import.pc = "idle" THEN Bla!NoImport
                     ELSE [import EXCEPT !.touched = @ \cup {a}]
        /\ form' = form
    BY <1>7 DEF Bla!Flip
  <2>2. Bla!Active(list, a) \in BOOLEAN
    BY DEF Bla!Active, Bla!IInv
  <2>3. \A b \in DOMAIN list' : list'[b] \in BOOLEAN
    <3> SUFFICES ASSUME NEW b \in DOMAIN list' PROVE list'[b] \in BOOLEAN
      OBVIOUS
    <3>1. CASE b = a
      BY <2>1, <2>2, <3>1
    <3>2. CASE b # a
      BY <2>1, <3>2 DEF Bla!IInv
    <3> QED
      BY <3>1, <3>2
  <2>4. \A b \in Addresses \ {a} : Bla!Active(list', b) <=> Bla!Active(list, b)
    <3> SUFFICES ASSUME NEW b \in Addresses \ {a} PROVE Bla!Active(list', b) <=> Bla!Active(list, b)
      OBVIOUS
    <3>1. (b \in DOMAIN list' <=> b \in DOMAIN list) /\ (b \in DOMAIN list => list'[b] = list[b])
      BY <2>1
    <3> QED
      BY <3>1 DEF Bla!Active
  <2>5. CASE import.pc = "idle"
    <3>1. import'.pc = "idle"
      BY <2>1, <2>5 DEF Bla!NoImport
    <3> QED
      BY <2>1, <2>3, <3>1 DEF Bla!IInv
  <2>6. CASE import.pc = "running"
    <3>1. DOMAIN import = {"pc", "seen", "touched"} /\ import' = [import EXCEPT !.touched = @ \cup {a}]
      BY <2>1, <2>6 DEF Bla!IInv
    <3>2. /\ import'.pc = "running" /\ import'.seen = import.seen
          /\ import'.touched = import.touched \cup {a}
          /\ DOMAIN import' = {"pc", "seen", "touched"}
      BY <2>6, <3>1
    <3>3. \A b \in Addresses \ import'.touched : Bla!Active(list', b) = Bla!Active(import'.seen, b)
      <4> SUFFICES ASSUME NEW b \in Addresses \ import'.touched
                   PROVE  Bla!Active(list', b) <=> Bla!Active(import'.seen, b)
        BY DEF Bla!Active
      <4>1. b \in Addresses \ {a} /\ b \in Addresses \ import.touched
        BY <3>2
      <4>2. Bla!Active(list, b) <=> Bla!Active(import.seen, b)
        BY <2>6, <4>1 DEF Bla!IInv
      <4> QED
        BY <2>4, <3>2, <4>1, <4>2
    <3>4. form'.state = "draft" /\ form'.tokens \in Bla!Seq(Entries)
      BY <2>1, <2>6 DEF Bla!IInv
    <3>5. \A b \in DOMAIN import'.seen : import'.seen[b] \in BOOLEAN
      BY <2>6, <3>2 DEF Bla!IInv
    <3> QED
      BY <2>3, <3>2, <3>3, <3>4, <3>5 DEF Bla!IInv
  <2> QED
    BY <2>5, <2>6 DEF Bla!IInv
<1> QED
  BY <1>1, <1>2, <1>3, <1>4, <1>5, <1>6, <1>7, <1>8 DEF Bla!Next

\* The report of an import counts every entry within the limit once, and what is asked for
\* is done unless it is told or somebody else changed it.
LEMMA ImportsTell == ASSUME Bla!Proper, Bla!IInv PROVE Bla!ImportTells
<1> DEFINE list == s1  form == s2  import == s3  Entries == Blacklist.Entries
           Addresses == Blacklist.Addresses  Invalid == Blacklist.Invalid
           Normal == Blacklist.Normal
<1> SUFFICES ASSUME Bla!ImportCommit
             PROVE  LET kept == Bla!Kept(form.tokens)
                        asked == {Normal[kept[i]] : i \in DOMAIN kept} \ {Invalid}
                        bad == {Normal[form'.invalid[i]] : i \in DOMAIN form'.invalid}
                        changed == {a \in DOMAIN list' : Bla!Active(list, a) # list'[a]}
                    IN  /\ DOMAIN list \subseteq DOMAIN list' /\ changed \subseteq asked
                        /\ form'.written = Bla!Cardinality(changed)
                        /\ form'.written + form'.same + form'.duplicates + Bla!Len(form'.invalid) = Bla!Len(kept)
                        /\ \A a \in asked \ (bad \cup import.touched) :
                             Bla!Active(list', a) = (form.mode = "add")
  BY DEF Bla!ImportTells
<1> DEFINE kept == Bla!Kept(form.tokens)
           seen == import.seen
           asked == {Normal[kept[i]] : i \in DOMAIN kept} \ {Invalid}
           changed == {a \in DOMAIN list' : Bla!Active(list, a) # list'[a]}
           emails == Bla!Emails(kept)
           rejected == Bla!Rejected(kept)
           wanted == Bla!ToWrite(seen)
           failed == {i \in wanted : Bla!Address(i) \in import.touched}
           written == wanted \ failed
           rows == {Bla!Address(i) : i \in written}
           bad == rejected \cup failed
<1>1. /\ DOMAIN list' = DOMAIN list \cup rows
      /\ \A a \in DOMAIN list' : list'[a] = IF a \in rows THEN form.mode = "add" ELSE list[a]
      /\ form'.written = Bla!Cardinality(written)
      /\ form'.same = Bla!Cardinality(emails \ wanted)
      /\ form'.duplicates = Bla!Len(kept) - Bla!Cardinality(emails \cup rejected)
      /\ Bla!Len(form'.invalid) = Bla!Cardinality(bad)
  BY CommitWrites
<1>2. /\ kept \in Bla!Seq(Entries) /\ Bla!Len(kept) \in Nat /\ Bla!IsFiniteSet(DOMAIN kept)
      /\ Bla!Cardinality(DOMAIN kept) = Bla!Len(kept)
  BY KeptIsSequence DEF Bla!IInv
<1>3. /\ \A i : Bla!Address(i) = Normal[kept[i]]
      /\ wanted = {i \in emails : Bla!Active(seen, Normal[kept[i]]) # (form.mode = "add")}
  BY DEF Bla!Address, Bla!ToWrite, Bla!Wanted
<1> HIDE DEF kept
<1>4. /\ emails \subseteq DOMAIN kept /\ rejected \subseteq DOMAIN kept /\ emails \cap rejected = {}
      /\ \A i \in emails : Normal[kept[i]] \in Addresses
      /\ \A i, j \in emails : Normal[kept[i]] = Normal[kept[j]] => i = j
      /\ \A i \in DOMAIN kept : Normal[kept[i]] # Invalid =>
           \E j \in emails : Normal[kept[j]] = Normal[kept[i]]
  BY <1>2, EmailsAreFirst
<1>5. /\ \A a \in Addresses \ import.touched : Bla!Active(list, a) <=> Bla!Active(seen, a)
      /\ \A a \in DOMAIN list : list[a] \in BOOLEAN
  BY DEF Bla!ImportCommit, Bla!IInv
<1>6. wanted \subseteq emails /\ failed \subseteq wanted /\ written \subseteq wanted
  BY <1>3
<1> HIDE DEF emails, rejected, wanted
<1>7. ASSUME NEW i \in written
      PROVE  /\ Bla!Address(i) \in Addresses \ import.touched /\ Bla!Address(i) = Normal[kept[i]]
             /\ Bla!Active(list, Bla!Address(i)) # (form.mode = "add")
  <2>1. i \in wanted /\ Bla!Address(i) \notin import.touched /\ i \in emails
    BY <1>6
  <2>2. Bla!Address(i) = Normal[kept[i]] /\ Bla!Address(i) \in Addresses
    BY <1>3, <1>4, <2>1
  <2>3. Bla!Active(seen, Bla!Address(i)) # (form.mode = "add")
    BY <1>3, <2>1, <2>2
  <2>4. Bla!Active(list, Bla!Address(i)) \in BOOLEAN /\ Bla!Active(seen, Bla!Address(i)) \in BOOLEAN
    BY <1>5, <2>1, <2>2 DEF Bla!Active, Bla!IInv, Bla!ImportCommit
  <2> HIDE DEF seen
  <2>5. Bla!Active(list, Bla!Address(i)) <=> Bla!Active(seen, Bla!Address(i))
    BY <1>5, <2>1, <2>2
  <2> QED
    BY <2>1, <2>2, <2>3, <2>4, <2>5
<1> HIDE DEF written, failed
<1>8. changed = rows
  <2>1. ASSUME NEW a \in rows PROVE a \in changed
    <3>1. PICK i \in written : a = Bla!Address(i)
      BY <2>1
    <3>2. a \in DOMAIN list' /\ list'[a] = (form.mode = "add")
      BY <1>1, <2>1
    <3> QED
      BY <1>7, <3>1, <3>2
  <2>2. ASSUME NEW a \in DOMAIN list' \ rows PROVE a \notin changed
    <3>1. a \in DOMAIN list /\ list'[a] = list[a] /\ list[a] \in BOOLEAN
      BY <1>1, <1>5, <2>2
    <3>2. Bla!Active(list, a) = list[a]
      BY <3>1 DEF Bla!Active
    <3> QED
      BY <3>1, <3>2
  <2>3. rows \subseteq DOMAIN list'
    BY <1>1
  <2> HIDE DEF rows
  <2> QED
    BY <2>1, <2>2, <2>3
<1>9. rows \subseteq asked
  <2> SUFFICES ASSUME NEW i \in written PROVE Bla!Address(i) \in asked
    OBVIOUS
  <2>1. i \in emails /\ Bla!Address(i) = Normal[kept[i]]
    BY <1>6, <1>7
  <2>2. i \in DOMAIN kept /\ Normal[kept[i]] # Invalid
    BY <1>4, <2>1 DEF emails, Bla!Emails
  <2> QED
    BY <2>1, <2>2
<1>10. /\ Bla!IsFiniteSet(emails) /\ Bla!IsFiniteSet(rejected) /\ Bla!IsFiniteSet(wanted)
       /\ Bla!IsFiniteSet(failed) /\ Bla!IsFiniteSet(written)
  <2>1. wanted \subseteq DOMAIN kept /\ failed \subseteq DOMAIN kept /\ written \subseteq DOMAIN kept
    BY <1>4, <1>6
  <2> QED
    BY <1>2, <1>4, <2>1, FS_Subset, ImportsCounted
<1>11. Bla!Cardinality(rows) = Bla!Cardinality(written)
  <2> DEFINE f == [i \in written |-> Bla!Address(i)]
  <2>1. f \in Surjection(written, rows)
    BY DEF Surjection
  <2>2. \A i \in written, j \in written : f[i] = f[j] => i = j
    BY <1>4, <1>6, <1>7
  <2>3. f \in Injection(written, rows)
    BY <2>1, <2>2 DEF Injection, IsInjective, Surjection
  <2> HIDE DEF f, rows
  <2> QED
    BY <1>10, <2>1, <2>3, FS_Surjection, ImportsCounted
<1>12. Bla!Cardinality(written) + Bla!Cardinality(emails \ wanted)
         + (Bla!Len(kept) - Bla!Cardinality(emails \cup rejected)) + Bla!Cardinality(bad) = Bla!Len(kept)
  <2>1. wanted \cap failed = failed /\ wanted \ failed = written /\ emails \cap wanted = wanted
    BY <1>6 DEF written
  <2>2. /\ Bla!Cardinality(wanted \cap failed) \in Nat /\ Bla!Cardinality(wanted \ failed) \in Nat
        /\ Bla!Cardinality(wanted) = Bla!Cardinality(wanted \cap failed) + Bla!Cardinality(wanted \ failed)
    BY <1>10, PartsCount, ImportsCounted
  <2>3. /\ Bla!Cardinality(emails \ wanted) \in Nat
        /\ Bla!Cardinality(emails) = Bla!Cardinality(emails \cap wanted) + Bla!Cardinality(emails \ wanted)
    BY <1>10, PartsCount, ImportsCounted
  <2>4. Bla!Cardinality(rejected) \in Nat /\ Bla!Cardinality({}) = 0
    BY <1>10, FS_CardinalityType, FS_EmptySet, ImportsCounted
  <2>5. Bla!Cardinality(emails \cup rejected) = Bla!Cardinality(emails) + Bla!Cardinality(rejected)
    <3>1. /\ Bla!Cardinality(emails \cup rejected)
               = Bla!Cardinality(emails) + Bla!Cardinality(rejected) - Bla!Cardinality(emails \cap rejected)
      BY <1>10, FS_Union, ImportsCounted
    <3>2. Bla!Cardinality(emails \cap rejected) = 0 /\ Bla!Cardinality(emails) \in Nat
      BY <1>4, <1>10, <2>4, FS_CardinalityType, ImportsCounted
    <3> QED
      BY <2>4, <3>1, <3>2
  <2>6. Bla!Cardinality(bad) = Bla!Cardinality(rejected) + Bla!Cardinality(failed)
    <3>1. rejected \cap failed = {}
      BY <1>4, <1>6
    <3>2. Bla!Cardinality(rejected \cup failed)
            = Bla!Cardinality(rejected) + Bla!Cardinality(failed) - Bla!Cardinality(rejected \cap failed)
      BY <1>10, FS_Union, ImportsCounted
    <3>3. Bla!Cardinality(rejected \cap failed) = 0 /\ Bla!Cardinality(failed) \in Nat
      BY <1>10, <2>4, <3>1, FS_CardinalityType, ImportsCounted
    <3> QED
      BY <2>4, <3>2, <3>3
  <2>7. /\ Bla!Cardinality(wanted) = Bla!Cardinality(failed) + Bla!Cardinality(written)
        /\ Bla!Cardinality(emails) = Bla!Cardinality(wanted) + Bla!Cardinality(emails \ wanted)
        /\ Bla!Cardinality(failed) \in Nat /\ Bla!Cardinality(written) \in Nat
    BY <2>1, <2>2, <2>3
  <2> DEFINE w == Bla!Cardinality(written)
             same == Bla!Cardinality(emails \ wanted)
             r == Bla!Cardinality(rejected)
             f == Bla!Cardinality(failed)
             both == Bla!Cardinality(emails \cup rejected)
             rejects == Bla!Cardinality(bad)
             n == Bla!Len(kept)
  <2>8. /\ w \in Nat /\ same \in Nat /\ r \in Nat /\ f \in Nat /\ n \in Nat
        /\ both = f + w + same + r /\ rejects = r + f
    BY <1>2, <2>3, <2>4, <2>5, <2>6, <2>7
  <2> HIDE DEF w, same, r, f, both, rejects, n
  <2>9. w + same + (n - both) + rejects = n
    BY <2>8
  <2> QED
    BY <2>9 DEF w, same, r, f, both, rejects, n
<1>13. ASSUME NEW a \in asked, a \notin import.touched
       PROVE  Bla!Active(list', a) = (form.mode = "add")
  <2>1. PICK i \in emails : Normal[kept[i]] = a
    BY <1>4
  <2>2. a \in Addresses /\ Bla!Address(i) = a
    BY <1>3, <1>4, <2>1
  <2>3. CASE a \in rows
    BY <1>1, <2>3 DEF Bla!Active
  <2>4. CASE a \notin rows
    <3>1. i \notin written
      BY <2>2, <2>4
    <3>2. i \notin wanted
      BY <1>13, <2>2, <3>1 DEF written, failed
    <3>3. Bla!Active(seen, a) = (form.mode = "add")
      BY <1>3, <2>1, <3>2
    <3>4. Bla!Active(list, a) = (form.mode = "add")
      <4>1. Bla!Active(list, a) \in BOOLEAN
        BY <1>5 DEF Bla!Active
      <4> HIDE DEF seen
      <4>2. Bla!Active(list, a) <=> Bla!Active(seen, a)
        BY <1>5, <1>13, <2>2
      <4> QED
        BY <3>3, <4>1, <4>2
    <3>5. (a \in DOMAIN list' <=> a \in DOMAIN list) /\ (a \in DOMAIN list => list'[a] = list[a])
      BY <1>1, <2>4
    <3> QED
      BY <3>4, <3>5 DEF Bla!Active
  <2> QED
    BY <2>3, <2>4
<1> QED
  BY <1>1, <1>8, <1>9, <1>11, <1>12, <1>13 DEF kept
-----------------------------------------------------------------------------
(* What a wizard reports *)

\* Whatever runs beside it, the report of a mass update counts what became of each record
\* it was asked for, and the report of an import what became of each entry: what counts as
\* written is what changed, and what is asked for is done unless it is told or somebody
\* else changed it (action_apply, action_import).
THEOREM ReportsTell == Spec => ReportTells
<1> DEFINE Inv == /\ part = "fields" => Upd!IInv
                  /\ part = "blacklist" => Bla!IInv
<1>1. Init => Inv
  BY AddOnsAssumption, UpdatesBegin, ImportsBegin DEF Init
<1>2. Inv /\ [Next]_vars => Inv'
  <2> SUFFICES ASSUME Inv, [Next]_vars PROVE Inv'
    OBVIOUS
  <2>1. ASSUME part' = "fields" PROVE Upd!IInv'
    <3>1. part = "fields" /\ [Upd!Next]_(Upd!vars)
      BY <2>1, PartStays DEF Next, vars, Upd!vars
    <3> QED
      BY <3>1, AddOnsAssumption, UpdatesStep
  <2>2. ASSUME part' = "blacklist" PROVE Bla!IInv'
    <3>1. part = "blacklist" /\ [Bla!Next]_(Bla!vars)
      BY <2>2, PartStays DEF Next, vars, Bla!vars
    <3> QED
      BY <3>1, AddOnsAssumption, ImportsStep
  <2> QED
    BY <2>1, <2>2
<1>3. Inv => /\ part = "fields" => Upd!ReportTells
             /\ part = "blacklist" => Bla!ImportTells
  BY AddOnsAssumption, UpdatesTell, ImportsTell
<1>4. Inv /\ [Next]_vars =>
        [/\ part = "fields" => Upd!ReportTells
         /\ part = "blacklist" => Bla!ImportTells]_vars
  BY <1>3
<1> QED
  BY <1>1, <1>2, <1>4, PTL DEF Spec, ReportTells

-----------------------------------------------------------------------------
(* RuleTester: who is to blame, and what the counts say.                   *)

LEMMA RuleCounted ==
  /\ \A S : Rul!Cardinality(S) = Cardinality(S)
  /\ \A S : Rul!IsFiniteSet(S) <=> IsFiniteSet(S)
<1>1. \A S : Rul!Cardinality(S) = Cardinality(S)
  BY DEF Rul!Cardinality, Rul!IsFiniteSet, Cardinality, IsFiniteSet
<1>2. \A S : Rul!IsFiniteSet(S) <=> IsFiniteSet(S)
  BY DEF Rul!IsFiniteSet, IsFiniteSet
<1> QED
  BY <1>1, <1>2

LEMMA TestsBegin == ASSUME Rul!Init PROVE Rul!IInv
BY DEF Rul!Init, Rul!IInv

LEMMA TestsStep == ASSUME Rul!IInv, [Rul!Next]_(Rul!vars) PROVE Rul!IInv'
<1> DEFINE rows == s1  form == s5  Records == RuleTests.Records
<1>1. CASE UNCHANGED Rul!vars \/ Rul!RunRaises
  BY <1>1 DEF Rul!IInv, Rul!RunRaises, Rul!vars
<1>2. CASE Rul!Run
  BY <1>2 DEF Rul!IInv, Rul!Run
<1>3. CASE Rul!Fill
  BY <1>3 DEF Rul!IInv, Rul!Fill
<1>4. CASE Rul!Edit
  <2>1. form' = form
    BY <1>4 DEF Rul!Edit
  <2>2. rows' \subseteq Records
    BY <1>4 DEF Rul!IInv, Rul!Edit, Rul!EditRow, Rul!EditRule, Rul!EditUser
  <2> QED
    BY <2>1, <2>2 DEF Rul!IInv
<1> QED
  BY <1>1, <1>2, <1>3, <1>4 DEF Rul!Next

\* Only a run changes the screen, to what it works out.
LEMMA RunsShow == ASSUME [Rul!Next]_(Rul!vars), s6' # s6 PROVE s6' = Rul!Results
BY DEF Rul!Next, Rul!vars, Rul!Run, Rul!RunRaises, Rul!Fill, Rul!Edit

\* A verdict says what it means.
LEMMA VerdictsMean ==
  ASSUME Rul!Proper, Rul!IInv
  PROVE  /\ Rul!Verdict = "missing" => s5.record \notin s1
         /\ Rul!Verdict = "denied" => /\ s5.record \in s1
                                  /\ s5.record \notin Rul!Found(s5.user)
<1> DEFINE rows == s1  acl == s4  form == s5
<1>1. 0 \notin rows /\ Rul!Found(form.user) \subseteq rows
  BY DEF Rul!Proper, Rul!IInv, Rul!Found
<1>2. CASE form.record = 0
  <2>1. Rul!Verdict = "not_tested"
    BY <1>1, <1>2 DEF Rul!Verdict
  <2> QED
    BY <2>1
<1>3. CASE form.record # 0 /\ form.record \notin rows
  <2>1. Rul!Verdict = "missing"
    BY <1>1, <1>3 DEF Rul!Verdict
  <2> QED
    BY <1>3, <2>1
<1>4. CASE form.record \in rows /\ "read" \notin acl[form.user]
  <2>1. Rul!Verdict = "no_access"
    BY <1>1, <1>4 DEF Rul!Verdict
  <2> QED
    BY <2>1
<1>5. CASE form.record \in Rul!Found(form.user) /\ "read" \in acl[form.user]
  <2>1. Rul!Verdict = "allowed"
    BY <1>1, <1>5 DEF Rul!Verdict
  <2> QED
    BY <2>1
<1>6. CASE form.record \in rows /\ form.record \notin Rul!Found(form.user) /\ "read" \in acl[form.user]
  <2>1. Rul!Verdict = "denied"
    BY <1>1, <1>6 DEF Rul!Verdict
  <2> QED
    BY <1>6, <2>1
<1> QED
  BY <1>2, <1>3, <1>4, <1>5, <1>6

LEMMA FoundIsWithoutNone ==
  ASSUME NEW u, NEW x
  PROVE  Rul!FoundWithout(u, x, {}) <=> x \in Rul!Found(u)
<1> DEFINE rows == s1  rule == s2  Outside == RuleTests.Outside
<1> DEFINE rs == Rul!Applied(u, "read")
           others == rs \ Rul!Globals(rs)
<1>1. rs = Rul!Globals(rs) <=> others = {}
  BY DEF Rul!Globals
<1>2. x \in Rul!Found(u) <=> x \in rows \ Outside /\ Rul!Satisfies(x, rs)
  BY DEF Rul!Found
<1> HIDE DEF rs
<1>3. Rul!Satisfies(x, rs) <=>
        /\ \A r \in Rul!Globals(rs) : x \in rule[r].matches
        /\ others = {} \/ \E r \in others : x \in rule[r].matches
  BY <1>1 DEF Rul!Satisfies
<1>4. Rul!FoundWithout(u, x, {}) <=>
        /\ x \in rows \ Outside
        /\ \A r \in Rul!Globals(rs) : x \in rule[r].matches
        /\ others = {} \/ \E r \in others : x \in rule[r].matches
  BY DEF Rul!FoundWithout, rs
<1> QED
  BY <1>2, <1>3, <1>4

\* The rules that fail are to blame, each global one of them by itself.
LEMMA FailingAreToBlame ==
  ASSUME NEW u, NEW x \in s1 \ RuleTests.Outside, x \notin Rul!Found(u)
  PROVE  /\ Rul!Failing(u, x) # {}
         /\ Rul!FoundWithout(u, x, Rul!Failing(u, x))
         /\ \A r \in Rul!Globals(Rul!Failing(u, x)) : ~Rul!FoundWithout(u, x, Rul!Failing(u, x) \ {r})
<1> DEFINE rule == s2
<1> DEFINE rs == Rul!Applied(u, "read")
           others == rs \ Rul!Globals(rs)
           blamed == Rul!Failing(u, x)
<1>1. \A r : r \in blamed <=>
        \/ r \in Rul!Globals(rs) /\ x \notin rule[r].matches
        \/ r \in others /\ \A s \in others : x \notin rule[s].matches
  BY DEF Rul!Failing
<1>2. \A bs : Rul!FoundWithout(u, x, bs) <=>
        /\ \A r \in Rul!Globals(rs) \ bs : x \in rule[r].matches
        /\ others = {} \/ \E r \in others : x \in rule[r].matches \/ r \in bs
  BY DEF Rul!FoundWithout
<1>3. \/ \E r \in Rul!Globals(rs) : x \notin rule[r].matches
      \/ others # {} /\ \A r \in others : x \notin rule[r].matches
  <2>1. ~Rul!FoundWithout(u, x, {})
    BY FoundIsWithoutNone
  <2> HIDE DEF rs, blamed
  <2> QED
    BY <1>2, <2>1
<1> HIDE DEF blamed
<1>4. blamed # {}
  BY <1>1, <1>3
<1>5. Rul!FoundWithout(u, x, blamed)
  <2>1. \A r \in Rul!Globals(rs) \ blamed : x \in rule[r].matches
    BY <1>1
  <2>2. others = {} \/ \E r \in others : x \in rule[r].matches \/ r \in blamed
    BY <1>1
  <2> QED
    BY <1>2, <2>1, <2>2
<1>6. ASSUME NEW r \in Rul!Globals(blamed) PROVE ~Rul!FoundWithout(u, x, blamed \ {r})
  <2>1. r \in blamed /\ rule[r].groups = {}
    BY DEF Rul!Globals
  <2>2. r \notin others
    BY <2>1 DEF Rul!Globals
  <2>3. r \in Rul!Globals(rs) /\ x \notin rule[r].matches
    BY <1>1, <2>1, <2>2
  <2> HIDE DEF rs
  <2> QED
    BY <1>2, <2>3
<1> QED
  BY <1>4, <1>5, <1>6 DEF blamed

\* What is ticked are the rules that fail.
LEMMA TickedAreFailing ==
  ASSUME Rul!Proper, Rul!Verdict = "denied"
  PROVE  {l.rule : l \in {k \in Rul!Lines : k.hides}} = Rul!Failing(s5.user, s5.record)
<1> DEFINE rule == s2  form == s5  Ops == RuleTests.Ops
<1> DEFINE shown == UNION {Rul!Applied(form.user, op) : op \in Ops}
           ticked == {l.rule : l \in {k \in Rul!Lines : k.hides}}
<1>1. Rul!Hiding = Rul!Failing(form.user, form.record)
  BY DEF Rul!Hiding
<1>2. Rul!Failing(form.user, form.record) \subseteq shown
  <2>1. Rul!Failing(form.user, form.record) \subseteq Rul!Applied(form.user, "read")
    BY DEF Rul!Failing, Rul!Globals
  <2> QED
    BY <2>1 DEF Rul!Proper
<1> HIDE DEF shown
<1>3. Rul!Lines = {[rule |-> r, global |-> rule[r].groups = {}, hides |-> r \in Rul!Hiding] : r \in shown}
  BY DEF Rul!Lines, shown
<1>4. ASSUME NEW r \in shown, r \in Rul!Hiding PROVE r \in ticked
  <2> DEFINE line == [rule |-> r, global |-> rule[r].groups = {}, hides |-> r \in Rul!Hiding]
  <2>1. line \in Rul!Lines
    BY <1>3
  <2>2. line.rule = r /\ line.hides
    BY <1>4
  <2> HIDE DEF line
  <2> QED
    BY <2>1, <2>2
<1>5. ASSUME NEW r \in ticked PROVE r \in shown /\ r \in Rul!Hiding
  <2>1. PICK line \in Rul!Lines : line.hides /\ line.rule = r
    OBVIOUS
  <2>2. PICK s \in shown :
          line = [rule |-> s, global |-> rule[s].groups = {}, hides |-> s \in Rul!Hiding]
    BY <1>3, <2>1
  <2>3. line.rule = s /\ (line.hides <=> s \in Rul!Hiding)
    BY <2>2
  <2> QED
    BY <2>1, <2>3
<1> QED
  BY <1>1, <1>2, <1>4, <1>5

LEMMA BlameFollows == ASSUME Rul!Proper, Rul!IInv, [Rul!Next]_(Rul!vars) PROVE Rul!BlameIsExact
<1> DEFINE rows == s1  form == s5  screen == s6  Outside == RuleTests.Outside
<1> SUFFICES ASSUME screen' # screen, screen'.verdict \in {"missing", "denied"}
             PROVE  LET x == form.record
                        ticked == {l.rule : l \in {k \in screen'.lines : k.hides}}
                    IN  /\ screen'.verdict = "missing" <=> x \notin rows
                        /\ x \in rows => ~Rul!FoundWithout(form.user, x, {})
                        /\ x \in rows \ Outside =>
                             /\ ticked # {}
                             /\ Rul!FoundWithout(form.user, x, ticked)
                             /\ \A r \in Rul!Globals(ticked) : ~Rul!FoundWithout(form.user, x, ticked \ {r})
  BY DEF Rul!BlameIsExact
<1> DEFINE x == form.record
           ticked == {l.rule : l \in {k \in screen'.lines : k.hides}}
<1>1. screen' = Rul!Results
  BY RunsShow
<1>2. screen'.verdict = Rul!Verdict /\ screen'.lines = Rul!Lines
  BY <1>1 DEF Rul!Results
<1>3. CASE Rul!Verdict = "missing"
  <2>1. x \notin rows
    BY <1>3, VerdictsMean
  <2> QED
    BY <1>2, <1>3, <2>1
<1>4. CASE Rul!Verdict = "denied"
  <2>1. x \in rows /\ x \notin Rul!Found(form.user)
    BY <1>4, VerdictsMean
  <2>2. ~Rul!FoundWithout(form.user, x, {})
    BY <2>1, FoundIsWithoutNone
  <2>3. ticked = Rul!Failing(form.user, x)
    BY <1>2, <1>4, TickedAreFailing
  <2>4. x \in rows \ Outside =>
          /\ Rul!Failing(form.user, x) # {}
          /\ Rul!FoundWithout(form.user, x, Rul!Failing(form.user, x))
          /\ \A r \in Rul!Globals(Rul!Failing(form.user, x)) :
               ~Rul!FoundWithout(form.user, x, Rul!Failing(form.user, x) \ {r})
    BY <2>1, FailingAreToBlame
  <2> HIDE DEF ticked, x
  <2>5. x \in rows \ Outside =>
          /\ ticked # {}
          /\ Rul!FoundWithout(form.user, x, ticked)
          /\ \A r \in Rul!Globals(ticked) : ~Rul!FoundWithout(form.user, x, ticked \ {r})
    BY <2>3, <2>4
  <2>6. screen'.verdict = "missing" <=> x \notin rows
    BY <1>2, <1>4, <2>1
  <2> QED
    BY <2>1, <2>2, <2>5, <2>6 DEF ticked, x
<1> QED
  BY <1>2, <1>3, <1>4

LEMMA CountsFollow == ASSUME Rul!Proper, Rul!IInv, [Rul!Next]_(Rul!vars) PROVE Rul!CountsTell
<1> DEFINE form == s5  screen == s6  Records == RuleTests.Records  Ops == RuleTests.Ops
<1> SUFFICES ASSUME screen' # screen, NEW op \in Ops
             PROVE  LET result == screen'.ops[op]
                    IN  /\ result.countable /\ ~result.capped =>
                             result.count = Rul!Cardinality(Rul!Performed(op))
                        /\ result.countable /\ screen'.ops["read"].countable =>
                             result.count <= screen'.ops["read"].count
                        /\ result.capped => Rul!Cardinality(Rul!Performed(op)) >= form.cap
  BY DEF Rul!CountsTell
<1> DEFINE size(o) == Rul!Cardinality(Rul!Performed(o))
           cap == form.cap
<1>1. screen' = Rul!Results
  BY RunsShow
<1>2. screen'.ops[op] = Rul!Evaluated(op) /\ screen'.ops["read"] = Rul!Evaluated("read")
  BY <1>1 DEF Rul!Results, Rul!Proper
<1>3. Rul!IsFiniteSet(Rul!Performed(op)) /\ Rul!IsFiniteSet(Rul!Performed("read"))
  <2>1. Rul!Performed(op) \subseteq Records /\ Rul!Performed("read") \subseteq Records
    BY DEF Rul!Performed, Rul!Found, Rul!IInv
  <2> QED
    BY <2>1, FS_Subset, RuleCounted DEF Rul!Proper
<1>4. size(op) \in Nat /\ size("read") \in Nat /\ cap \in Int
  BY <1>3, FS_CardinalityType, RuleCounted DEF Rul!Proper, Rul!IInv
<1>5. size(op) <= size("read")
  <2>1. Rul!Performed(op) \subseteq Rul!Performed("read")
    BY DEF Rul!Performed, Rul!Found
  <2> QED
    BY <1>3, <2>1, FS_Subset, RuleCounted
<1>6. ASSUME NEW o
      PROVE  /\ Rul!Evaluated(o).countable =>
                  /\ Rul!Evaluated(o).count = Rul!Count(Rul!Performed(o))
                  /\ Rul!Evaluated(o).capped <=> Rul!Capped(Rul!Count(Rul!Performed(o)))
             /\ Rul!Evaluated(o).capped => Rul!Evaluated(o).countable
  <2>1. Rul!Uncounted(o).countable = FALSE /\ Rul!Uncounted(o).capped = FALSE
    BY DEF Rul!Uncounted
  <2> DEFINE counted == [Rul!Uncounted(o) EXCEPT !.countable = TRUE, !.count = Rul!Count(Rul!Performed(o)),
                                             !.capped = Rul!Capped(Rul!Count(Rul!Performed(o)))]
  <2>2. /\ counted.countable = TRUE /\ counted.count = Rul!Count(Rul!Performed(o))
        /\ counted.capped = Rul!Capped(Rul!Count(Rul!Performed(o)))
    BY DEF Rul!Uncounted
  <2>3. Rul!Evaluated(o) = Rul!Uncounted(o) \/ Rul!Evaluated(o) = counted
    BY DEF Rul!Evaluated
  <2> HIDE DEF counted
  <2> QED
    BY <2>1, <2>2, <2>3
<1>7. /\ Rul!Count(Rul!Performed(op)) = IF size(op) > cap THEN cap ELSE size(op)
      /\ Rul!Count(Rul!Performed("read")) = IF size("read") > cap THEN cap ELSE size("read")
  BY DEF Rul!Count
<1>8. Rul!Capped(Rul!Count(Rul!Performed(op))) <=> Rul!Count(Rul!Performed(op)) >= cap
  BY DEF Rul!Capped
<1> HIDE DEF size, cap
<1>9. Rul!Evaluated(op).countable /\ ~Rul!Evaluated(op).capped => Rul!Evaluated(op).count = size(op)
  BY <1>4, <1>6, <1>7, <1>8
<1>10. Rul!Evaluated(op).countable /\ Rul!Evaluated("read").countable =>
         Rul!Evaluated(op).count <= Rul!Evaluated("read").count
  BY <1>4, <1>5, <1>6, <1>7
<1>11. Rul!Evaluated(op).capped => size(op) >= cap
  BY <1>4, <1>6, <1>7, <1>8
<1> QED
  BY <1>2, <1>9, <1>10, <1>11 DEF size, cap
-----------------------------------------------------------------------------
(* What a screen says *)

\* However requests and workers interleave, what a preview says of a menu is why it is
\* drawn or hidden and what is answered is what Odoo draws, the rules that are blamed are
\* those without which the record would be found and the counts are of the records, and a
\* form can be saved with the fields it leaves to its user (_explain,
\* _mav_build_explanation, _evaluate_record, _evaluate_operation, fields_view_get).
THEOREM ScreensAreTrue == Spec => ScreensTell
<1> DEFINE Inv == InForce /\ (part = "rules" => Rul!IInv)
<1>1. Init => Inv
  BY InForceBegins, TestsBegin DEF Init
<1>2. Inv /\ [Next]_vars => Inv'
  <2> SUFFICES ASSUME Inv, [Next]_vars PROVE Inv'
    OBVIOUS
  <2>1. InForce'
    BY InForceStep
  <2>2. ASSUME part' = "rules" PROVE Rul!IInv'
    <3>1. part = "rules" /\ [Rul!Next]_(Rul!vars)
      BY <2>2, PartStays DEF Next, vars, Rul!vars
    <3> QED
      BY <3>1, TestsStep
  <2> QED
    BY <2>1, <2>2
<1>3. Inv /\ [Next]_vars =>
        /\ part = "menus" => Men!ReasonsTell /\ Men!AnswersAgree
        /\ part = "rules" => Rul!BlameIsExact /\ Rul!CountsTell
        /\ part = "restraints" => Fru!FormsSavable
  <2> SUFFICES ASSUME Inv, [Next]_vars
               PROVE  /\ part = "menus" => Men!ReasonsTell /\ Men!AnswersAgree
                      /\ part = "rules" => Rul!BlameIsExact /\ Rul!CountsTell
                      /\ part = "restraints" => Fru!FormsSavable
    OBVIOUS
  <2>1. ASSUME part = "menus" PROVE Men!ReasonsTell /\ Men!AnswersAgree
    <3>1. Men!Proper /\ Men!CachesSound
      BY <2>1, AddOnsAssumption DEF InForce
    <3>2. Men!ReasonsTell
      BY <3>1, Men!ReasonsFollow
    <3>3. Men!AnswersAgree
      BY <3>1, Men!AnswersFollow
    <3> QED
      BY <3>2, <3>3
  <2>2. ASSUME part = "rules" PROVE Rul!BlameIsExact /\ Rul!CountsTell
    <3>1. Rul!Proper /\ Rul!IInv /\ [Rul!Next]_(Rul!vars)
      BY <2>2, AddOnsAssumption DEF Next, vars, Rul!vars
    <3>2. Rul!BlameIsExact
      BY <3>1, BlameFollows
    <3>3. Rul!CountsTell
      BY <3>1, CountsFollow
    <3> QED
      BY <3>2, <3>3
  <2>3. ASSUME part = "restraints" PROVE Fru!FormsSavable
    BY <2>3, FormsFollow DEF InForce
  <2> QED
    BY <2>1, <2>2, <2>3
<1>4. Inv /\ [Next]_vars =>
        [/\ part = "menus" => Men!ReasonsTell /\ Men!AnswersAgree
         /\ part = "rules" => Rul!BlameIsExact /\ Rul!CountsTell
         /\ part = "restraints" => Fru!FormsSavable]_vars
  BY <1>3
<1> QED
  BY <1>1, <1>2, <1>4, PTL DEF Spec, ScreensTell

=============================================================================
