--------------------------- MODULE PasswordExpiry ---------------------------
(***************************************************************************)
(* password_expiry_policy: a user whose password is older than a period is *)
(* sent from every page of the client to the form that changes it.  Each   *)
(* way to a new password stamps the user with the time.                    *)
(*                                                                         *)
(* Which writes store a new password is the core's; changed remembers when *)
(* one was stored.                                                         *)
(***************************************************************************)
EXTENDS Integers, FiniteSets

CONSTANTS
  Users,
  Spared,      \* the superuser and the administrator
  Unstamped,   \* users that were loaded past the default of the stamp
  NoStamp,
  Periods,     \* what the parameter may hold, NoPeriod among it
  NoPeriod,    \* no number
  MinDays, MaxDays, DefaultDays,
  MaxTime, MaxEdits

VARIABLES
  user,      \* user -> internal, exempt, and password_write_date
  policy,    \* enabled, days: the parameters
  changed,   \* history: user -> when a new password was stored last, or the user was created
  page,      \* what the request that has just ended was given
  now, edits

vars == <<user, policy, changed, page, now, edits>>

NoPage == [to |-> "nobody"]

-----------------------------------------------------------------------------
(* The policy *)

Clamped(n) == IF n < MinDays THEN MinDays ELSE IF n > MaxDays THEN MaxDays ELSE n

PeriodAsStored == IF policy.days = NoPeriod THEN DefaultDays ELSE policy.days   \* mutant

\* _password_expiry_config, and _clamp_days of the settings
Period == Clamped(IF policy.days = NoPeriod THEN DefaultDays ELSE policy.days)

\* _password_expiry_is_exempt
Exempt(u) == u \in Spared \/ ~user[u].internal \/ user[u].exempt

\* _password_is_expired
Expired(u) ==
  /\ policy.enabled /\ ~Exempt(u)
  /\ user[u].stamp # NoStamp
  /\ now >= user[u].stamp + Period

-----------------------------------------------------------------------------
(* Pages *)

\* _password_expiry_guard, on the requests that ask for a page: GET and HTML
Page(u) ==
  /\ page' = [to |-> u, served |-> ~Expired(u)]
  /\ UNCHANGED <<user, policy, changed, now, edits>>

-----------------------------------------------------------------------------
(* Passwords *)

\* mutant: every write about a password is stamped
StampedAnyway(us, stored) == [u \in Users |-> IF u \in us THEN [user[u] EXCEPT !.stamp = now] ELSE user[u]]

\* _password_expiry_stamp, of the users whose password was stored
Stamped(us, stored) ==
  [u \in Users |-> IF u \in us /\ stored THEN [user[u] EXCEPT !.stamp = now] ELSE user[u]]

\* stored: whether a new password is; an empty one, a wrong current one and the
\* new_password of the form of a user are not
Write(us, stored) ==
  /\ user' = Stamped(us, stored)
  /\ changed' = [u \in Users |-> IF u \in us /\ stored THEN now ELSE changed[u]]
  /\ page' = NoPage
  /\ UNCHANGED <<policy, now>>

\* the page of the add-on, which anybody reaches: the two new passwords agree,
\* differ from the current one, and that is right
ChangeForm(u, agrees, differs, right) ==
  /\ Write({u}, agrees /\ differs /\ right)
  /\ UNCHANGED edits

\* change_password of the preferences: the new one may be the old one
ChangePassword(u, right) == Write({u}, right) /\ UNCHANGED edits

\* write of an administrator, the wizard and the link of a mail; field is the
\* one written, filled whether it holds anything
WritePassword(us, field, filled) ==
  /\ edits < MaxEdits /\ edits' = edits + 1
  /\ Write(us, field = "password" /\ filled)

-----------------------------------------------------------------------------
(* People and time *)

\* set_values, or an edit of the parameters
Configure(enabled, days, screen) ==
  /\ edits < MaxEdits /\ edits' = edits + 1
  /\ policy' = [enabled |-> enabled,
                days |-> IF screen /\ days # NoPeriod THEN Clamped(days) ELSE days]
  /\ page' = NoPage
  /\ UNCHANGED <<user, changed, now>>

\* the flag of a user, or the groups
Edit(u, internal, exempt) ==
  /\ edits < MaxEdits /\ edits' = edits + 1
  /\ user' = [user EXCEPT ![u] = [@ EXCEPT !.internal = internal, !.exempt = exempt]]
  /\ page' = NoPage
  /\ UNCHANGED <<policy, changed, now>>

Tick ==
  /\ now < MaxTime /\ now' = now + 1
  /\ page' = NoPage
  /\ UNCHANGED <<user, policy, changed, edits>>

Init ==
  /\ user = [u \in Users |-> [internal |-> TRUE, exempt |-> FALSE,
                              stamp |-> IF u \in Unstamped THEN NoStamp ELSE 0]]
  /\ policy \in [enabled : BOOLEAN, days : Periods]
  /\ changed = [u \in Users |-> 0]
  /\ page = NoPage
  /\ now = 0
  /\ edits = 0

Next ==
  \/ \E u \in Users : Page(u)
  \/ \E u \in Users, agrees, differs, right \in BOOLEAN : ChangeForm(u, agrees, differs, right)
  \/ \E u \in Users, right \in BOOLEAN : ChangePassword(u, right)
  \/ \E us \in (SUBSET Users) \ {{}}, field \in {"password", "new_password"}, filled \in BOOLEAN :
       WritePassword(us, field, filled)
  \/ \E enabled, screen \in BOOLEAN, days \in Periods : Configure(enabled, days, screen)
  \/ \E u \in Users, internal, exempt \in BOOLEAN : Edit(u, internal, exempt)
  \/ Tick

Spec == Init /\ [][Next]_vars

-----------------------------------------------------------------------------
(* Properties *)

Held(u) == u \notin Spared /\ user[u].internal /\ ~user[u].exempt

\* Under the policy a page is served to a user it holds for only while the
\* password itself is young enough, by whatever way it came, or its age was
\* never known; and nobody is sent away with a password that is younger than
\* the shortest period, whatever the parameter holds (_password_is_expired).
AgeIsOfPassword ==
  \A u \in Users : page'.to = u /\ Page(u) =>
    IF page'.served
      THEN policy.enabled /\ Held(u) /\ user[u].stamp # NoStamp =>
             now - changed[u] < MaxDays /\ (policy.days \in MinDays..MaxDays => now - changed[u] < policy.days)
      ELSE Held(u) /\ now - changed[u] >= MinDays

-----------------------------------------------------------------------------
(* The inductive invariant *)

\* what is asked of the parameters: a range of days, and values outside it for
\* what is not set
Proper ==
  /\ MinDays \in Nat /\ MaxDays \in Nat /\ DefaultDays \in Nat /\ MinDays <= MaxDays
  /\ Periods \subseteq Int \cup {NoPeriod}
  /\ NoPeriod \notin MinDays..MaxDays /\ NoStamp \notin Nat

\* a stamp is the time at which the password was stored
StampTells ==
  /\ now \in Nat /\ policy.days \in Int \cup {NoPeriod}
  /\ user \in [Users -> [internal : BOOLEAN, exempt : BOOLEAN, stamp : Nat \cup {NoStamp}]]
  /\ changed \in [Users -> Nat]
  /\ \A u \in Users : user[u].stamp # NoStamp => user[u].stamp = changed[u]
=============================================================================
