---------------------------- MODULE UserLifecycle ----------------------------
(***************************************************************************)
(* auto_deactivate_dormant_users and user_access_expiry, both installed:   *)
(* two nightly runs that archive users, and the overrides of write() that  *)
(* clear what the runs left on a user who is re-activated.                 *)
(*                                                                         *)
(* Each run is one transaction on the snapshot taken at its start.  It     *)
(* writes user after user, each in a savepoint, and its writes lock the    *)
(* row until it ends.  A row that somebody changed since the snapshot      *)
(* cannot be written: the error stays in the savepoint and the user is     *)
(* left out.  A login adds a row elsewhere and conflicts with nothing.     *)
(***************************************************************************)
EXTENDS Integers, FiniteSets

CONSTANTS
  Users,
  Admins,     \* Settings administrators and the superuser
  Portal,     \* share users
  Settings,   \* what the parameters of the two modules may hold
  Unset,      \* a parameter that is missing or no number
  DefaultDays,
  MinDays,    \* MIN_DAYS
  MaxSeen,    \* the age at which logins stop ageing
  Dates,      \* days until a date that may be set
  NoDate,     \* permanent access
  Zones,      \* how far the day of a writer is from that of the run: -1, 0, 1
  MaxEdits    \* bound on edits of users and settings

VARIABLES
  user,       \* [Users -> User]: the committed rows
  param,      \* the parameters of the two modules
  run,        \* [Kinds -> what the run is doing]
  edits       \* edits made so far

vars == <<user, param, run, edits>>

Kinds == {"dormancy", "expiry"}

ASSUME ConstantsAssumption ==
  /\ Admins \subseteq Users /\ Portal \subseteq Users
  /\ MinDays \in Nat \ {0} /\ MaxSeen \in Nat
  /\ Dates \subseteq Int /\ NoDate \notin Int /\ Zones \subseteq {-1, 0, 1}
  /\ \A p \in Settings :
       /\ p.days = Unset \/ (p.days \in Int /\ p.days < MaxSeen)
       /\ p.enabled \in BOOLEAN /\ p.notify \in [Kinds -> BOOLEAN]
       /\ p.include_never_logged \in BOOLEAN
  /\ Unset \notin Int /\ DefaultDays \in Int /\ DefaultDays < MaxSeen
  /\ MinDays < MaxSeen /\ MaxEdits \in Nat

\* seen: days since the last login, since the creation if there was none.
\* date: days until access_expiry_date.  The two dates of deactivation are set
\* and cleared with their flags.
User == [active : BOOLEAN, seen : 0..MaxSeen, logged : BOOLEAN, exempt : BOOLEAN,
         date : Int \cup {NoDate}, by_dormancy : BOOLEAN, by_expiry : BOOLEAN]

NewUser(seen, date) ==
  [active |-> TRUE, seen |-> seen, logged |-> FALSE, exempt |-> FALSE,
   date |-> date, by_dormancy |-> FALSE, by_expiry |-> FALSE]

-----------------------------------------------------------------------------
(* Who is to be archived *)

Period(p) == IF p.days = Unset THEN DefaultDays ELSE p.days

\* mutant: the period of the settings is taken as it is
DaysUnchecked(p) == Period(p)

Days(p) == IF Period(p) < MinDays THEN MinDays ELSE Period(p)

PassedFor(r, today) == r.date # NoDate /\ r.date <= today

Passed(u, today) == PassedFor(user[u], today)

\* mutant: Never Deactivate Automatically is not looked at
DormantExemptToo ==
  {u \in Users \ (Admins \cup Portal) :
     /\ user[u].active /\ user[u].seen > Days(param)
     /\ user[u].logged \/ param.include_never_logged}

Dormant ==
  {u \in Users \ (Admins \cup Portal) :
     /\ user[u].active /\ ~user[u].exempt
     /\ user[u].logged \/ param.include_never_logged
     /\ user[u].seen > Days(param)}

\* mutant: the archived users are not left out
ExpiredArchivedToo == {u \in Users \ Admins : Passed(u, 0)}

Expired == {u \in Users \ Admins : user[u].active /\ Passed(u, 0)}

Candidates(k) == IF k = "dormancy" THEN Dormant ELSE Expired

-----------------------------------------------------------------------------
(* The nightly runs *)

Fresh(pc, todo, notify) ==
  [pc |-> pc, todo |-> todo, done |-> {}, touched |-> {}, logins |-> {},
   notify |-> notify]

NoRun == Fresh("idle", {}, FALSE)

Locked(u) == \E k \in Kinds : u \in run[k].done

\* a row that is changed while a run has it still to do is not what the run
\* has in its snapshot
Touched(k, us) == [run[k] EXCEPT !.touched = @ \cup (us \cap run[k].todo)]

Touch(us) == run' = [k \in Kinds |-> Touched(k, us)]

\* a run that finds nobody changes nothing
RunStart(k) ==
  /\ run[k].pc = "idle"
  /\ k = "dormancy" => param.enabled
  /\ Candidates(k) # {}
  /\ run' = [run EXCEPT ![k] = Fresh("archiving", Candidates(k), param.notify[k])]
  /\ UNCHANGED <<user, param, edits>>

Archive(k, u) ==
  /\ run[k].pc = "archiving" /\ u \in run[k].todo
  /\ u \notin run[k].touched /\ ~Locked(u)
  /\ run' = [run EXCEPT ![k].todo = @ \ {u}, ![k].done = @ \cup {u}]
  /\ UNCHANGED <<user, param, edits>>

\* the write fails in its savepoint: logged, the user stays as he was
ArchiveFails(k, u) ==
  /\ run[k].pc = "archiving" /\ u \in run[k].todo
  /\ run' = [run EXCEPT ![k].todo = @ \ {u}, ![k].touched = @ \ {u}]
  /\ UNCHANGED <<user, param, edits>>

\* nothing to tell, nobody to tell, or the mail is sent or fails harmlessly
Notified(k) ==
  /\ run[k].pc = "archiving" /\ run[k].todo = {}
  /\ run' = [run EXCEPT ![k].pc = "ending"]
  /\ UNCHANGED <<user, param, edits>>

NoticeFails(k, pc) ==
  /\ run[k].pc = "archiving" /\ run[k].todo = {}
  /\ run[k].notify /\ run[k].done # {}
  /\ run' = [run EXCEPT ![k].pc = pc]
  /\ UNCHANGED <<user, param, edits>>

\* mutant: this mail too is written without a savepoint
DormancyNoticeAborts == NoticeFails("dormancy", "aborted")

\* the database refuses the mail: the error stays in its savepoint
DormancyNoticeFails == NoticeFails("dormancy", "ending")

\* the database refuses the mail, which has no savepoint: the transaction is
\* aborted by it, though the exception is caught
ExpiryNoticeFails == NoticeFails("expiry", "aborted")

ArchivedDormant(r) == [r EXCEPT !.active = FALSE, !.by_dormancy = TRUE]

ArchivedExpired(r) == [r EXCEPT !.active = FALSE, !.by_expiry = TRUE]

Archived(k, r) == IF k = "dormancy" THEN ArchivedDormant(r) ELSE ArchivedExpired(r)

\* the writes become visible, unless the transaction was aborted before
RunCommit(k) ==
  LET kept == IF run[k].pc = "ending" THEN run[k].done ELSE {}
  IN  /\ run[k].pc \in {"ending", "aborted"}
      /\ user' = [u \in Users |-> IF u \in kept THEN Archived(k, user[u]) ELSE user[u]]
      /\ run' = [j \in Kinds |-> IF j = k THEN NoRun ELSE Touched(j, kept)]
      /\ UNCHANGED <<param, edits>>

\* the server stops, or the run takes longer than it may
RunCrash(k) ==
  /\ run[k].pc # "idle"
  /\ run' = [run EXCEPT ![k] = NoRun]
  /\ UNCHANGED <<user, param, edits>>

-----------------------------------------------------------------------------
(* The people *)

Edit == edits < MaxEdits /\ edits' = edits + 1

\* mutant: the flag of the dormancy run is forgotten
DormancyFlagKept(r) == r

DormancyCleared(r) == [r EXCEPT !.by_dormancy = FALSE]

\* the date goes with the flag if it has passed where the writer is
ExpiryCleared(r, zone) ==
  IF ~r.by_expiry THEN r
  ELSE [r EXCEPT !.by_expiry = FALSE,
                 !.date = IF PassedFor(r, zone) THEN NoDate ELSE @]

\* write() of both modules
Reactivate(u, zone) ==
  /\ ~user[u].active /\ ~Locked(u) /\ Edit
  /\ user' = [user EXCEPT ![u] =
       ExpiryCleared(DormancyCleared([@ EXCEPT !.active = TRUE]), zone)]
  /\ Touch({u})
  /\ UNCHANGED param

ArchiveByHand(u) ==
  /\ user[u].active /\ ~Locked(u) /\ Edit
  /\ user' = [user EXCEPT ![u].active = FALSE]
  /\ Touch({u})
  /\ UNCHANGED param

SetDate(u, date) ==
  /\ user[u].date # date /\ ~Locked(u) /\ Edit
  /\ user' = [user EXCEPT ![u].date = date]
  /\ Touch({u})
  /\ UNCHANGED param

SetExempt(u) ==
  /\ ~Locked(u) /\ Edit
  /\ user' = [user EXCEPT ![u].exempt = ~@]
  /\ Touch({u})
  /\ UNCHANGED param

\* set_values, or an edit of the parameters themselves
SaveSettings(p) ==
  /\ p # param /\ Edit
  /\ param' = p
  /\ UNCHANGED <<user, run>>

Login(u) ==
  /\ user[u].active
  /\ user[u].seen # 0 \/ ~user[u].logged
  /\ user' = [user EXCEPT ![u].seen = 0, ![u].logged = TRUE]
  /\ run' = [run EXCEPT !["dormancy"].logins =
       @ \cup ({u} \cap (run["dormancy"].todo \cup run["dormancy"].done))]
  /\ UNCHANGED <<param, edits>>

\* a date long passed stays one, a login long ago stays one
NextDay ==
  /\ user' = [u \in Users |->
       [user[u] EXCEPT
          !.seen = IF @ < MaxSeen THEN @ + 1 ELSE @,
          !.date = IF @ = NoDate \/ @ < 0 THEN @ ELSE @ - 1]]
  /\ UNCHANGED <<param, run, edits>>

-----------------------------------------------------------------------------
Init ==
  /\ \E seen \in 0..MaxSeen, date \in Dates \cup {NoDate} :
       user = [u \in Users |-> NewUser(seen, date)]
  /\ param \in Settings
  /\ run = [k \in Kinds |-> NoRun]
  /\ edits = 0

Nightly(k) ==
  \/ RunStart(k)
  \/ \E u \in Users : Archive(k, u) \/ ArchiveFails(k, u)
  \/ Notified(k)
  \/ RunCommit(k)
  \/ RunCrash(k)

People ==
  \/ \E u \in Users : \/ \E zone \in Zones : Reactivate(u, zone)
                      \/ ArchiveByHand(u)
                      \/ \E date \in Dates \cup {NoDate} : SetDate(u, date)
                      \/ SetExempt(u)
                      \/ Login(u)
  \/ \E p \in Settings : SaveSettings(p)

Next ==
  \/ \E k \in Kinds : Nightly(k)
  \/ DormancyNoticeFails
  \/ ExpiryNoticeFails
  \/ People
  \/ NextDay

Spec == Init /\ [][Next]_vars

-----------------------------------------------------------------------------
(* Properties *)

RunState ==
  [pc : {"idle", "archiving", "ending", "aborted"},
   todo : SUBSET (Users \ Admins), done : SUBSET (Users \ Admins),
   touched : SUBSET Users, logins : SUBSET Users, notify : BOOLEAN]

\* what the run has written, or still can write
Reach(k) == (run[k].todo \ run[k].touched) \cup run[k].done

\* Users, runs and settings keep their shapes; a locked row is of one run, and
\* the rows within the reach of a run are those of active users.
TypeOK ==
  /\ user \in [Users -> User]
  /\ param \in Settings
  /\ run \in [Kinds -> RunState]
  /\ edits \in Nat
  /\ run["dormancy"].done \cap run["expiry"].done = {}
  /\ \A k \in Kinds : \A u \in Reach(k) : user[u].active

\* The two tabs of the user form: a user is archived while either flag is up,
\* and never by both runs, though both may have him in their snapshots.
FlagsTell ==
  \A u \in Users : /\ user[u].by_dormancy \/ user[u].by_expiry => ~user[u].active
                   /\ ~(user[u].by_dormancy /\ user[u].by_expiry)

Committed(k, u) == RunCommit(k) /\ run[k].pc = "ending" /\ u \in run[k].done

\* _dormancy_candidates and _expiry_candidates: whatever people change while a
\* run is on its way, it archives nobody whose row no longer says so: not a
\* user exempted, archived or given another date since it looked.
NeverAgainstEdit ==
  [][\A u \in Users :
       /\ Committed("dormancy", u) => user[u].active /\ ~user[u].exempt
       /\ Committed("expiry", u)   => user[u].active /\ Passed(u, 0)]_vars

\* MIN_DAYS: "The scheduled action never uses less than 7 days, whatever is
\* stored".  Nobody seen since then is archived, save one who logs in between
\* the snapshot of the run and its commit.
MinimumKept ==
  [][\A u \in Users :
       Committed("dormancy", u)
         => user[u].seen > MinDays \/ u \in run["dormancy"].logins]_vars

\* _dormancy_notify_admins: "the archiving writes above must survive a DB-level
\* failure here".  What a dormancy run that reaches its end wrote is kept.
NoticeKeepsArchives ==
  [][RunCommit("dormancy") =>
       \A u \in run["dormancy"].done : user'[u].by_dormancy]_vars

-----------------------------------------------------------------------------
(* What the comments and the README promise, and the code does not keep *)

\* user_access_expiry: "notification failure must not fail the cron".
ExpiryNoticeKeepsArchives ==
  [][RunCommit("expiry") => \A u \in run["expiry"].done : user'[u].by_expiry]_vars
=============================================================================
