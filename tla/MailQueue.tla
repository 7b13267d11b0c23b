------------------------------ MODULE MailQueue ------------------------------
(***************************************************************************)
(* failed_mail_bulk_retry and keep_sent_email_history on the mail queue of *)
(* the core: administrators who retry or cancel failed mails from their    *)
(* screens, the queue that sends, and the purge of what the history keeps. *)
(*                                                                         *)
(* A request of a screen is one transaction on the snapshot taken at its   *)
(* start.  The rows it writes are locked until it ends; a row somebody     *)
(* changed since the snapshot cannot be written, which a savepoint         *)
(* confines.  What leaves by SMTP has left, whatever becomes of the        *)
(* transaction.  The queue and the purge touch only rows nobody holds, the *)
(* queue commits mail by mail, so each of their steps is an action.        *)
(***************************************************************************)
EXTENDS Integers, FiniteSets, Functions

CONSTANTS
  Mails,
  Manual,       \* the mails people may delete by hand
  Admins,       \* those with a retry screen
  Contents,     \* kinds of mails that are created, of Plain and Secret
  Plain,
  Credential,   \* mails of CREDENTIAL_MODELS
  Linked,       \* mails of other models whose body has one of TOKEN_URL_MARKERS
  Settings,     \* what the parameters may hold
  Unset,        \* a retention that is missing or no number
  DefaultDays,
  MaxLines,     \* MAX_LINES
  MaxBatch,     \* MAX_BATCH
  MaxSend,      \* MAX_SEND_NOW
  PurgeCap,     \* batch times max_batches
  MaxAge,       \* the age at which mails stop ageing
  MaxLost       \* bound on the deliveries that faults make forgotten

VARIABLES
  mail,         \* [Mails -> Mail]: the committed rows
  param,        \* the parameters of the history
  screen,       \* [Admins -> Screen]: what each has selected and has listed
  request,      \* [Admins -> what the request of the screen is doing]
  delivered,    \* [Mails -> Nat]: how often each was taken by the mail server
  lost,         \* deliveries forgotten because something failed or stopped
  undone        \* deliveries forgotten because two requests met

vars == <<mail, param, screen, request, delivered, lost, undone>>

Secret == {Credential, Linked}

ASSUME ConstantsAssumption ==
  /\ Contents \subseteq {Plain} \cup Secret /\ Plain \notin Secret
  /\ Manual \subseteq Mails
  /\ Unset \notin Int /\ DefaultDays \in Int
  /\ \A p \in Settings :
       p.enabled \in BOOLEAN /\ (p.days = Unset \/ p.days \in Int)
  /\ MaxLines \in Nat /\ MaxBatch \in Nat /\ MaxSend \in Nat /\ PurgeCap \in Nat
  /\ MaxAge \in Nat /\ MaxLost \in Nat

Pending == "outgoing"
Failed == "exception"
Terminal == {"sent", "exception", "cancel"}

\* age: days since the last write
Mail == [state : {"absent", "gone", Pending} \cup Terminal,
         content : Contents \cup {Plain}, auto_delete : BOOLEAN, kept : BOOLEAN,
         age : 0..MaxAge]

Nothing(state) == [state |-> state, content |-> Plain, auto_delete |-> FALSE,
                   kept |-> FALSE, age |-> 0]

Exists(m) == mail[m].state \notin {"absent", "gone"}

\* a write of the state, which is a new write date; "gone" unlinks the row
Become(r, state) ==
  IF state = "gone" THEN Nothing("gone") ELSE [r EXCEPT !.state = state, !.age = 0]

Capped(S, cap) ==
  IF Cardinality(S) <= cap THEN {S} ELSE {T \in SUBSET S : Cardinality(T) = cap}

-----------------------------------------------------------------------------
(* The requests of the screens *)

\* row: what the request has written; failed, shown: of its snapshot, the mails
\* that had failed and those its screen listed; touched: the mails it still
\* meant to write when others changed them; smtp: those it has delivered
Opened(pc, todo, failed, shown) ==
  [pc |-> pc, todo |-> todo, row |-> [m \in Mails |-> "untouched"],
   failed |-> failed, shown |-> shown, touched |-> {}, smtp |-> {}]

NoRequest == Opened("idle", {}, {}, {})

Written(a) == {m \in Mails : request[a].row[m] # "untouched"}

Locked(m) == \E a \in Admins : m \in Written(a)

Writable(a, m) == m \notin request[a].touched /\ ~Locked(m)

Touched(a, ms) == [request[a] EXCEPT !.touched = @ \cup (ms \cap request[a].todo)]

Touch(ms) == request' = [a \in Admins |-> Touched(a, ms)]

FailedMails == {m \in Mails : mail[m].state = Failed}

Shown(a) == {m \in screen[a].lines : Exists(m)}

\* the mails a screen was opened on, all if it was opened from the menu
Scope(a) == IF screen[a].chosen = {} THEN Mails ELSE screen[a].chosen

\* mutant: the list is reloaded from the whole queue
ListingsOfAll(a, failed) == Capped(failed, MaxLines)

Listings(a, failed) == Capped(failed \cap Scope(a), MaxLines)

\* mutant: the state of the mails is not looked at again
EligibleUnchecked(ms) == {m \in ms : Exists(m)}

Eligible(ms) == ms \cap FailedMails

\* action_open, from the menu or on mails selected in the list
OpenScreen(a, chosen) ==
  /\ request[a].pc = "idle" /\ Cardinality(chosen) <= MaxBatch
  /\ \A m \in chosen : Exists(m)
  /\ \E lines \in Capped(IF chosen = {} THEN FailedMails ELSE FailedMails \cap chosen,
                         MaxLines) :
       screen' = [screen EXCEPT ![a] = [chosen |-> chosen, lines |-> lines]]
  /\ UNCHANGED <<mail, param, request, delivered, lost, undone>>

\* action_refresh
Refresh(a) ==
  /\ request[a].pc = "idle"
  /\ \E lines \in Listings(a, FailedMails) :
       screen' = [screen EXCEPT ![a].lines = lines]
  /\ UNCHANGED <<mail, param, request, delivered, lost, undone>>

Begin(a, pc, ms) ==
  /\ request[a].pc = "idle"
  /\ request' = [request EXCEPT ![a] =
       Opened(IF Eligible(ms) = {} THEN "ending" ELSE pc,
              Eligible(ms), FailedMails \cap Scope(a), Shown(a))]
  /\ UNCHANGED <<mail, param, screen, delivered, lost, undone>>

\* action_retry_selected, on the lines that are ticked
RetrySelected(a, ticked) ==
  ticked # {} /\ ticked \subseteq Shown(a) /\ Begin(a, "requeue", ticked)

\* mutant: the button works on a selection as well
SinceEverywhere(a) == TRUE

SinceAllowed(a) == screen[a].chosen = {}

\* action_retry_since: the failed mails queued since some day
RetrySince(a, recent) ==
  /\ SinceAllowed(a) /\ recent \subseteq FailedMails
  /\ Cardinality(recent) <= MaxBatch
  /\ Begin(a, "requeue", recent)

\* action_cancel_selected
CancelSelected(a, ticked) ==
  ticked # {} /\ ticked \subseteq Shown(a) /\ Begin(a, "cancelling", ticked)

\* a step of the request of a that leaves all committed rows alone
Within(a, r) ==
  /\ request' = [request EXCEPT ![a] = r]
  /\ UNCHANGED <<mail, param, screen>>

Uncounted == UNCHANGED <<delivered, lost, undone>>

Wrote(r, ms, state) ==
  [r EXCEPT !.row = [m \in Mails |-> IF m \in ms THEN state ELSE @[m]]]

\* one statement for the whole batch
BulkRequeue(a) ==
  LET r == request[a]
  IN  /\ r.pc = "requeue" /\ \A m \in r.todo : Writable(a, m)
      /\ Within(a, [Wrote(r, r.todo, Pending) EXCEPT !.pc = "requeued", !.todo = {}])
      /\ Uncounted

BulkFails(a) ==
  /\ request[a].pc = "requeue"
  /\ Within(a, [request[a] EXCEPT !.pc = "singles"])
  /\ Uncounted

Done(r, m) ==
  [r EXCEPT !.todo = @ \ {m}, !.touched = @ \ {m},
            !.pc = IF r.todo # {m} THEN @
                   ELSE IF @ = "singles" THEN "requeued" ELSE "ending"]

\* the fallback, and _fmbr_cancel, mail by mail
WriteOne(a, m) ==
  LET r == request[a]
  IN  /\ r.pc \in {"singles", "cancelling"} /\ m \in r.todo /\ Writable(a, m)
      /\ Within(a, Done(Wrote(r, {m}, IF r.pc = "singles" THEN Pending ELSE "cancel"), m))
      /\ Uncounted

SkipOne(a, m) ==
  /\ request[a].pc \in {"singles", "cancelling"} /\ m \in request[a].todo
  /\ Within(a, Done(request[a], m))
  /\ Uncounted

\* send_now, or not
ChooseSend(a, now) ==
  LET r == request[a]
  IN  /\ r.pc = "requeued" /\ (now = {} \/ now \in Capped(Written(a), MaxSend))
      /\ Within(a, [r EXCEPT !.pc = IF now = {} THEN "ending" ELSE "sending",
                             !.todo = now])
      /\ Uncounted

Sending(a, m) == request[a].pc = "sending" /\ m \in request[a].todo

\* the state after a mail is processed: one flagged auto-delete is unlinked when
\* it was taken, or when its address was refused
Outcomes(m, taken) ==
  IF mail[m].auto_delete THEN IF taken THEN {"gone"} ELSE {"gone", Failed}
  ELSE {IF taken THEN "sent" ELSE Failed}

SendTaken(a, m) ==
  /\ Sending(a, m)
  /\ \E state \in Outcomes(m, TRUE) :
       Within(a, [Done(Wrote(request[a], {m}, state), m) EXCEPT !.smtp = @ \cup {m}])
  /\ delivered' = [delivered EXCEPT ![m] = @ + 1]
  /\ UNCHANGED <<lost, undone>>

\* an address or the connection is refused
SendRefused(a, m) ==
  /\ Sending(a, m)
  /\ \E state \in Outcomes(m, FALSE) :
       Within(a, Done(Wrote(request[a], {m}, state), m))
  /\ Uncounted

\* an error that send() lets through: the savepoint leaves the mail pending
SendRaises(a, m) ==
  /\ Sending(a, m)
  /\ Within(a, Done(request[a], m))
  /\ Uncounted

MayLose(n) == SumFunction(lost) + n <= MaxLost

CountLost(m) ==
  /\ MayLose(1)
  /\ delivered' = [delivered EXCEPT ![m] = @ + 1]
  /\ lost' = [lost EXCEPT ![m] = @ + 1]
  /\ UNCHANGED undone

\* the same, after the mail server has taken it; or one of its recipients has
\* it and another is refused
SendForgotten(a, m) ==
  /\ Sending(a, m)
  /\ \/ Within(a, Done(request[a], m))
     \/ Within(a, Done(Wrote(request[a], {m}, Failed), m))
  /\ CountLost(m)

\* what the list is reloaded with: the snapshot and the request's own writes
StillFailed(a) ==
  (request[a].failed \ Written(a)) \cup {m \in Mails : request[a].row[m] = Failed}

\* the reload deletes and writes a line of a mail that was removed meanwhile
Clash(a, lines) == \E m \in request[a].shown \cup lines : mail[m].state = "gone"

Commit(a, lines) ==
  /\ mail' = [m \in Mails |-> IF m \in Written(a) THEN Become(mail[m], request[a].row[m])
                              ELSE mail[m]]
  /\ screen' = [screen EXCEPT ![a].lines = lines]
  /\ request' = [b \in Admins |-> IF b = a THEN NoRequest ELSE Touched(b, Written(a))]

\* _fmbr_store_result and _fmbr_refresh_lines, then the commit
RequestEnds(a) ==
  /\ request[a].pc = "ending"
  /\ \E lines \in Listings(a, StillFailed(a)) :
       ~Clash(a, lines) /\ Commit(a, lines)
  /\ UNCHANGED <<param, delivered, lost, undone>>

Forget(count, ms) == [m \in Mails |-> IF m \in ms THEN count[m] + 1 ELSE count[m]]

\* the reload fails, outside every savepoint: all is rolled back, and the server
\* makes the same request again (RetrySelected, RetrySince, CancelSelected)
RequestClashes(a) ==
  /\ request[a].pc = "ending"
  /\ \E lines \in Listings(a, StillFailed(a)) : Clash(a, lines)
  /\ undone' = Forget(undone, request[a].smtp)
  /\ Within(a, NoRequest)
  /\ UNCHANGED <<delivered, lost>>

\* the server stops, or the request takes longer than it may
RequestCrashes(a) ==
  /\ request[a].pc # "idle" /\ MayLose(Cardinality(request[a].smtp))
  /\ lost' = Forget(lost, request[a].smtp)
  /\ Within(a, NoRequest)
  /\ UNCHANGED <<delivered, undone>>

-----------------------------------------------------------------------------
(* The history *)

\* mutant: only the model is looked at
SkipModelOnly(content) == content = Credential

\* _keep_history_skip
Skip(content) == content \in Secret

Retention(p) == IF p.days = Unset THEN DefaultDays ELSE p.days

\* mutant: a negative retention is taken as it is
DaysUnchecked(p) == Retention(p)

\* _keep_history_config; 0 keeps for ever
Days(p) == IF Retention(p) < 0 THEN 0 ELSE Retention(p)

\* what create() and write() do with a mail that asks for auto_delete
AskedToDelete(r) ==
  IF param.enabled /\ ~Skip(r.content)
  THEN [r EXCEPT !.auto_delete = FALSE, !.kept = TRUE]
  ELSE [r EXCEPT !.auto_delete = TRUE]

Create(m, content, auto_delete) ==
  LET r == [Nothing(Pending) EXCEPT !.content = content]
  IN  /\ mail[m].state = "absent"
      /\ mail' = [mail EXCEPT ![m] = IF auto_delete THEN AskedToDelete(r) ELSE r]
      /\ UNCHANGED <<param, screen, request, delivered, lost, undone>>

\* write() of auto_delete on mails that exist
AskToDelete(ms) ==
  /\ \A m \in ms : Exists(m) /\ ~Locked(m)
  /\ \E m \in ms : mail[m].auto_delete = FALSE
  /\ mail' = [m \in Mails |->
       IF m \in ms THEN [AskedToDelete(mail[m]) EXCEPT !.age = 0] ELSE mail[m]]
  /\ Touch(ms)
  /\ UNCHANGED <<param, screen, delivered, lost, undone>>

Victims ==
  {m \in Mails : /\ mail[m].kept /\ mail[m].state \in Terminal
                 /\ mail[m].age > Days(param)}

\* _cron_purge_kept_emails, which waits for whoever holds a row of its own, and
\* fails if that changes it
Purge ==
  /\ Days(param) # 0 /\ Victims # {} /\ \A m \in Victims : ~Locked(m)
  /\ \E ms \in Capped(Victims, PurgeCap) :
       /\ mail' = [m \in Mails |-> IF m \in ms THEN Nothing("gone") ELSE mail[m]]
       /\ Touch(ms)
  /\ UNCHANGED <<param, screen, delivered, lost, undone>>

SaveSettings(p) ==
  /\ p # param
  /\ param' = p
  /\ UNCHANGED <<mail, screen, request, delivered, lost, undone>>

-----------------------------------------------------------------------------
(* The core: its queue, its buttons, and time *)

Set(m, state) ==
  /\ ~Locked(m)
  /\ mail' = [mail EXCEPT ![m] = Become(@, state)]
  /\ Touch({m})
  /\ UNCHANGED <<param, screen>>

QueueSends(m) ==
  /\ mail[m].state = Pending
  /\ \/ /\ \E state \in Outcomes(m, TRUE) : Set(m, state)
        /\ delivered' = [delivered EXCEPT ![m] = @ + 1]
        /\ UNCHANGED <<lost, undone>>
     \/ (\E state \in Outcomes(m, FALSE) : Set(m, state)) /\ Uncounted

\* taken by the mail server, but the commit fails, or not by every recipient
QueueForgets(m) ==
  /\ mail[m].state = Pending /\ CountLost(m)
  /\ Set(m, Failed) \/ (~Locked(m) /\ UNCHANGED <<mail, param, screen, request>>)

RetryButton(m) == mail[m].state \in {Failed, "cancel"} /\ Set(m, Pending) /\ Uncounted

CancelButton(m) == mail[m].state = Pending /\ Set(m, "cancel") /\ Uncounted

DeleteByHand(m) == m \in Manual /\ Exists(m) /\ Set(m, "gone") /\ Uncounted

NextDay ==
  /\ \E m \in Mails : Exists(m) /\ mail[m].age < MaxAge
  /\ mail' = [m \in Mails |-> IF Exists(m) /\ mail[m].age < MaxAge
                              THEN [mail[m] EXCEPT !.age = @ + 1] ELSE mail[m]]
  /\ UNCHANGED <<param, screen, request, delivered, lost, undone>>

-----------------------------------------------------------------------------
Init ==
  /\ mail = [m \in Mails |-> Nothing("absent")]
  /\ param \in Settings
  /\ screen = [a \in Admins |-> [chosen |-> {}, lines |-> {}]]
  /\ request = [a \in Admins |-> NoRequest]
  /\ delivered = [m \in Mails |-> 0]
  /\ lost = delivered
  /\ undone = delivered

Screens(a) ==
  \/ \E ms \in SUBSET Mails : OpenScreen(a, ms) \/ RetrySelected(a, ms)
                              \/ RetrySince(a, ms) \/ CancelSelected(a, ms)
  \/ Refresh(a)

Requests(a) ==
  \/ BulkRequeue(a) \/ BulkFails(a)
  \/ \E m \in Mails : \/ WriteOne(a, m) \/ SkipOne(a, m)
                      \/ SendTaken(a, m) \/ SendRefused(a, m)
                      \/ SendRaises(a, m) \/ SendForgotten(a, m)
  \/ \E now \in SUBSET Mails : ChooseSend(a, now)
  \/ RequestEnds(a) \/ RequestClashes(a) \/ RequestCrashes(a)

History ==
  \/ \E m \in Mails, content \in Contents, auto_delete \in BOOLEAN :
       Create(m, content, auto_delete)
  \/ \E ms \in SUBSET Mails : AskToDelete(ms)
  \/ Purge
  \/ \E p \in Settings : SaveSettings(p)

Core ==
  \/ \E m \in Mails : \/ QueueSends(m) \/ QueueForgets(m) \/ RetryButton(m)
                      \/ CancelButton(m) \/ DeleteByHand(m)
  \/ NextDay

Next == (\E a \in Admins : Screens(a) \/ Requests(a)) \/ History \/ Core

Spec == Init /\ [][Next]_vars

-----------------------------------------------------------------------------
(* Properties *)

Row == {"untouched", Pending, "gone"} \cup Terminal

Request ==
  [pc : {"idle", "requeue", "singles", "requeued", "sending", "cancelling", "ending"},
   todo : SUBSET Mails, row : [Mails -> Row], failed : SUBSET Mails,
   shown : SUBSET Mails, touched : SUBSET Mails, smtp : SUBSET Mails]

\* Mails, screens, requests and counters keep their shapes; a screen lists
\* mails of its scope only.
TypeOK ==
  /\ mail \in [Mails -> Mail]
  /\ param \in Settings
  /\ screen \in [Admins -> [chosen : SUBSET Mails, lines : SUBSET Mails]]
  /\ request \in [Admins -> Request]
  /\ delivered \in [Mails -> Nat] /\ lost \in [Mails -> Nat]
  /\ undone \in [Mails -> Nat]
  /\ \A a \in Admins : screen[a].lines \subseteq Scope(a)

\* done with: sent, removed, or delivered by a request that has not ended
DoneWith(m) ==
  mail[m].state \in {"sent", "gone"} \/ \E a \in Admins : m \in request[a].smtp

Box == INSTANCE Mailbox WITH
  done <- {m \in Mails : DoneWith(m)},
  forgotten <- [m \in Mails |-> lost[m] + undone[m]]

\* Screens, queue, buttons, purge and faults together are a mailbox: what one of
\* them is done with, none delivers again.
IsMailbox == Box!Spec

\* _fmbr_eligible, "re-sending would deliver a duplicate": screens, queue and
\* buttons together deliver a mail once, and once more for each delivery that
\* was forgotten by a fault or by a request that was rolled back.
DeliveredOnce ==
  \A m \in Mails : delivered[m] <= 1 + lost[m] + undone[m]

\* "Only messages in Delivery Failed state are listed and modified", whatever
\* happens to them after the screen was loaded; and action_retry_since: mailing
\* "messages the administrator did not select" is "the one thing this screen
\* must never do".  What a request has written was failed and is in its scope.
OnlyFailedSelected ==
  \A a \in Admins : Written(a) \subseteq (FailedMails \cap Scope(a))

\* _keep_history_skip, "must never be retained": no mail with credentials is
\* kept, and one that asked for its deletion never lives to be sent.
CredentialsLeave ==
  [][\A m \in Mails :
       /\ mail'[m].content \in Secret => ~mail'[m].kept
       /\ mail[m].content \in Secret /\ mail[m].auto_delete /\ mail'[m].state = "sent"
            => mail[m].state = "sent"]_vars

\* _cron_purge_kept_emails, "pending mail is never touched", and the README,
\* "emails you keep manually (auto-delete off) are never touched": where nobody
\* deletes it by hand, a mail without auto-delete goes only if the history kept
\* it, it is no longer pending and nobody wrote to it for the retention, which is
\* not 0.  That holds for screens and queue, which remove mails too, as well.
PurgeSpares ==
  [][\A m \in Mails \ Manual :
       Exists(m) /\ ~mail[m].auto_delete /\ mail'[m].state = "gone"
         => /\ mail[m].kept /\ mail[m].state # Pending
            /\ Retention(param) > 0 /\ mail[m].age > Retention(param)]_vars

-----------------------------------------------------------------------------
(* What the README promises, and the code does not keep *)

\* README of failed_mail_bulk_retry, "Send immediately": "a message the server
\* has already accepted can never be rolled back and sent twice".
NeverRolledBack ==
  \A m \in Mails : delivered[m] <= 1 + lost[m]
=============================================================================
