--------------------------- MODULE MailQueue_proofs ---------------------------
(***************************************************************************)
(* The types of MailQueue, what a request may have written, and that the   *)
(* whole is a mailbox.                                                     *)
(***************************************************************************)
EXTENDS MailQueue, TLAPS

\* a request r on the mails of scope: what it has written, and what it may
\* still write, was failed when it wrote it and is so until it ends; what it
\* has delivered is about to be sent or gone
RowsOf(r) == {m \in Mails : r.row[m] # "untouched"}

Sound(r, failed) ==
  /\ RowsOf(r) \subseteq failed
  /\ r.pc \in {"requeue", "singles", "cancelling"} => r.todo \ r.touched \subseteq failed
  /\ r.pc \in {"idle", "requeue"} => RowsOf(r) = {}
  /\ r.pc \in {"singles", "requeued"} => \A m \in RowsOf(r) : r.row[m] = Pending
  /\ r.pc = "sending" => \A m \in r.todo : r.row[m] = Pending
  /\ \A m \in r.smtp : r.row[m] \in {"sent", "gone"}

Exclusive == \A a, b \in Admins : a # b => Written(a) \cap Written(b) = {}

IInv ==
  /\ TypeOK
  /\ Exclusive
  /\ \A a \in Admins : Sound(request[a], FailedMails \cap Scope(a))

-----------------------------------------------------------------------------
(* The operators *)

LEMMA CappedIsWithin ==
  ASSUME NEW S, NEW cap, NEW T \in Capped(S, cap) PROVE T \subseteq S
BY DEF Capped

LEMMA OpenedFields ==
  ASSUME NEW pc \in {"idle", "requeue", "singles", "requeued", "sending",
                     "cancelling", "ending"},
         NEW todo \in SUBSET Mails, NEW failed \in SUBSET Mails,
         NEW shown \in SUBSET Mails
  PROVE  LET r == Opened(pc, todo, failed, shown)
         IN  /\ r \in Request /\ r.pc = pc /\ r.todo = todo
             /\ RowsOf(r) = {} /\ r.touched = {} /\ r.smtp = {}
BY DEF Opened, Request, Row, RowsOf

LEMMA DoneFields ==
  ASSUME NEW r \in Request, NEW m \in Mails
  PROVE  LET d == Done(r, m)
         IN  /\ d \in Request
             /\ d.todo = r.todo \ {m} /\ d.touched = r.touched \ {m}
             /\ d.row = r.row /\ d.smtp = r.smtp /\ RowsOf(d) = RowsOf(r)
             /\ d.pc \in {r.pc, "ending"} \/ (r.pc = "singles" /\ d.pc = "requeued")
             /\ d.pc = r.pc \/ r.pc # "sending" \/ d.pc = "ending"
<1> DEFINE pc == IF r.todo # {m} THEN r.pc
                 ELSE IF r.pc = "singles" THEN "requeued" ELSE "ending"
<1>1. Done(r, m) = [r EXCEPT !.todo = @ \ {m}, !.touched = @ \ {m}, !.pc = pc]
  BY DEF Done
<1>2. pc \in {"idle", "requeue", "singles", "requeued", "sending", "cancelling", "ending"}
  BY DEF Request
<1>3. \/ pc = r.pc
      \/ pc = "ending"
      \/ r.pc = "singles" /\ pc = "requeued"
  OBVIOUS
<1> HIDE DEF pc
<1> QED
  BY <1>1, <1>2, <1>3 DEF Request, RowsOf

-----------------------------------------------------------------------------
(* Steps of one request, and steps of the others *)

\* a step of the request of a that leaves the rows alone, and writes only what
\* nobody else has written
LEMMA OwnStep ==
  ASSUME IInv, NEW a \in Admins, NEW r \in Request, Within(a, r),
         Sound(r, FailedMails \cap Scope(a)),
         \A m \in RowsOf(r) \ Written(a) : ~Locked(m),
         delivered' \in [Mails -> Nat], lost' \in [Mails -> Nat],
         undone' \in [Mails -> Nat]
  PROVE  IInv'
<1>1. request' = [request EXCEPT ![a] = r] /\ UNCHANGED <<mail, param, screen>>
  BY DEF Within
<1>2. request'[a] = r /\ \A b \in Admins \ {a} : request'[b] = request[b]
  BY <1>1 DEF IInv, TypeOK
<1>3. FailedMails' = FailedMails /\ \A b \in Admins : Scope(b)' = Scope(b)
  BY <1>1 DEF FailedMails, Scope
<1>4. TypeOK'
  BY <1>1, <1>2, <1>3 DEF IInv, TypeOK
<1>5. Exclusive'
  <2>1. Written(a)' = RowsOf(r) /\ \A b \in Admins \ {a} : Written(b)' = Written(b)
    BY <1>2 DEF Written, RowsOf
  <2>2. \A b \in Admins \ {a} : RowsOf(r) \cap Written(b) = {}
    BY DEF IInv, Exclusive, Locked
  <2> QED
    BY <2>1, <2>2 DEF IInv, Exclusive
<1>6. \A b \in Admins : Sound(request[b], FailedMails \cap Scope(b))'
  <2> SUFFICES ASSUME NEW b \in Admins
               PROVE  Sound(request'[b], FailedMails' \cap Scope(b)')
    BY DEF Sound, RowsOf
  <2>1. Sound(request[b], FailedMails \cap Scope(b))
    BY DEF IInv
  <2> QED
    BY <1>2, <1>3, <2>1
<1> QED
  BY <1>4, <1>5, <1>6 DEF IInv

\* others change the mails ms, which the request r has not written
LEMMA TouchedIsSound ==
  ASSUME NEW a \in Admins, request[a] \in Request, NEW ms \in SUBSET Mails,
         NEW failed \in SUBSET Mails, NEW after \in SUBSET Mails,
         failed \ ms \subseteq after, ms \cap Written(a) = {},
         Sound(request[a], failed)
  PROVE  /\ Touched(a, ms) \in Request
         /\ RowsOf(Touched(a, ms)) = Written(a)
         /\ Sound(Touched(a, ms), after)
<1> DEFINE r == request[a]
           t == Touched(a, ms)
<1>1. /\ t \in Request
      /\ t.row = r.row /\ t.pc = r.pc /\ t.todo = r.todo /\ t.smtp = r.smtp
      /\ t.touched = r.touched \cup (ms \cap r.todo)
  BY DEF Touched, Request
<1>2. RowsOf(t) = Written(a) /\ RowsOf(r) = Written(a)
  BY <1>1 DEF RowsOf, Written
<1>3. t.todo \ t.touched \subseteq (r.todo \ r.touched) \ ms
  BY <1>1
<1> HIDE DEF r, t
<1>4. Sound(r, failed)
  BY DEF r
<1>5. Sound(t, after)
  BY <1>1, <1>2, <1>3, <1>4 DEF Sound
<1> QED
  BY <1>1, <1>2, <1>5 DEF t

\* a step that changes the mails ms, which nobody holds
LEMMA OthersStep ==
  ASSUME IInv, NEW ms \in SUBSET Mails, \A m \in ms : ~Locked(m),
         mail' \in [Mails -> Mail], \A m \in Mails \ ms : mail'[m] = mail[m],
         Touch(ms), UNCHANGED <<param, screen>>,
         delivered' \in [Mails -> Nat], lost' \in [Mails -> Nat],
         undone' \in [Mails -> Nat]
  PROVE  IInv'
<1>1. \A a \in Admins : request'[a] = Touched(a, ms)
  BY DEF Touch
<1>2. \A a \in Admins : Scope(a)' = Scope(a)
  BY DEF Scope
<1>3. FailedMails \ ms \subseteq FailedMails'
  BY DEF FailedMails
<1>4. ASSUME NEW a \in Admins
      PROVE  /\ request'[a] \in Request /\ RowsOf(request'[a]) = Written(a)
             /\ Sound(request'[a], FailedMails' \cap Scope(a)')
  <2>1. ms \cap Written(a) = {}
    BY DEF Locked
  <2>2. /\ FailedMails \cap Scope(a) \in SUBSET Mails
        /\ FailedMails' \cap Scope(a)' \in SUBSET Mails
        /\ (FailedMails \cap Scope(a)) \ ms \subseteq FailedMails' \cap Scope(a)'
    BY <1>2, <1>3 DEF FailedMails
  <2>3. request[a] \in Request /\ Sound(request[a], FailedMails \cap Scope(a))
    BY DEF IInv, TypeOK
  <2> QED
    BY <1>1, <2>1, <2>2, <2>3, TouchedIsSound
<1>5. TypeOK'
  <2>1. request' \in [Admins -> Request]
    BY <1>4 DEF Touch
  <2> QED
    BY <1>2, <2>1 DEF IInv, TypeOK
<1>6. Exclusive'
  <2>1. \A a \in Admins : Written(a)' = Written(a)
    BY <1>4 DEF Written, RowsOf
  <2> QED
    BY <2>1 DEF IInv, Exclusive
<1>7. \A a \in Admins : Sound(request[a], FailedMails \cap Scope(a))'
  BY <1>4 DEF Sound, RowsOf
<1> QED
  BY <1>5, <1>6, <1>7 DEF IInv

\* a step of no request, on mails that have not failed
LEMMA QuietStep ==
  ASSUME IInv, UNCHANGED request, mail' \in [Mails -> Mail], param' \in Settings,
         screen' \in [Admins -> [chosen : SUBSET Mails, lines : SUBSET Mails]],
         \A a \in Admins : /\ screen'[a].lines \subseteq Scope(a)'
                           /\ Scope(a)' = Scope(a) \/ request[a].pc = "idle",
         FailedMails \subseteq FailedMails',
         delivered' \in [Mails -> Nat], lost' \in [Mails -> Nat],
         undone' \in [Mails -> Nat]
  PROVE  IInv'
<1>1. TypeOK'
  BY DEF IInv, TypeOK
<1>2. Exclusive'
  BY DEF IInv, Exclusive, Written
<1>3. ASSUME NEW a \in Admins PROVE Sound(request[a], FailedMails' \cap Scope(a)')
  <2>1. Sound(request[a], FailedMails \cap Scope(a))
    BY DEF IInv
  <2>2. CASE Scope(a)' = Scope(a)
    BY <2>1, <2>2 DEF Sound
  <2>3. CASE request[a].pc = "idle"
    BY <2>1, <2>3 DEF Sound
  <2> QED
    BY <2>2, <2>3
<1>4. \A a \in Admins : Sound(request[a], FailedMails \cap Scope(a))'
  BY <1>3 DEF Sound, RowsOf
<1> QED
  BY <1>1, <1>2, <1>4 DEF IInv

-----------------------------------------------------------------------------
(* The screens and their requests *)

LEMMA OpenScreenStep ==
  ASSUME IInv, NEW a \in Admins, NEW chosen \in SUBSET Mails, OpenScreen(a, chosen)
  PROVE  IInv'
<1> DEFINE listed == IF chosen = {} THEN FailedMails ELSE FailedMails \cap chosen
<1>1. PICK lines \in Capped(listed, MaxLines) :
        screen' = [screen EXCEPT ![a] = [chosen |-> chosen, lines |-> lines]]
  BY DEF OpenScreen
<1>2. lines \subseteq listed
  BY <1>1, CappedIsWithin
<1>3. /\ screen' \in [Admins -> [chosen : SUBSET Mails, lines : SUBSET Mails]]
      /\ screen'[a].lines \subseteq Scope(a)'
      /\ \A b \in Admins \ {a} : screen'[b] = screen[b]
  BY <1>1, <1>2 DEF IInv, TypeOK, Scope, FailedMails
<1>4. /\ request[a].pc = "idle"
      /\ UNCHANGED <<mail, param, request, delivered, lost, undone>>
  BY DEF OpenScreen
<1>5. \A b \in Admins \ {a} : Scope(b)' = Scope(b)
  BY <1>3 DEF Scope
<1>6. FailedMails' = FailedMails
  BY <1>4 DEF FailedMails
<1>7. \A b \in Admins : /\ screen'[b].lines \subseteq Scope(b)'
                        /\ Scope(b)' = Scope(b) \/ request[b].pc = "idle"
  BY <1>3, <1>4, <1>5 DEF IInv, TypeOK
<1>8. /\ mail' \in [Mails -> Mail] /\ param' \in Settings
      /\ delivered' \in [Mails -> Nat] /\ lost' \in [Mails -> Nat]
      /\ undone' \in [Mails -> Nat]
  BY <1>4 DEF IInv, TypeOK
<1> QED
  BY <1>3, <1>4, <1>6, <1>7, <1>8, QuietStep

LEMMA RefreshStep ==
  ASSUME IInv, NEW a \in Admins, Refresh(a)
  PROVE  IInv'
<1>1. PICK lines \in Listings(a, FailedMails) :
        screen' = [screen EXCEPT ![a].lines = lines]
  BY DEF Refresh
<1>2. lines \subseteq FailedMails \cap Scope(a)
  BY <1>1, CappedIsWithin DEF Listings
<1>3. /\ screen' \in [Admins -> [chosen : SUBSET Mails, lines : SUBSET Mails]]
      /\ screen'[a].lines = lines
      /\ \A b \in Admins : screen'[b].chosen = screen[b].chosen
      /\ \A b \in Admins \ {a} : screen'[b].lines = screen[b].lines
  BY <1>1, <1>2 DEF IInv, TypeOK, FailedMails
<1>4. UNCHANGED <<mail, param, request, delivered, lost, undone>>
  BY DEF Refresh
<1>5. \A b \in Admins : Scope(b)' = Scope(b)
  BY <1>3 DEF Scope
<1>6. FailedMails' = FailedMails
  BY <1>4 DEF FailedMails
<1>7. \A b \in Admins : /\ screen'[b].lines \subseteq Scope(b)'
                        /\ Scope(b)' = Scope(b) \/ request[b].pc = "idle"
  BY <1>2, <1>3, <1>5 DEF IInv, TypeOK
<1>8. /\ mail' \in [Mails -> Mail] /\ param' \in Settings
      /\ delivered' \in [Mails -> Nat] /\ lost' \in [Mails -> Nat]
      /\ undone' \in [Mails -> Nat]
  BY <1>4 DEF IInv, TypeOK
<1> QED
  BY <1>3, <1>4, <1>6, <1>7, <1>8, QuietStep

LEMMA BeginStep ==
  ASSUME IInv, NEW a \in Admins, NEW pc \in {"requeue", "cancelling"},
         NEW ms \in SUBSET Scope(a), Begin(a, pc, ms)
  PROVE  IInv'
<1> DEFINE at == IF Eligible(ms) = {} THEN "ending" ELSE pc
           r == Opened(at, Eligible(ms), FailedMails \cap Scope(a), Shown(a))
<1>1. Eligible(ms) \subseteq FailedMails \cap Scope(a) /\ FailedMails \subseteq Mails
  BY DEF Eligible, FailedMails
<1>2. at \in {"requeue", "cancelling", "ending"} /\ Shown(a) \subseteq Mails
  BY DEF Shown, IInv, TypeOK
<1>3. /\ r \in Request /\ r.pc = at /\ r.todo = Eligible(ms)
      /\ RowsOf(r) = {} /\ r.touched = {} /\ r.smtp = {}
  <2> HIDE DEF at
  <2>1. /\ Eligible(ms) \in SUBSET Mails /\ FailedMails \cap Scope(a) \in SUBSET Mails
        /\ Shown(a) \in SUBSET Mails
        /\ at \in {"idle", "requeue", "singles", "requeued", "sending",
                   "cancelling", "ending"}
    BY <1>1, <1>2
  <2> QED
    BY <2>1, OpenedFields
<1>4. Within(a, r) /\ UNCHANGED <<delivered, lost, undone>>
  BY DEF Begin, Within
<1> HIDE DEF r, at
<1>5. Sound(r, FailedMails \cap Scope(a))
  BY <1>1, <1>2, <1>3 DEF Sound
<1> QED
  BY <1>3, <1>4, <1>5, OwnStep DEF IInv, TypeOK

LEMMA BulkRequeueStep ==
  ASSUME IInv, NEW a \in Admins, BulkRequeue(a)
  PROVE  IInv'
<1> DEFINE r == request[a]
           w == Wrote(r, r.todo, Pending)
           after == [w EXCEPT !.pc = "requeued", !.todo = {}]
<1>1. /\ r \in Request /\ r.pc = "requeue" /\ r.todo \in SUBSET Mails
      /\ Sound(r, FailedMails \cap Scope(a))
      /\ \A m \in r.todo : m \notin r.touched /\ ~Locked(m)
  BY DEF BulkRequeue, IInv, TypeOK, Request, Writable
<1>2. Within(a, after) /\ UNCHANGED <<delivered, lost, undone>>
  BY DEF BulkRequeue, Uncounted
<1>3. RowsOf(r) = Written(a)
  BY DEF RowsOf, Written
<1> HIDE DEF r
<1>4. /\ w \in Request /\ w.smtp = r.smtp /\ RowsOf(w) = RowsOf(r) \cup r.todo
      /\ \A m \in Mails : w.row[m] = IF m \in r.todo THEN Pending ELSE r.row[m]
  <2>1. Pending \in Row /\ Pending # "untouched"
    BY DEF Pending, Row
  <2>2. w = Wrote(r, r.todo, Pending)
    OBVIOUS
  <2> HIDE DEF w
  <2> QED
    BY <1>1, <2>1, <2>2 DEF Wrote, Request, RowsOf
<1> HIDE DEF w
<1>5. /\ after \in Request /\ after.pc = "requeued" /\ after.todo = {}
      /\ after.row = w.row /\ after.smtp = w.smtp /\ RowsOf(after) = RowsOf(w)
  BY <1>4 DEF Request, RowsOf
<1> HIDE DEF after
<1>6. RowsOf(r) = {}
  BY <1>1 DEF Sound
<1>7. r.smtp = {}
  BY <1>1, <1>6 DEF Sound, RowsOf, Request
<1>8. RowsOf(after) = r.todo /\ after.smtp = {}
  BY <1>4, <1>5, <1>6, <1>7
<1>9. Sound(after, FailedMails \cap Scope(a))
  BY <1>1, <1>4, <1>5, <1>8 DEF Sound
<1> QED
  BY <1>1, <1>2, <1>5, <1>8, <1>9, OwnStep DEF IInv, TypeOK

LEMMA BulkFailsStep ==
  ASSUME IInv, NEW a \in Admins, BulkFails(a)
  PROVE  IInv'
<1> DEFINE r == request[a]
           after == [r EXCEPT !.pc = "singles"]
<1>1. r \in Request /\ r.pc = "requeue" /\ Sound(r, FailedMails \cap Scope(a))
  BY DEF BulkFails, IInv, TypeOK
<1>2. Within(a, after) /\ UNCHANGED <<delivered, lost, undone>>
  BY DEF BulkFails, Uncounted
<1>3. RowsOf(r) = Written(a)
  BY DEF RowsOf, Written
<1> HIDE DEF r
<1>4. /\ after \in Request /\ after.pc = "singles" /\ after.todo = r.todo
      /\ after.touched = r.touched /\ after.row = r.row /\ after.smtp = r.smtp
      /\ RowsOf(after) = RowsOf(r)
  BY <1>1 DEF Request, RowsOf
<1> HIDE DEF after
<1>5. Sound(after, FailedMails \cap Scope(a))
  BY <1>1, <1>4 DEF Sound
<1> QED
  BY <1>2, <1>3, <1>4, <1>5, OwnStep DEF IInv, TypeOK

LEMMA WriteOneStep ==
  ASSUME IInv, NEW a \in Admins, NEW m \in Mails, WriteOne(a, m)
  PROVE  IInv'
<1> DEFINE r == request[a]
           state == IF r.pc = "singles" THEN Pending ELSE "cancel"
           w == Wrote(r, {m}, state)
           after == Done(w, m)
<1>1. /\ r \in Request /\ Sound(r, FailedMails \cap Scope(a))
      /\ r.pc \in {"singles", "cancelling"} /\ m \in r.todo
      /\ m \notin r.touched /\ ~Locked(m)
  BY DEF WriteOne, IInv, TypeOK, Writable
<1>2. Within(a, after) /\ UNCHANGED <<delivered, lost, undone>>
  BY DEF WriteOne, Uncounted
<1>3. RowsOf(r) = Written(a)
  BY DEF RowsOf, Written
<1> HIDE DEF r
<1>4. /\ w \in Request /\ w.pc = r.pc /\ w.todo = r.todo
      /\ w.touched = r.touched /\ w.smtp = r.smtp
      /\ \A n \in Mails : w.row[n] = IF n \in {m} THEN state ELSE r.row[n]
      /\ RowsOf(w) = RowsOf(r) \cup {m}
  <2>1. state \in Row /\ state # "untouched"
    BY DEF Pending, Row, Terminal
  <2>2. w = Wrote(r, {m}, state) /\ {m} \in SUBSET Mails
    OBVIOUS
  <2> HIDE DEF w, state
  <2> QED
    BY <1>1, <2>1, <2>2 DEF Wrote, Request, RowsOf
<1> HIDE DEF w
<1>5. /\ after \in Request /\ after.todo = r.todo \ {m}
      /\ after.touched = r.touched \ {m} /\ after.row = w.row
      /\ after.smtp = r.smtp /\ RowsOf(after) = RowsOf(r) \cup {m}
      /\ after.pc \in {r.pc, "ending"} \/ (r.pc = "singles" /\ after.pc = "requeued")
  BY <1>4, DoneFields
<1> HIDE DEF after
<1>6. m \notin RowsOf(r) /\ m \notin r.smtp
  BY <1>1, <1>3 DEF Locked, Sound, RowsOf
<1>7. Sound(after, FailedMails \cap Scope(a))
  <2>1. RowsOf(after) \subseteq FailedMails \cap Scope(a)
    BY <1>1, <1>5 DEF Sound
  <2>2. \A n \in after.smtp : after.row[n] \in {"sent", "gone"}
    BY <1>1, <1>4, <1>5, <1>6 DEF Sound, Request
  <2>3. after.todo \ after.touched \subseteq FailedMails \cap Scope(a)
    BY <1>1, <1>5 DEF Sound
  <2>4. after.pc \in {"singles", "requeued"} => \A n \in RowsOf(after) : after.row[n] = Pending
    BY <1>1, <1>4, <1>5 DEF Sound, RowsOf
  <2>5. after.pc \in {"singles", "requeued", "cancelling", "ending"}
    BY <1>1, <1>5
  <2> QED
    BY <2>1, <2>2, <2>3, <2>4, <2>5 DEF Sound
<1>8. \A n \in RowsOf(after) \ Written(a) : ~Locked(n)
  BY <1>1, <1>3, <1>5
<1> QED
  BY <1>2, <1>5, <1>7, <1>8, OwnStep DEF IInv, TypeOK

\* a mail that is left out
LEMMA LeftOut ==
  ASSUME IInv, NEW a \in Admins, NEW m \in Mails,
         request[a].pc \in {"singles", "cancelling", "sending"},
         m \in request[a].todo, Within(a, Done(request[a], m)),
         delivered' \in [Mails -> Nat], lost' \in [Mails -> Nat],
         undone' \in [Mails -> Nat]
  PROVE  IInv'
<1> DEFINE r == request[a]
           after == Done(r, m)
<1>1. r \in Request /\ Sound(r, FailedMails \cap Scope(a))
  BY DEF IInv, TypeOK
<1>2. RowsOf(r) = Written(a) /\ r.pc \in {"singles", "cancelling", "sending"}
      /\ Within(a, after)
  BY DEF RowsOf, Written
<1> HIDE DEF r
<1>3. /\ after \in Request /\ after.todo = r.todo \ {m}
      /\ after.touched = r.touched \ {m} /\ after.row = r.row
      /\ after.smtp = r.smtp /\ RowsOf(after) = RowsOf(r)
      /\ after.pc \in {r.pc, "ending"} \/ (r.pc = "singles" /\ after.pc = "requeued")
  BY <1>1, DoneFields
<1> HIDE DEF after
<1>4. Sound(after, FailedMails \cap Scope(a))
  BY <1>1, <1>2, <1>3 DEF Sound
<1> QED
  BY <1>2, <1>3, <1>4, OwnStep

LEMMA ChooseSendStep ==
  ASSUME IInv, NEW a \in Admins, NEW now \in SUBSET Mails, ChooseSend(a, now)
  PROVE  IInv'
<1> DEFINE r == request[a]
           pc == IF now = {} THEN "ending" ELSE "sending"
           after == [r EXCEPT !.pc = pc, !.todo = now]
<1>1. /\ r \in Request /\ Sound(r, FailedMails \cap Scope(a)) /\ r.pc = "requeued"
      /\ now = {} \/ now \in Capped(Written(a), MaxSend)
  BY DEF ChooseSend, IInv, TypeOK
<1>2. Within(a, after) /\ UNCHANGED <<delivered, lost, undone>>
  BY DEF ChooseSend, Uncounted
<1>3. RowsOf(r) = Written(a)
  BY DEF RowsOf, Written
<1> HIDE DEF r
<1>4. now \subseteq RowsOf(r)
  BY <1>1, <1>3, CappedIsWithin
<1>5. pc \in {"sending", "ending"}
  OBVIOUS
<1> HIDE DEF pc
<1>6. /\ after \in Request /\ after.pc = pc /\ after.todo = now
      /\ after.row = r.row /\ after.smtp = r.smtp /\ RowsOf(after) = RowsOf(r)
  BY <1>1, <1>5 DEF Request, RowsOf
<1> HIDE DEF after
<1>7. Sound(after, FailedMails \cap Scope(a))
  BY <1>1, <1>4, <1>5, <1>6 DEF Sound
<1> QED
  BY <1>2, <1>3, <1>6, <1>7, OwnStep DEF IInv, TypeOK

\* the request of a after it has processed m
Processed(a, m, state) == Done(Wrote(request[a], {m}, state), m)

LEMMA ProcessedFields ==
  ASSUME IInv, NEW a \in Admins, NEW m \in Mails, Sending(a, m),
         NEW state \in {"sent", "gone", Failed}
  PROVE  /\ Processed(a, m, state) \in Request
         /\ Processed(a, m, state).pc \in {"sending", "ending"}
         /\ Processed(a, m, state).todo = request[a].todo \ {m}
         /\ Processed(a, m, state).smtp = request[a].smtp
         /\ \A n \in Mails : Processed(a, m, state).row[n]
                               = IF n = m THEN state ELSE request[a].row[n]
         /\ RowsOf(Processed(a, m, state)) = Written(a)
<1> DEFINE r == request[a]
           w == Wrote(r, {m}, state)
           d == Processed(a, m, state)
<1>1. r \in Request /\ r.pc = "sending" /\ m \in r.todo
      /\ Sound(r, FailedMails \cap Scope(a))
  BY DEF Sending, IInv, TypeOK
<1>2. RowsOf(r) = Written(a) /\ d = Done(w, m)
  BY DEF RowsOf, Written, Processed
<1> HIDE DEF r, d
<1>3. state \in Row /\ state # "untouched"
  BY DEF Row, Terminal, Failed
<1>4. /\ w \in Request /\ w.pc = r.pc /\ w.todo = r.todo /\ w.smtp = r.smtp
      /\ \A n \in Mails : w.row[n] = IF n = m THEN state ELSE r.row[n]
      /\ RowsOf(w) = RowsOf(r) \cup {m}
  BY <1>1, <1>3 DEF Wrote, Request, RowsOf
<1>5. m \in RowsOf(r)
  BY <1>1 DEF Sound, RowsOf, Pending
<1> HIDE DEF w
<1>6. /\ d \in Request /\ d.pc \in {"sending", "ending"}
      /\ d.todo = r.todo \ {m} /\ d.smtp = r.smtp
      /\ d.row = w.row /\ RowsOf(d) = RowsOf(r)
  <2> DEFINE e == Done(w, m)
  <2>1. /\ e \in Request /\ e.todo = w.todo \ {m} /\ e.row = w.row
        /\ e.smtp = w.smtp /\ RowsOf(e) = RowsOf(w)
        /\ e.pc = w.pc \/ w.pc # "sending" \/ e.pc = "ending"
    BY <1>4, DoneFields
  <2>2. d = e
    BY <1>2
  <2> HIDE DEF e
  <2> QED
    BY <1>1, <1>4, <1>5, <2>1, <2>2
<1> QED
  BY <1>2, <1>4, <1>6 DEF r, d

\* it is delivered
LEMMA SendTakenStep ==
  ASSUME IInv, NEW a \in Admins, NEW m \in Mails, SendTaken(a, m)
  PROVE  IInv'
<1>1. PICK state \in Outcomes(m, TRUE) :
        Within(a, [Done(Wrote(request[a], {m}, state), m) EXCEPT !.smtp = @ \cup {m}])
  BY DEF SendTaken
<1>2. state \in {"sent", "gone"}
  BY <1>1 DEF Outcomes
<1> DEFINE d == Processed(a, m, state)
           after == [d EXCEPT !.smtp = @ \cup {m}]
<1>3. Within(a, after)
  BY <1>1 DEF Processed
<1>4. /\ d \in Request /\ d.pc \in {"sending", "ending"}
      /\ d.todo = request[a].todo \ {m} /\ d.smtp = request[a].smtp
      /\ \A n \in Mails : d.row[n] = IF n = m THEN state ELSE request[a].row[n]
      /\ RowsOf(d) = Written(a)
  BY <1>2, ProcessedFields DEF SendTaken
<1> HIDE DEF d
<1>5. /\ after \in Request /\ after.pc = d.pc /\ after.todo = d.todo
      /\ after.row = d.row /\ after.smtp = d.smtp \cup {m} /\ RowsOf(after) = RowsOf(d)
  BY <1>4 DEF Request, RowsOf
<1> HIDE DEF after
<1>6. request[a].pc = "sending" /\ request[a] \in Request
      /\ Sound(request[a], FailedMails \cap Scope(a)) /\ RowsOf(request[a]) = Written(a)
  BY DEF SendTaken, Sending, IInv, TypeOK, RowsOf, Written
<1>7. Sound(after, FailedMails \cap Scope(a))
  <2>1. \A n \in after.smtp : after.row[n] \in {"sent", "gone"}
    BY <1>2, <1>4, <1>5, <1>6 DEF Sound, Request
  <2>2. after.pc = "sending" => \A n \in after.todo : after.row[n] = Pending
    BY <1>4, <1>5, <1>6 DEF Sound, Request
  <2> QED
    BY <1>4, <1>5, <1>6, <2>1, <2>2 DEF Sound
<1>8. /\ delivered' \in [Mails -> Nat] /\ lost' \in [Mails -> Nat]
      /\ undone' \in [Mails -> Nat]
  BY DEF SendTaken, IInv, TypeOK
<1> QED
  BY <1>3, <1>4, <1>5, <1>7, <1>8, OwnStep

\* it is not, or nobody will know
LEMMA NotTakenStep ==
  ASSUME IInv, NEW a \in Admins, NEW m \in Mails, Sending(a, m),
         NEW state \in {"gone", Failed},
         Within(a, Done(Wrote(request[a], {m}, state), m)),
         delivered' \in [Mails -> Nat], lost' \in [Mails -> Nat],
         undone' \in [Mails -> Nat], m \notin request[a].smtp
  PROVE  IInv'
<1> DEFINE after == Processed(a, m, state)
<1>1. /\ after \in Request /\ after.pc \in {"sending", "ending"}
      /\ after.todo = request[a].todo \ {m} /\ after.smtp = request[a].smtp
      /\ \A n \in Mails : after.row[n] = IF n = m THEN state ELSE request[a].row[n]
      /\ RowsOf(after) = Written(a)
  BY ProcessedFields
<1>2. Within(a, after)
  BY DEF Processed
<1> HIDE DEF after
<1>3. request[a].pc = "sending" /\ request[a] \in Request
      /\ Sound(request[a], FailedMails \cap Scope(a)) /\ RowsOf(request[a]) = Written(a)
  BY DEF Sending, IInv, TypeOK, RowsOf, Written
<1>4. Sound(after, FailedMails \cap Scope(a))
  <2>1. \A n \in after.smtp : after.row[n] \in {"sent", "gone"}
    BY <1>1, <1>3 DEF Sound, Request
  <2>2. after.pc = "sending" => \A n \in after.todo : after.row[n] = Pending
    BY <1>1, <1>3 DEF Sound, Request
  <2> QED
    BY <1>1, <1>3, <2>1, <2>2 DEF Sound
<1> QED
  BY <1>1, <1>2, <1>4, OwnStep

\* what is being sent has not been sent: by nobody
LEMMA SendingIsOpen ==
  ASSUME IInv, NEW a \in Admins, NEW m \in Mails, Sending(a, m)
  PROVE  ~DoneWith(m) /\ m \notin request[a].smtp
<1>1. /\ Sound(request[a], FailedMails \cap Scope(a))
      /\ request[a].row[m] = Pending
  BY DEF IInv, Sending, Sound
<1>2. m \in Written(a) /\ m \in FailedMails /\ m \notin request[a].smtp
  BY <1>1 DEF Sound, RowsOf, Written, Pending
<1>3. ASSUME NEW b \in Admins \ {a} PROVE m \notin request[b].smtp
  <2>1. m \notin Written(b)
    BY <1>2 DEF IInv, Exclusive
  <2>2. Sound(request[b], FailedMails \cap Scope(b))
    BY DEF IInv
  <2> QED
    BY <2>1, <2>2 DEF Sound, Written
<1> QED
  BY <1>2, <1>3 DEF DoneWith, FailedMails, Failed

LEMMA BecomeIsMail ==
  ASSUME NEW r \in Mail, NEW state \in {"gone", Pending} \cup Terminal
  PROVE  Become(r, state) \in Mail /\ Become(r, state).state = state
<1>1. 0 \in 0..MaxAge
  BY ConstantsAssumption
<1>2. Nothing("gone") \in Mail /\ Nothing("gone").state = "gone"
  BY <1>1 DEF Nothing, Mail
<1> DEFINE w == [r EXCEPT !.state = state, !.age = 0]
<1>3. w \in Mail /\ w.state = state
  BY <1>1 DEF Mail
<1> HIDE DEF w
<1>4. Become(r, state) = IF state = "gone" THEN Nothing("gone") ELSE w
  BY DEF Become, w
<1> QED
  BY <1>2, <1>3, <1>4

\* the request of a comes to nothing
LEMMA DismissedStep ==
  ASSUME IInv, NEW a \in Admins, Within(a, NoRequest),
         delivered' \in [Mails -> Nat], lost' \in [Mails -> Nat],
         undone' \in [Mails -> Nat]
  PROVE  IInv'
<1>1. /\ NoRequest \in Request /\ NoRequest.pc = "idle" /\ NoRequest.todo = {}
      /\ RowsOf(NoRequest) = {} /\ NoRequest.touched = {} /\ NoRequest.smtp = {}
  BY OpenedFields DEF NoRequest
<1>2. Sound(NoRequest, FailedMails \cap Scope(a))
  BY <1>1 DEF Sound
<1> QED
  BY <1>1, <1>2, OwnStep

LEMMA RequestEndsStep ==
  ASSUME IInv, NEW a \in Admins, RequestEnds(a)
  PROVE  IInv'
<1>1. PICK lines \in Listings(a, StillFailed(a)) : Commit(a, lines)
  BY DEF RequestEnds
<1>2. lines \subseteq Scope(a) /\ lines \subseteq Mails
  <2>1. StillFailed(a) \subseteq Mails
    BY DEF StillFailed, IInv, TypeOK, Request
  <2> QED
    BY <1>1, <2>1, CappedIsWithin DEF Listings
<1>3. UNCHANGED <<param, delivered, lost, undone>>
  BY DEF RequestEnds
<1>4. Written(a) \in SUBSET Mails /\ Written(a) \subseteq FailedMails
  BY DEF Written, RowsOf, IInv, Sound
<1>5. /\ mail' \in [Mails -> Mail]
      /\ \A m \in Mails \ Written(a) : mail'[m] = mail[m]
  <2>1. \A m \in Written(a) : Become(mail[m], request[a].row[m]) \in Mail
    <3> SUFFICES ASSUME NEW m \in Written(a)
                 PROVE  Become(mail[m], request[a].row[m]) \in Mail
      OBVIOUS
    <3>1. request[a].row[m] \in {"gone", Pending} \cup Terminal /\ mail[m] \in Mail
      BY DEF Written, IInv, TypeOK, Request, Row
    <3> QED
      BY <3>1, BecomeIsMail
  <2> QED
    BY <1>1, <2>1 DEF Commit, IInv, TypeOK
<1>6. /\ screen' \in [Admins -> [chosen : SUBSET Mails, lines : SUBSET Mails]]
      /\ screen'[a].lines = lines
      /\ \A b \in Admins : screen'[b].chosen = screen[b].chosen
      /\ \A b \in Admins \ {a} : screen'[b].lines = screen[b].lines
  BY <1>1, <1>2 DEF Commit, IInv, TypeOK
<1>7. \A b \in Admins : Scope(b)' = Scope(b)
  BY <1>6 DEF Scope
<1>8. /\ request'[a] = NoRequest
      /\ \A b \in Admins \ {a} : request'[b] = Touched(b, Written(a))
  BY <1>1 DEF Commit
<1>9. FailedMails \ Written(a) \subseteq FailedMails'
  BY <1>5 DEF FailedMails
<1>10. /\ NoRequest \in Request /\ RowsOf(NoRequest) = {}
       /\ \A failed : Sound(NoRequest, failed)
  <2>1. /\ NoRequest \in Request /\ NoRequest.pc = "idle" /\ NoRequest.todo = {}
        /\ RowsOf(NoRequest) = {} /\ NoRequest.touched = {} /\ NoRequest.smtp = {}
    BY OpenedFields DEF NoRequest
  <2> QED
    BY <2>1 DEF Sound
<1>11. ASSUME NEW b \in Admins \ {a}
       PROVE  /\ request'[b] \in Request /\ RowsOf(request'[b]) = Written(b)
              /\ Sound(request'[b], FailedMails' \cap Scope(b)')
  <2>1. Written(a) \cap Written(b) = {}
    BY DEF IInv, Exclusive
  <2>2. /\ FailedMails \cap Scope(b) \in SUBSET Mails
        /\ FailedMails' \cap Scope(b)' \in SUBSET Mails
        /\ (FailedMails \cap Scope(b)) \ Written(a) \subseteq FailedMails' \cap Scope(b)'
    BY <1>7, <1>9 DEF FailedMails
  <2>3. request[b] \in Request /\ Sound(request[b], FailedMails \cap Scope(b))
    BY DEF IInv, TypeOK
  <2> QED
    BY <1>4, <1>8, <2>1, <2>2, <2>3, TouchedIsSound
<1>12. TypeOK'
  <2>1. request' \in [Admins -> Request]
    BY <1>1, <1>8, <1>10, <1>11 DEF Commit
  <2>2. \A b \in Admins : screen'[b].lines \subseteq Scope(b)'
    BY <1>2, <1>6, <1>7 DEF IInv, TypeOK
  <2> QED
    BY <1>3, <1>5, <1>6, <2>1, <2>2 DEF IInv, TypeOK
<1>13. Exclusive'
  <2>1. Written(a)' = {} /\ \A b \in Admins \ {a} : Written(b)' = Written(b)
    BY <1>8, <1>10, <1>11 DEF Written, RowsOf
  <2> QED
    BY <2>1 DEF IInv, Exclusive
<1>14. \A b \in Admins : Sound(request[b], FailedMails \cap Scope(b))'
  <2>1. \A b \in Admins : Sound(request'[b], FailedMails' \cap Scope(b)')
    BY <1>8, <1>10, <1>11
  <2> QED
    BY <2>1 DEF Sound, RowsOf
<1> QED
  BY <1>12, <1>13, <1>14 DEF IInv

-----------------------------------------------------------------------------
(* The history and the core *)

\* a step of one mail that nobody holds
LEMMA SetStep ==
  ASSUME IInv, NEW m \in Mails, NEW state \in {"gone", Pending} \cup Terminal,
         Set(m, state),
         delivered' \in [Mails -> Nat], lost' \in [Mails -> Nat],
         undone' \in [Mails -> Nat]
  PROVE  IInv'
<1>1. mail[m] \in Mail /\ mail' = [mail EXCEPT ![m] = Become(mail[m], state)]
  BY DEF Set, IInv, TypeOK
<1>2. Become(mail[m], state) \in Mail
  BY <1>1, BecomeIsMail
<1>3. mail' \in [Mails -> Mail] /\ \A n \in Mails \ {m} : mail'[n] = mail[n]
  BY <1>1, <1>2 DEF IInv, TypeOK
<1>4. Touch({m}) /\ ~Locked(m) /\ UNCHANGED <<param, screen>>
  BY DEF Set
<1> QED
  BY <1>3, <1>4, OthersStep

LEMMA AskedIsMail ==
  ASSUME NEW r \in Mail
  PROVE  AskedToDelete(r) \in Mail /\ AskedToDelete(r).state = r.state
BY DEF AskedToDelete, Mail

LEMMA CreateStep ==
  ASSUME IInv, NEW m \in Mails, NEW content \in Contents, NEW auto_delete \in BOOLEAN,
         Create(m, content, auto_delete)
  PROVE  IInv'
<1> DEFINE r == [Nothing(Pending) EXCEPT !.content = content]
           new == IF auto_delete THEN AskedToDelete(r) ELSE r
<1>1. r \in Mail
  <2> DEFINE none == Nothing(Pending)
  <2>1. none \in Mail
    BY ConstantsAssumption DEF Nothing, Mail
  <2> HIDE DEF none
  <2>2. [none EXCEPT !.content = content] \in Mail
    BY <2>1 DEF Mail
  <2> QED
    BY <2>2 DEF none
<1>2. new \in Mail
  BY <1>1, AskedIsMail
<1>3. /\ mail[m].state = "absent" /\ mail' = [mail EXCEPT ![m] = new]
      /\ UNCHANGED <<param, screen, request, delivered, lost, undone>>
  BY DEF Create
<1> HIDE DEF new
<1>4. mail' \in [Mails -> Mail] /\ FailedMails \subseteq FailedMails'
  BY <1>2, <1>3 DEF IInv, TypeOK, FailedMails, Failed
<1>5. \A a \in Admins : Scope(a)' = Scope(a)
  BY <1>3 DEF Scope
<1> QED
  BY <1>3, <1>4, <1>5, QuietStep DEF IInv, TypeOK

LEMMA AskToDeleteStep ==
  ASSUME IInv, NEW ms \in SUBSET Mails, AskToDelete(ms)
  PROVE  IInv'
<1>1. ASSUME NEW m \in Mails PROVE [AskedToDelete(mail[m]) EXCEPT !.age = 0] \in Mail
  <2> DEFINE asked == AskedToDelete(mail[m])
  <2>1. asked \in Mail
    BY AskedIsMail DEF IInv, TypeOK
  <2> HIDE DEF asked
  <2>2. [asked EXCEPT !.age = 0] \in Mail
    BY <2>1, ConstantsAssumption DEF Mail
  <2> QED
    BY <2>2 DEF asked
<1>2. mail' \in [Mails -> Mail] /\ \A m \in Mails \ ms : mail'[m] = mail[m]
  BY <1>1 DEF AskToDelete, IInv, TypeOK
<1>3. /\ Touch(ms) /\ \A m \in ms : ~Locked(m)
      /\ UNCHANGED <<param, screen, delivered, lost, undone>>
  BY DEF AskToDelete
<1> QED
  BY <1>2, <1>3, OthersStep DEF IInv, TypeOK

LEMMA PurgeStep ==
  ASSUME IInv, Purge
  PROVE  IInv'
<1>1. PICK ms \in Capped(Victims, PurgeCap) :
        /\ mail' = [m \in Mails |-> IF m \in ms THEN Nothing("gone") ELSE mail[m]]
        /\ Touch(ms)
  BY DEF Purge
<1>2. ms \subseteq Victims /\ Victims \subseteq Mails
  BY <1>1, CappedIsWithin DEF Victims
<1>3. Nothing("gone") \in Mail
  BY ConstantsAssumption DEF Nothing, Mail
<1>4. mail' \in [Mails -> Mail] /\ \A m \in Mails \ ms : mail'[m] = mail[m]
  BY <1>1, <1>3 DEF IInv, TypeOK
<1>5. /\ \A m \in ms : ~Locked(m)
      /\ UNCHANGED <<param, screen, delivered, lost, undone>>
  BY <1>2 DEF Purge
<1> QED
  BY <1>1, <1>2, <1>4, <1>5, OthersStep DEF IInv, TypeOK

LEMMA NextDayStep ==
  ASSUME IInv, NextDay
  PROVE  IInv'
<1>1. UNCHANGED <<param, screen, request, delivered, lost, undone>>
  BY DEF NextDay
<1>2. /\ mail' \in [Mails -> Mail] /\ \A m \in Mails : mail'[m].state = mail[m].state
  <2>1. ASSUME NEW r \in Mail, r.age < MaxAge
        PROVE  [r EXCEPT !.age = r.age + 1] \in Mail
               /\ [r EXCEPT !.age = r.age + 1].state = r.state
    <3>1. r.age + 1 \in 0..MaxAge
      BY <2>1, ConstantsAssumption DEF Mail
    <3> QED
      BY <3>1 DEF Mail
  <2> QED
    BY <2>1 DEF NextDay, IInv, TypeOK
<1>3. FailedMails \subseteq FailedMails' /\ \A a \in Admins : Scope(a)' = Scope(a)
  BY <1>1, <1>2 DEF FailedMails, Scope
<1> QED
  BY <1>1, <1>2, <1>3, QuietStep DEF IInv, TypeOK

-----------------------------------------------------------------------------
(* The invariant *)

LEMMA Initially == Init => IInv
<1> SUFFICES ASSUME Init PROVE IInv
  OBVIOUS
<1>1. /\ NoRequest \in Request /\ RowsOf(NoRequest) = {}
      /\ \A failed : Sound(NoRequest, failed)
  <2>1. /\ NoRequest \in Request /\ NoRequest.pc = "idle" /\ NoRequest.todo = {}
        /\ RowsOf(NoRequest) = {} /\ NoRequest.touched = {} /\ NoRequest.smtp = {}
    BY OpenedFields DEF NoRequest
  <2> QED
    BY <2>1 DEF Sound
<1>2. Nothing("absent") \in Mail
  BY ConstantsAssumption DEF Nothing, Mail
<1>3. TypeOK
  <2>1. request \in [Admins -> Request]
    BY <1>1 DEF Init
  <2>2. mail \in [Mails -> Mail]
    BY <1>2 DEF Init
  <2> QED
    BY <2>1, <2>2 DEF Init, TypeOK, Scope
<1>4. \A a \in Admins : request[a] = NoRequest
  BY DEF Init
<1>5. Exclusive
  BY <1>1, <1>4 DEF Exclusive, Written, RowsOf
<1> QED
  BY <1>1, <1>3, <1>4, <1>5 DEF IInv

LEMMA ScreensStep ==
  ASSUME IInv, NEW a \in Admins, Screens(a)
  PROVE  IInv'
<1>1. ASSUME NEW ms \in SUBSET Mails, OpenScreen(a, ms) PROVE IInv'
  BY <1>1, OpenScreenStep
<1>2. ASSUME NEW ms \in SUBSET Mails, RetrySelected(a, ms) PROVE IInv'
  <2>1. ms \subseteq Scope(a) /\ Begin(a, "requeue", ms)
    BY <1>2 DEF RetrySelected, Shown, IInv, TypeOK
  <2> QED
    BY <2>1, BeginStep
<1>3. ASSUME NEW ms \in SUBSET Mails, RetrySince(a, ms) PROVE IInv'
  <2>1. ms \subseteq Scope(a) /\ Begin(a, "requeue", ms)
    BY <1>3 DEF RetrySince, SinceAllowed, Scope
  <2> QED
    BY <2>1, BeginStep
<1>4. ASSUME NEW ms \in SUBSET Mails, CancelSelected(a, ms) PROVE IInv'
  <2>1. ms \subseteq Scope(a) /\ Begin(a, "cancelling", ms)
    BY <1>4 DEF CancelSelected, Shown, IInv, TypeOK
  <2> QED
    BY <2>1, BeginStep
<1>5. CASE Refresh(a)
  BY <1>5, RefreshStep
<1> QED
  BY <1>1, <1>2, <1>3, <1>4, <1>5 DEF Screens

LEMMA RequestsStep ==
  ASSUME IInv, NEW a \in Admins, Requests(a)
  PROVE  IInv'
<1>1. CASE BulkRequeue(a)
  BY <1>1, BulkRequeueStep
<1>2. CASE BulkFails(a)
  BY <1>2, BulkFailsStep
<1>3. ASSUME NEW m \in Mails, WriteOne(a, m) PROVE IInv'
  BY <1>3, WriteOneStep
<1>4. ASSUME NEW m \in Mails, SkipOne(a, m) PROVE IInv'
  BY <1>4, LeftOut DEF SkipOne, Uncounted, IInv, TypeOK
<1>5. ASSUME NEW m \in Mails, SendTaken(a, m) PROVE IInv'
  BY <1>5, SendTakenStep
<1>6. ASSUME NEW m \in Mails, SendRefused(a, m) PROVE IInv'
  <2>1. Sending(a, m) /\ UNCHANGED <<delivered, lost, undone>>
    BY <1>6 DEF SendRefused, Uncounted
  <2>2. PICK state \in Outcomes(m, FALSE) :
          Within(a, Done(Wrote(request[a], {m}, state), m))
    BY <1>6 DEF SendRefused
  <2>3. state \in {"gone", Failed}
    BY <2>2 DEF Outcomes
  <2>4. m \notin request[a].smtp
    BY <2>1, SendingIsOpen
  <2> QED
    BY <2>1, <2>2, <2>3, <2>4, NotTakenStep DEF IInv, TypeOK
<1>7. ASSUME NEW m \in Mails, SendRaises(a, m) PROVE IInv'
  BY <1>7, LeftOut DEF SendRaises, Sending, Uncounted, IInv, TypeOK
<1>8. ASSUME NEW m \in Mails, SendForgotten(a, m) PROVE IInv'
  <2>1. /\ Sending(a, m) /\ delivered' \in [Mails -> Nat]
        /\ lost' \in [Mails -> Nat] /\ undone' \in [Mails -> Nat]
    BY <1>8 DEF SendForgotten, CountLost, IInv, TypeOK
  <2>2. CASE Within(a, Done(request[a], m))
    BY <2>1, <2>2, LeftOut DEF Sending
  <2>3. CASE Within(a, Done(Wrote(request[a], {m}, Failed), m))
    <3>1. m \notin request[a].smtp
      BY <2>1, SendingIsOpen
    <3> QED
      BY <2>1, <2>3, <3>1, NotTakenStep
  <2> QED
    BY <1>8, <2>2, <2>3 DEF SendForgotten
<1>9. ASSUME NEW now \in SUBSET Mails, ChooseSend(a, now) PROVE IInv'
  BY <1>9, ChooseSendStep
<1>10. CASE RequestEnds(a)
  BY <1>10, RequestEndsStep
<1>11. CASE RequestClashes(a)
  <2>1. /\ Within(a, NoRequest) /\ delivered' \in [Mails -> Nat]
        /\ lost' \in [Mails -> Nat] /\ undone' \in [Mails -> Nat]
    BY <1>11 DEF RequestClashes, Forget, IInv, TypeOK
  <2> QED
    BY <2>1, DismissedStep
<1>12. CASE RequestCrashes(a)
  <2>1. /\ Within(a, NoRequest) /\ delivered' \in [Mails -> Nat]
        /\ lost' \in [Mails -> Nat] /\ undone' \in [Mails -> Nat]
    BY <1>12 DEF RequestCrashes, Forget, IInv, TypeOK
  <2> QED
    BY <2>1, DismissedStep
<1> QED
  BY <1>1, <1>2, <1>3, <1>4, <1>5, <1>6, <1>7, <1>8, <1>9, <1>10, <1>11, <1>12
  DEF Requests

LEMMA HistoryStep ==
  ASSUME IInv, History
  PROVE  IInv'
<1>1. ASSUME NEW p \in Settings, SaveSettings(p) PROVE IInv'
  <2>1. FailedMails \subseteq FailedMails' /\ \A a \in Admins : Scope(a)' = Scope(a)
    BY <1>1 DEF SaveSettings, FailedMails, Scope
  <2> QED
    BY <1>1, <2>1, QuietStep DEF SaveSettings, IInv, TypeOK
<1> QED
  BY <1>1, CreateStep, AskToDeleteStep, PurgeStep DEF History

LEMMA CoreStep ==
  ASSUME IInv, Core
  PROVE  IInv'
<1> DEFINE Counted == /\ delivered' \in [Mails -> Nat] /\ lost' \in [Mails -> Nat]
                      /\ undone' \in [Mails -> Nat]
<1>1. ASSUME NEW m \in Mails, QueueSends(m) PROVE IInv'
  <2>1. Counted
    <3>1. /\ lost' = lost /\ undone' = undone
          /\ \/ delivered' = delivered
             \/ delivered' = [delivered EXCEPT ![m] = @ + 1]
      BY <1>1 DEF QueueSends, Uncounted
    <3> QED
      BY <3>1 DEF IInv, TypeOK
  <2>2. PICK state \in Outcomes(m, TRUE) \cup Outcomes(m, FALSE) : Set(m, state)
    BY <1>1 DEF QueueSends
  <2>3. state \in {"gone", Pending} \cup Terminal
    BY <2>2 DEF Outcomes, Terminal, Failed
  <2> QED
    BY <2>1, <2>2, <2>3, SetStep
<1>2. ASSUME NEW m \in Mails, QueueForgets(m) PROVE IInv'
  <2>1. Counted
    BY <1>2 DEF QueueForgets, CountLost, IInv, TypeOK
  <2>2. CASE Set(m, Failed)
    BY <2>1, <2>2, SetStep DEF Terminal, Failed
  <2>3. CASE UNCHANGED <<mail, param, screen, request>>
    <3>1. FailedMails \subseteq FailedMails' /\ \A a \in Admins : Scope(a)' = Scope(a)
      BY <2>3 DEF FailedMails, Scope
    <3> QED
      BY <2>1, <2>3, <3>1, QuietStep DEF IInv, TypeOK
  <2> QED
    BY <1>2, <2>2, <2>3 DEF QueueForgets
<1>3. ASSUME NEW m \in Mails, RetryButton(m) \/ CancelButton(m) \/ DeleteByHand(m)
      PROVE  IInv'
  <2>1. Counted
    BY <1>3 DEF RetryButton, CancelButton, DeleteByHand, Uncounted, IInv, TypeOK
  <2>2. PICK state \in {"gone", Pending} \cup Terminal : Set(m, state)
    BY <1>3 DEF RetryButton, CancelButton, DeleteByHand, Terminal
  <2> QED
    BY <2>1, <2>2, SetStep
<1> QED
  BY <1>1, <1>2, <1>3, NextDayStep DEF Core

LEMMA IInvIsInductive == IInv /\ [Next]_vars => IInv'
<1> SUFFICES ASSUME IInv, [Next]_vars PROVE IInv'
  OBVIOUS
<1>1. ASSUME NEW a \in Admins, Screens(a) \/ Requests(a) PROVE IInv'
  BY <1>1, ScreensStep, RequestsStep
<1>2. CASE UNCHANGED vars
  <2>1. FailedMails \subseteq FailedMails' /\ \A a \in Admins : Scope(a)' = Scope(a)
    BY <1>2 DEF vars, FailedMails, Scope
  <2> QED
    BY <1>2, <2>1, QuietStep DEF vars, IInv, TypeOK
<1> QED
  BY <1>1, <1>2, HistoryStep, CoreStep DEF Next

LEMMA Invariance == Spec => []IInv
BY Initially, IInvIsInductive, PTL DEF Spec

\* Mails, screens, requests and counters keep their shapes, and a screen lists
\* nothing beyond its scope.
THEOREM TypeCorrect == Spec => []TypeOK
<1>1. IInv => TypeOK
  BY DEF IInv
<1> QED
  BY <1>1, Invariance, PTL

\* A request writes only mails that had failed, still have, and are in the scope
\* of its screen.
THEOREM OnlyFailedAreWritten == Spec => []OnlyFailedSelected
<1>1. IInv => OnlyFailedSelected
  BY DEF IInv, OnlyFailedSelected, Sound, RowsOf, Written
<1> QED
  BY <1>1, Invariance, PTL

-----------------------------------------------------------------------------
(* The mailbox *)

LEMMA SmtpIsFailed ==
  ASSUME IInv, NEW a \in Admins, NEW m \in request[a].smtp
  PROVE  /\ m \in Mails /\ m \in Written(a) /\ Locked(m) /\ mail[m].state = Failed
         /\ request[a].row[m] \in {"sent", "gone"} /\ request[a].pc # "idle"
         /\ \A b \in Admins \ {a} : m \notin request[b].smtp
<1>1. \A b \in Admins : request[b] \in Request /\ Sound(request[b], FailedMails \cap Scope(b))
  BY DEF IInv, TypeOK
<1>2. m \in Mails /\ request[a].row[m] \in {"sent", "gone"}
  BY <1>1 DEF Request, Sound
<1>3. m \in RowsOf(request[a]) /\ m \in Written(a)
  BY <1>2 DEF RowsOf, Written
<1>4. m \in FailedMails /\ request[a].pc # "idle"
  BY <1>1, <1>3 DEF Sound
<1>5. \A b \in Admins \ {a} : m \notin request[b].smtp
  <2> SUFFICES ASSUME NEW b \in Admins \ {a}, m \in request[b].smtp PROVE FALSE
    OBVIOUS
  <2>1. request[b].row[m] \in {"sent", "gone"}
    BY <1>1 DEF Sound
  <2>2. m \in Written(b)
    BY <1>2, <2>1 DEF Written
  <2> QED
    BY <1>3, <2>2 DEF IInv, Exclusive
<1> QED
  BY <1>2, <1>3, <1>4, <1>5 DEF Locked, FailedMails

\* a step that delivers and forgets nothing
LEMMA Quiet ==
  ASSUME \A m \in Mails : DoneWith(m) => DoneWith(m)',
         UNCHANGED <<delivered, lost, undone>>
  PROVE  Box!Next
<1>1. PICK ms \in SUBSET Mails : ms = {m \in Mails : DoneWith(m)}'
  OBVIOUS
<1>2. {m \in Mails : DoneWith(m)}' = {m \in Mails : DoneWith(m)} \cup ms
  BY <1>1
<1>3. Box!GiveUp(ms)
  BY <1>2 DEF Box!GiveUp
<1> QED
  BY <1>3 DEF Box!Next

\* a step of the request of a that delivers and forgets nothing
LEMMA QuietWithin ==
  ASSUME IInv, NEW a \in Admins, NEW r, Within(a, r), request[a].smtp \subseteq r.smtp,
         UNCHANGED <<delivered, lost, undone>>
  PROVE  Box!Next
<1>1. /\ mail' = mail /\ request'[a] = r
      /\ \A b \in Admins \ {a} : request'[b] = request[b]
  BY DEF Within, IInv, TypeOK
<1>2. \A m \in Mails : DoneWith(m) => DoneWith(m)'
  BY <1>1 DEF DoneWith
<1> QED
  BY <1>2, Quiet

\* a step of the queue, the history or the buttons on mails nobody holds
LEMMA QuietOutside ==
  ASSUME IInv, NEW ms \in SUBSET Mails, \A m \in ms : ~Locked(m), Touch(ms),
         \A m \in Mails \ ms : mail'[m] = mail[m],
         \A m \in ms : mail[m].state \in {"sent", "gone"}
                         => mail'[m].state \in {"sent", "gone"},
         UNCHANGED <<delivered, lost, undone>>
  PROVE  Box!Next
<1>1. \A a \in Admins : request'[a].smtp = request[a].smtp
  BY DEF Touch, Touched, IInv, TypeOK, Request
<1>2. \A m \in Mails : DoneWith(m) => DoneWith(m)'
  BY <1>1 DEF DoneWith
<1> QED
  BY <1>2, Quiet

LEMMA DoneKeepsSmtp ==
  ASSUME NEW r \in Request, NEW m \in Mails
  PROVE  Done(r, m).smtp = r.smtp
BY DoneFields

LEMMA ScreensBox ==
  ASSUME IInv, NEW a \in Admins, Screens(a)
  PROVE  Box!Next
<1>1. CASE UNCHANGED <<mail, request, delivered, lost, undone>>
  <2>1. \A m \in Mails : DoneWith(m) => DoneWith(m)'
    BY <1>1 DEF DoneWith
  <2> QED
    BY <1>1, <2>1, Quiet
<1>2. ASSUME NEW pc, NEW ms \in SUBSET Mails, Begin(a, pc, ms) PROVE Box!Next
  <2>1. request[a].pc = "idle" /\ UNCHANGED <<delivered, lost, undone>>
    BY <1>2 DEF Begin
  <2>2. request[a].smtp = {}
    BY <2>1, SmtpIsFailed
  <2> DEFINE r == Opened(IF Eligible(ms) = {} THEN "ending" ELSE pc, Eligible(ms),
                         FailedMails \cap Scope(a), Shown(a))
  <2>3. Within(a, r)
    BY <1>2 DEF Begin, Within
  <2> HIDE DEF r
  <2> QED
    BY <2>1, <2>2, <2>3, QuietWithin
<1> QED
  BY <1>1, <1>2 DEF Screens, OpenScreen, Refresh, RetrySelected, RetrySince, CancelSelected

\* m, which is not done with, is delivered
LEMMA Delivers ==
  ASSUME NEW m \in Mails, ~DoneWith(m), DoneWith(m)',
         \A n \in Mails \ {m} : DoneWith(n)' <=> DoneWith(n),
         delivered' = [delivered EXCEPT ![m] = @ + 1], UNCHANGED <<lost, undone>>
  PROVE  Box!Next
<1>1. {n \in Mails : DoneWith(n)}' = {n \in Mails : DoneWith(n)} \cup {m}
  OBVIOUS
<1>2. Box!Deliver(m)
  BY <1>1 DEF Box!Deliver
<1> QED
  BY <1>2 DEF Box!Next

\* m, which is not done with, is delivered and nobody knows
LEMMA DeliversUnnoticed ==
  ASSUME IInv, NEW m \in Mails, ~DoneWith(m), CountLost(m),
         \A n \in Mails : DoneWith(n)' <=> DoneWith(n)
  PROVE  Box!Next
<1>1. {n \in Mails : DoneWith(n)}' = {n \in Mails : DoneWith(n)}
  OBVIOUS
<1>2. /\ delivered' = [delivered EXCEPT ![m] = @ + 1]
      /\ lost' = [lost EXCEPT ![m] = @ + 1] /\ undone' = undone
      /\ lost \in [Mails -> Nat] /\ undone \in [Mails -> Nat]
  BY DEF CountLost, IInv, TypeOK
<1> DEFINE f == [n \in Mails |-> lost[n] + undone[n]]
<1>3. [n \in Mails |-> lost[n] + undone[n]]' = [f EXCEPT ![m] = @ + 1]
  <2>1. \A n \in Mails : lost'[n] + undone'[n]
                           = IF n = m THEN lost[n] + undone[n] + 1 ELSE lost[n] + undone[n]
    BY <1>2
  <2>2. [f EXCEPT ![m] = @ + 1] = [n \in Mails |-> IF n = m THEN f[n] + 1 ELSE f[n]]
    OBVIOUS
  <2> QED
    BY <2>1, <2>2
<1>4. Box!DeliverUnnoticed(m)
  BY <1>1, <1>2, <1>3 DEF Box!DeliverUnnoticed
<1> QED
  BY <1>4 DEF Box!Next

\* the request of a is dismissed: what it delivered is forgotten
LEMMA Forgets ==
  ASSUME IInv, NEW a \in Admins, Within(a, NoRequest), delivered' = delivered,
         \/ lost' = Forget(lost, request[a].smtp) /\ undone' = undone
         \/ undone' = Forget(undone, request[a].smtp) /\ lost' = lost
  PROVE  Box!Next
<1>1. PICK ms \in SUBSET Mails : ms = request[a].smtp
  BY DEF IInv, TypeOK, Request
<1>2. /\ mail' = mail /\ request'[a].smtp = {}
      /\ \A b \in Admins \ {a} : request'[b] = request[b]
  BY DEF Within, NoRequest, Opened, IInv, TypeOK
<1>3. \A m \in ms : DoneWith(m) /\ ~DoneWith(m)'
  <2> SUFFICES ASSUME NEW m \in ms PROVE DoneWith(m) /\ ~DoneWith(m)'
    OBVIOUS
  <2>1. mail[m].state = Failed /\ \A b \in Admins \ {a} : m \notin request[b].smtp
    BY <1>1, SmtpIsFailed
  <2> QED
    BY <1>1, <1>2, <2>1 DEF DoneWith, Failed
<1>4. \A m \in Mails \ ms : DoneWith(m)' <=> DoneWith(m)
  BY <1>1, <1>2 DEF DoneWith
<1>5. /\ ms \subseteq {m \in Mails : DoneWith(m)}
      /\ {m \in Mails : DoneWith(m)}' = {m \in Mails : DoneWith(m)} \ ms
  BY <1>1, <1>3, <1>4
<1> DEFINE f == [m \in Mails |-> lost[m] + undone[m]]
<1>6. [m \in Mails |-> lost[m] + undone[m]]'
        = [m \in Mails |-> IF m \in ms THEN f[m] + 1 ELSE f[m]]
  BY <1>1 DEF Forget, IInv, TypeOK
<1>7. Box!Forget(ms)
  BY <1>5, <1>6 DEF Box!Forget
<1> QED
  BY <1>7 DEF Box!Next

LEMMA RequestsBox ==
  ASSUME IInv, NEW a \in Admins, Requests(a)
  PROVE  Box!Next
<1> DEFINE r == request[a]
<1>1. r \in Request
  BY DEF IInv, TypeOK
<1>2. CASE BulkRequeue(a)
  <2> DEFINE w == Wrote(r, r.todo, Pending)
             after == [w EXCEPT !.pc = "requeued", !.todo = {}]
  <2>1. Within(a, after) /\ UNCHANGED <<delivered, lost, undone>>
    BY <1>2 DEF BulkRequeue, Uncounted
  <2>2. after.smtp = r.smtp
    BY <1>1 DEF Wrote, Request
  <2> HIDE DEF after
  <2> QED
    BY <2>1, <2>2, QuietWithin
<1>3. CASE BulkFails(a)
  <2> DEFINE after == [r EXCEPT !.pc = "singles"]
  <2>1. Within(a, after) /\ UNCHANGED <<delivered, lost, undone>>
    BY <1>3 DEF BulkFails, Uncounted
  <2>2. after.smtp = r.smtp
    BY <1>1 DEF Request
  <2> HIDE DEF after
  <2> QED
    BY <2>1, <2>2, QuietWithin
<1>4. ASSUME NEW m \in Mails, WriteOne(a, m) PROVE Box!Next
  <2> DEFINE state == IF r.pc = "singles" THEN Pending ELSE "cancel"
             w == Wrote(r, {m}, state)
  <2>1. Within(a, Done(w, m)) /\ UNCHANGED <<delivered, lost, undone>>
    BY <1>4 DEF WriteOne, Uncounted
  <2>2. w \in Request /\ w.smtp = r.smtp
    <3>1. state \in Row
      BY DEF Row, Pending, Terminal
    <3> HIDE DEF state
    <3> QED
      BY <1>1, <3>1 DEF Wrote, Request
  <2> HIDE DEF w
  <2>3. Done(w, m).smtp = r.smtp
    BY <2>2, DoneKeepsSmtp
  <2> QED
    BY <2>1, <2>3, QuietWithin
<1>5. ASSUME NEW m \in Mails, SkipOne(a, m) \/ SendRaises(a, m) PROVE Box!Next
  <2>1. Within(a, Done(r, m)) /\ UNCHANGED <<delivered, lost, undone>>
    BY <1>5 DEF SkipOne, SendRaises, Uncounted
  <2>2. Done(r, m).smtp = r.smtp
    BY <1>1, DoneKeepsSmtp
  <2> QED
    BY <2>1, <2>2, QuietWithin
<1>6. ASSUME NEW m \in Mails, SendRefused(a, m) PROVE Box!Next
  <2>1. Sending(a, m) /\ UNCHANGED <<delivered, lost, undone>>
    BY <1>6 DEF SendRefused, Uncounted
  <2>2. PICK state \in Outcomes(m, FALSE) : Within(a, Processed(a, m, state))
    BY <1>6 DEF SendRefused, Processed
  <2>3. state \in {"gone", Failed}
    BY <2>2 DEF Outcomes
  <2>4. Processed(a, m, state).smtp = r.smtp
    BY <2>1, <2>3, ProcessedFields
  <2> QED
    BY <2>1, <2>2, <2>4, QuietWithin
<1>7. ASSUME NEW now \in SUBSET Mails, ChooseSend(a, now) PROVE Box!Next
  <2> DEFINE pc == IF now = {} THEN "ending" ELSE "sending"
             after == [r EXCEPT !.pc = pc, !.todo = now]
  <2>1. Within(a, after) /\ UNCHANGED <<delivered, lost, undone>>
    BY <1>7 DEF ChooseSend, Uncounted
  <2>2. after.smtp = r.smtp
    BY <1>1 DEF Request
  <2> HIDE DEF after
  <2> QED
    BY <2>1, <2>2, QuietWithin
<1>8. ASSUME NEW m \in Mails, SendTaken(a, m) PROVE Box!Next
  <2>1. Sending(a, m) /\ ~DoneWith(m) /\ m \notin request[a].smtp
    BY <1>8, SendingIsOpen DEF SendTaken
  <2>2. PICK state \in Outcomes(m, TRUE) :
          Within(a, [Processed(a, m, state) EXCEPT !.smtp = @ \cup {m}])
    BY <1>8 DEF SendTaken, Processed
  <2>3. state \in {"sent", "gone"}
    BY <2>2 DEF Outcomes
  <2> DEFINE d == Processed(a, m, state)
             after == [d EXCEPT !.smtp = @ \cup {m}]
  <2>4. d \in Request /\ d.smtp = request[a].smtp
    BY <2>1, <2>3, ProcessedFields
  <2>5. Within(a, after)
    BY <2>2
  <2> HIDE DEF d
  <2>6. after.smtp = request[a].smtp \cup {m}
    BY <2>4 DEF Request
  <2> HIDE DEF after
  <2>7. /\ mail' = mail /\ request'[a].smtp = request[a].smtp \cup {m}
        /\ \A b \in Admins \ {a} : request'[b] = request[b]
    BY <2>5, <2>6 DEF Within, IInv, TypeOK
  <2>8. DoneWith(m)' /\ \A n \in Mails \ {m} : DoneWith(n)' <=> DoneWith(n)
    BY <2>7 DEF DoneWith
  <2>9. delivered' = [delivered EXCEPT ![m] = @ + 1] /\ UNCHANGED <<lost, undone>>
    BY <1>8 DEF SendTaken
  <2> QED
    BY <2>1, <2>8, <2>9, Delivers
<1>9. ASSUME NEW m \in Mails, SendForgotten(a, m) PROVE Box!Next
  <2>1. Sending(a, m) /\ ~DoneWith(m) /\ CountLost(m)
    BY <1>9, SendingIsOpen DEF SendForgotten
  <2>2. PICK after \in {Done(r, m), Processed(a, m, Failed)} : Within(a, after)
    BY <1>9 DEF SendForgotten, Processed
  <2>3. after.smtp = request[a].smtp
    <3>1. Done(r, m).smtp = request[a].smtp
      BY <1>1, DoneKeepsSmtp
    <3>2. Processed(a, m, Failed).smtp = request[a].smtp
      BY <2>1, ProcessedFields
    <3> QED
      BY <2>2, <3>1, <3>2
  <2>4. /\ mail' = mail /\ request'[a].smtp = request[a].smtp
        /\ \A b \in Admins \ {a} : request'[b] = request[b]
    BY <2>2, <2>3 DEF Within, IInv, TypeOK
  <2>5. \A n \in Mails : DoneWith(n)' <=> DoneWith(n)
    BY <2>4 DEF DoneWith
  <2> QED
    BY <2>1, <2>5, DeliversUnnoticed
<1>10. CASE RequestEnds(a)
  <2>1. UNCHANGED <<delivered, lost, undone>> /\ \E lines : Commit(a, lines)
    BY <1>10 DEF RequestEnds
  <2>2. /\ \A m \in Mails : mail'[m] = IF m \in Written(a)
                                       THEN Become(mail[m], request[a].row[m]) ELSE mail[m]
        /\ \A b \in Admins \ {a} : request'[b] = Touched(b, Written(a))
    BY <2>1 DEF Commit
  <2>3. \A b \in Admins \ {a} : request'[b].smtp = request[b].smtp
    <3>1. \A b \in Admins : "smtp" \in DOMAIN request[b]
      BY DEF IInv, TypeOK, Request
    <3>2. \A b \in Admins : Touched(b, Written(a)).smtp = request[b].smtp
      BY <3>1 DEF Touched
    <3> QED
      BY <2>2, <3>2
  <2>4. ASSUME NEW m \in Mails, DoneWith(m) PROVE DoneWith(m)'
    <3>1. CASE m \in request[a].smtp
      <4>1. m \in Written(a) /\ request[a].row[m] \in {"sent", "gone"}
        BY <3>1, SmtpIsFailed
      <4>2. mail[m] \in Mail
        BY DEF IInv, TypeOK
      <4>3. Become(mail[m], request[a].row[m]).state = request[a].row[m]
        BY <4>1, <4>2, BecomeIsMail DEF Terminal
      <4> QED
        BY <2>2, <4>1, <4>3 DEF DoneWith
    <3>2. CASE \E b \in Admins \ {a} : m \in request[b].smtp
      BY <2>3, <3>2 DEF DoneWith
    <3>3. CASE mail[m].state \in {"sent", "gone"}
      <4>1. m \notin Written(a)
        BY <3>3 DEF IInv, Sound, RowsOf, Written, FailedMails, Failed
      <4> QED
        BY <2>2, <3>3, <4>1 DEF DoneWith
    <3> QED
      BY <2>4, <3>1, <3>2, <3>3 DEF DoneWith
  <2> QED
    BY <2>1, <2>4, Quiet
<1>11. CASE RequestClashes(a) \/ RequestCrashes(a)
  BY <1>11, Forgets DEF RequestClashes, RequestCrashes
<1> QED
  BY <1>2, <1>3, <1>4, <1>5, <1>6, <1>7, <1>8, <1>9, <1>10, <1>11 DEF Requests

LEMMA HistoryBox ==
  ASSUME IInv, History
  PROVE  Box!Next
<1>1. ASSUME NEW m \in Mails, NEW content \in Contents, NEW auto_delete \in BOOLEAN,
             Create(m, content, auto_delete)
      PROVE  Box!Next
  <2>1. mail[m].state = "absent" /\ \A n \in Mails \ {m} : mail'[n] = mail[n]
    BY <1>1 DEF Create, IInv, TypeOK
  <2>2. UNCHANGED <<request, delivered, lost, undone>>
    BY <1>1 DEF Create
  <2>3. ~DoneWith(m)
    BY <2>1, SmtpIsFailed DEF DoneWith, Failed
  <2>4. \A n \in Mails : DoneWith(n) => DoneWith(n)'
    BY <2>1, <2>2, <2>3 DEF DoneWith
  <2> QED
    BY <2>2, <2>4, Quiet
<1>2. ASSUME NEW ms \in SUBSET Mails, AskToDelete(ms) PROVE Box!Next
  <2>1. /\ \A m \in ms : ~Locked(m)
        /\ Touch(ms) /\ UNCHANGED <<delivered, lost, undone>>
    BY <1>2 DEF AskToDelete
  <2>2. \A m \in Mails \ ms : mail'[m] = mail[m]
    BY <1>2 DEF AskToDelete
  <2>3. ASSUME NEW m \in ms PROVE mail'[m].state = mail[m].state
    <3> DEFINE asked == AskedToDelete(mail[m])
    <3>1. asked \in Mail /\ asked.state = mail[m].state
      BY AskedIsMail DEF IInv, TypeOK
    <3>2. mail'[m] = [asked EXCEPT !.age = 0]
      BY <1>2 DEF AskToDelete
    <3> HIDE DEF asked
    <3> QED
      BY <3>1, <3>2 DEF Mail
  <2> QED
    BY <2>1, <2>2, <2>3, QuietOutside
<1>3. CASE Purge
  <2>1. PICK ms \in Capped(Victims, PurgeCap) :
          /\ mail' = [m \in Mails |-> IF m \in ms THEN Nothing("gone") ELSE mail[m]]
          /\ Touch(ms)
    BY <1>3 DEF Purge
  <2>2. ms \subseteq Victims /\ Victims \subseteq Mails
    BY <2>1, CappedIsWithin DEF Victims
  <2>3. (\A m \in ms : ~Locked(m)) /\ UNCHANGED <<delivered, lost, undone>>
    BY <1>3, <2>2 DEF Purge
  <2>4. /\ \A m \in Mails \ ms : mail'[m] = mail[m]
        /\ \A m \in ms : mail'[m].state = "gone"
    BY <2>1, <2>2 DEF Nothing
  <2> QED
    BY <2>1, <2>2, <2>3, <2>4, QuietOutside
<1>4. ASSUME NEW p \in Settings, SaveSettings(p) PROVE Box!Next
  <2>1. \A m \in Mails : DoneWith(m) => DoneWith(m)'
    BY <1>4 DEF SaveSettings, DoneWith
  <2> QED
    BY <1>4, <2>1, Quiet DEF SaveSettings
<1> QED
  BY <1>1, <1>2, <1>3, <1>4 DEF History

\* a mail whose state is set
LEMMA SetFields ==
  ASSUME IInv, NEW m \in Mails, NEW state \in {"gone", Pending} \cup Terminal, Set(m, state)
  PROVE  /\ ~Locked(m) /\ Touch({m}) /\ mail'[m].state = state
         /\ \A n \in Mails \ {m} : mail'[n] = mail[n]
         /\ \A a \in Admins : request'[a].smtp = request[a].smtp
         /\ mail[m].state # Failed => \A a \in Admins : m \notin request[a].smtp
<1>1. mail[m] \in Mail /\ mail' = [mail EXCEPT ![m] = Become(mail[m], state)]
  BY DEF Set, IInv, TypeOK
<1>2. Become(mail[m], state).state = state
  BY <1>1, BecomeIsMail
<1>3. mail'[m].state = state /\ \A n \in Mails \ {m} : mail'[n] = mail[n]
  BY <1>1, <1>2 DEF IInv, TypeOK
<1>4. ~Locked(m) /\ Touch({m})
  BY DEF Set
<1>5. \A a \in Admins : request'[a].smtp = request[a].smtp
  BY <1>4 DEF Touch, Touched, IInv, TypeOK, Request
<1>6. \A a \in Admins : m \notin request[a].smtp
  BY <1>4, SmtpIsFailed
<1> QED
  BY <1>3, <1>4, <1>5, <1>6

LEMMA CoreBox ==
  ASSUME IInv, Core
  PROVE  Box!Next
<1>1. ASSUME NEW m \in Mails, QueueSends(m) PROVE Box!Next
  <2>1. mail[m].state = Pending
    BY <1>1 DEF QueueSends
  <2>2. CASE /\ \E state \in Outcomes(m, TRUE) : Set(m, state)
             /\ delivered' = [delivered EXCEPT ![m] = @ + 1]
             /\ UNCHANGED <<lost, undone>>
    <3>1. PICK state \in Outcomes(m, TRUE) : Set(m, state)
      BY <2>2
    <3>2. state \in {"sent", "gone"}
      BY <3>1 DEF Outcomes
    <3>3. /\ mail'[m].state = state /\ \A n \in Mails \ {m} : mail'[n] = mail[n]
          /\ \A a \in Admins : request'[a].smtp = request[a].smtp
          /\ \A a \in Admins : m \notin request[a].smtp
      BY <2>1, <3>1, <3>2, SetFields DEF Terminal, Pending, Failed
    <3>4. /\ ~DoneWith(m) /\ DoneWith(m)'
          /\ \A n \in Mails \ {m} : DoneWith(n)' <=> DoneWith(n)
      BY <2>1, <3>2, <3>3 DEF DoneWith, Pending
    <3> QED
      BY <2>2, <3>4, Delivers
  <2>3. CASE (\E state \in Outcomes(m, FALSE) : Set(m, state)) /\ Uncounted
    <3>1. PICK state \in Outcomes(m, FALSE) : Set(m, state)
      BY <2>3
    <3>2. state \in {"gone", Pending} \cup Terminal
      BY <3>1 DEF Outcomes, Terminal, Failed
    <3>3. /\ \A n \in {m} : ~Locked(n)
          /\ Touch({m}) /\ \A n \in Mails \ {m} : mail'[n] = mail[n]
      BY <3>1, <3>2, SetFields
    <3>4. \A n \in {m} : mail[n].state \in {"sent", "gone"}
                           => mail'[n].state \in {"sent", "gone"}
      BY <2>1 DEF Pending
    <3> QED
      BY <2>3, <3>3, <3>4, QuietOutside DEF Uncounted
  <2> QED
    BY <1>1, <2>2, <2>3 DEF QueueSends
<1>2. ASSUME NEW m \in Mails, QueueForgets(m) PROVE Box!Next
  <2>1. mail[m].state = Pending /\ CountLost(m)
    BY <1>2 DEF QueueForgets
  <2>2. ~DoneWith(m)
    BY <2>1, SmtpIsFailed DEF DoneWith, Pending, Failed
  <2>3. CASE Set(m, Failed)
    <3>1. /\ mail'[m].state = Failed /\ \A n \in Mails \ {m} : mail'[n] = mail[n]
          /\ \A a \in Admins : request'[a].smtp = request[a].smtp
      BY <2>3, SetFields DEF Terminal, Failed
    <3>2. \A n \in Mails : DoneWith(n)' <=> DoneWith(n)
      BY <2>2, <3>1 DEF DoneWith, Failed
    <3> QED
      BY <2>1, <2>2, <3>2, DeliversUnnoticed
  <2>4. CASE UNCHANGED <<mail, param, screen, request>>
    <3>1. \A n \in Mails : DoneWith(n)' <=> DoneWith(n)
      BY <2>4 DEF DoneWith
    <3> QED
      BY <2>1, <2>2, <3>1, DeliversUnnoticed
  <2> QED
    BY <1>2, <2>3, <2>4 DEF QueueForgets
<1>3. ASSUME NEW m \in Mails, RetryButton(m) \/ CancelButton(m) \/ DeleteByHand(m)
      PROVE  Box!Next
  <2>1. PICK state \in {"gone", Pending} \cup Terminal :
          /\ Set(m, state)
          /\ mail[m].state \in {"sent", "gone"} => state = "gone"
    BY <1>3 DEF RetryButton, CancelButton, DeleteByHand, Terminal, Pending, Failed
  <2>2. UNCHANGED <<delivered, lost, undone>>
    BY <1>3 DEF RetryButton, CancelButton, DeleteByHand, Uncounted
  <2>3. /\ \A n \in {m} : ~Locked(n)
        /\ Touch({m}) /\ \A n \in Mails \ {m} : mail'[n] = mail[n]
        /\ mail'[m].state = state
    BY <2>1, SetFields
  <2>4. \A n \in {m} : mail[n].state \in {"sent", "gone"}
                         => mail'[n].state \in {"sent", "gone"}
    BY <2>1, <2>3
  <2> QED
    BY <2>2, <2>3, <2>4, QuietOutside
<1>4. CASE NextDay
  <2>1. \A m \in Mails : mail'[m].state = mail[m].state
    BY <1>4 DEF NextDay, IInv, TypeOK, Mail
  <2>2. UNCHANGED <<request, delivered, lost, undone>>
    BY <1>4 DEF NextDay
  <2>3. \A m \in Mails : DoneWith(m) => DoneWith(m)'
    BY <2>1, <2>2 DEF DoneWith
  <2> QED
    BY <2>2, <2>3, Quiet
<1> QED
  BY <1>1, <1>2, <1>3, <1>4 DEF Core

\* Every step of screens, queue, history and buttons is a step of the mailbox.
THEOREM QueueIsMailbox == Spec => IsMailbox
<1>1. Init => Box!Init
  <2> SUFFICES ASSUME Init PROVE Box!Init
    OBVIOUS
  <2>1. \A m \in Mails : ~DoneWith(m)
    BY DEF Init, DoneWith, Nothing, NoRequest, Opened
  <2>2. [m \in Mails |-> lost[m] + undone[m]] = [m \in Mails |-> 0]
    BY DEF Init
  <2> QED
    BY <2>1, <2>2 DEF Init, Box!Init
<1>2. IInv /\ [Next]_vars => [Box!Next]_(Box!vars)
  <2> SUFFICES ASSUME IInv, [Next]_vars PROVE [Box!Next]_(Box!vars)
    OBVIOUS
  <2>1. CASE UNCHANGED vars
    BY <2>1 DEF vars, Box!vars, DoneWith
  <2> QED
    BY <2>1, ScreensBox, RequestsBox, HistoryBox, CoreBox DEF Next
<1> QED
  BY <1>1, <1>2, Invariance, PTL DEF Spec, IsMailbox, Box!Spec

\* The mailbox keeps its promise: it delivers once, and once more for each delivery that
\* was forgotten, whatever its mails, deliveries and oblivion stand for (OnceEach of
\* Mailbox).
THEOREM DeliversOnceEach == Box!Spec => []Box!Inv
<1>1. Box!Init => Box!Inv
  BY DEF Box!Init, Box!Inv, Box!OnceEach
<1>2. Box!Inv /\ [Box!Next]_(Box!vars) => Box!Inv'
  <2> SUFFICES ASSUME Box!Inv, [Box!Next]_(Box!vars) PROVE Box!Inv'
    OBVIOUS
  <2> DEFINE done == {m \in Mails : DoneWith(m)}
             forgotten == [m \in Mails |-> lost[m] + undone[m]]
             Once(m) == delivered[m] <= forgotten[m] + (IF m \in done THEN 1 ELSE 0)
  <2>1. /\ delivered \in [Mails -> Nat] /\ forgotten \in [Mails -> Nat]
        /\ \A m \in Mails : Once(m)
    BY DEF Box!Inv, Box!OnceEach
  <2>2. SUFFICES /\ delivered' \in [Mails -> Nat] /\ forgotten' \in [Mails -> Nat]
                 /\ \A m \in Mails : Once(m)'
    BY DEF Box!Inv, Box!OnceEach
  <2>3. \/ \E m \in Mails : Box!Deliver(m) \/ Box!DeliverUnnoticed(m)
        \/ \E ms \in SUBSET Mails : Box!GiveUp(ms) \/ Box!Forget(ms)
        \/ done' = done /\ delivered' = delivered /\ forgotten' = forgotten
    BY DEF Box!Next, Box!vars
  <2> HIDE DEF done, forgotten
  <2>4. ASSUME NEW m \in Mails, Box!Deliver(m)
        PROVE  m \notin done /\ done' = done \cup {m} /\ forgotten' = forgotten
               /\ delivered' = [delivered EXCEPT ![m] = @ + 1]
    BY <2>4 DEF Box!Deliver, done, forgotten
  <2>5. ASSUME NEW m \in Mails, Box!DeliverUnnoticed(m)
        PROVE  m \notin done /\ done' = done
               /\ delivered' = [delivered EXCEPT ![m] = @ + 1]
               /\ forgotten' = [forgotten EXCEPT ![m] = @ + 1]
    BY <2>5 DEF Box!DeliverUnnoticed, done, forgotten
  <2>6. ASSUME NEW ms \in SUBSET Mails, Box!GiveUp(ms)
        PROVE  done' = done \cup ms /\ delivered' = delivered /\ forgotten' = forgotten
    BY <2>6 DEF Box!GiveUp, done, forgotten
  <2>7. ASSUME NEW ms \in SUBSET Mails, Box!Forget(ms)
        PROVE  /\ ms \subseteq done /\ done' = done \ ms /\ delivered' = delivered
               /\ forgotten' = [m \in Mails |-> IF m \in ms THEN forgotten[m] + 1 ELSE forgotten[m]]
    BY <2>7 DEF Box!Forget, done, forgotten
  <2>8. CASE \E m \in Mails : Box!Deliver(m)
    BY <2>1, <2>4, <2>8
  <2>9. CASE \E m \in Mails : Box!DeliverUnnoticed(m)
    BY <2>1, <2>5, <2>9
  <2>10. CASE \E ms \in SUBSET Mails : Box!GiveUp(ms)
    BY <2>1, <2>6, <2>10
  <2>11. CASE \E ms \in SUBSET Mails : Box!Forget(ms)
    BY <2>1, <2>7, <2>11
  <2>12. CASE done' = done /\ delivered' = delivered /\ forgotten' = forgotten
    BY <2>1, <2>12
  <2> QED
    BY <2>3, <2>8, <2>9, <2>10, <2>11, <2>12
<1> QED
  BY <1>1, <1>2, PTL DEF Box!Spec

\* A mail is delivered once, and once more for each delivery that was forgotten.
THEOREM MailsAreDeliveredOnce == Spec => []DeliveredOnce
<1>1. IsMailbox => []Box!Inv
  BY DeliversOnceEach DEF IsMailbox
<1>2. IInv /\ Box!Inv => DeliveredOnce
  <2> SUFFICES ASSUME IInv, Box!Inv, NEW m \in Mails
               PROVE  delivered[m] <= 1 + lost[m] + undone[m]
    BY DEF DeliveredOnce
  <2> DEFINE forgotten == [n \in Mails |-> lost[n] + undone[n]]
             done == {n \in Mails : DoneWith(n)}
  <2>1. delivered \in [Mails -> Nat] /\ forgotten \in [Mails -> Nat]
    BY DEF Box!Inv
  <2>2. delivered[m] <= forgotten[m] + (IF m \in done THEN 1 ELSE 0)
    BY DEF Box!Inv, Box!OnceEach
  <2>3. forgotten[m] = lost[m] + undone[m]
    OBVIOUS
  <2> HIDE DEF forgotten, done
  <2>4. delivered[m] <= forgotten[m] + 1
    BY <2>1, <2>2
  <2>5. lost[m] \in Nat /\ undone[m] \in Nat
    BY DEF IInv, TypeOK
  <2> QED
    BY <2>3, <2>4, <2>5
<1> QED
  BY <1>1, <1>2, Invariance, QueueIsMailbox, PTL

-----------------------------------------------------------------------------
(* The history.  What a mail was when its auto-delete was decided, a request *)
(* that has processed it still holds: nobody writes to a row it has locked.  *)

NeverKept(r) == r.content \in Secret => ~r.kept

Fits(state, r) ==
  /\ state = "sent" => ~r.auto_delete
  /\ state = "gone" => r.auto_delete

HInv ==
  /\ \A m \in Mails : NeverKept(mail[m])
  /\ \A a \in Admins, m \in Mails : Fits(request[a].row[m], mail[m])

\* what a step may do to a mail
May(m) ==
  /\ NeverKept(mail'[m])
  /\ mail[m].auto_delete /\ mail'[m].state = "sent" => mail[m].state = "sent"
  /\ m \notin Manual /\ Exists(m) /\ ~mail[m].auto_delete /\ mail'[m].state = "gone"
       => /\ mail[m].kept /\ mail[m].state # Pending
          /\ Retention(param) > 0 /\ mail[m].age > Retention(param)

LEMMA SameMay ==
  ASSUME HInv, NEW m \in Mails, mail'[m] = mail[m]
  PROVE  May(m)
BY DEF May, HInv, Exists

LEMMA BecomeMay ==
  ASSUME IInv, HInv, NEW m \in Mails, NEW state \in {"gone", Pending} \cup Terminal,
         mail'[m] = Become(mail[m], state),
         Fits(state, mail[m]) \/ (state = "gone" /\ m \in Manual)
  PROVE  May(m)
<1>1. mail[m] \in Mail /\ NeverKept(mail[m])
  BY DEF IInv, TypeOK, HInv
<1>2. CASE state = "gone"
  <2>1. mail'[m] = Nothing("gone")
    BY <1>2 DEF Become
  <2>2. mail'[m].state = "gone" /\ NeverKept(mail'[m])
    BY <2>1 DEF Nothing, NeverKept
  <2> QED
    BY <1>2, <2>2 DEF May, Fits
<1>3. CASE state # "gone"
  <2>1. mail'[m] = [mail[m] EXCEPT !.state = state, !.age = 0]
    BY <1>3 DEF Become
  <2>2. /\ mail'[m].state = state /\ mail'[m].content = mail[m].content
        /\ mail'[m].kept = mail[m].kept
    BY <1>1, <2>1 DEF Mail
  <2> QED
    BY <1>1, <1>3, <2>2 DEF May, Fits, NeverKept
<1> QED
  BY <1>2, <1>3

\* a step of one request that commits nothing
LEMMA WithinHolds ==
  ASSUME IInv, HInv, NEW a \in Admins, NEW r, Within(a, r),
         \A m \in Mails : Fits(r.row[m], mail[m])
  PROVE  HInv' /\ \A m \in Mails : May(m)
<1>1. mail' = mail /\ request' = [request EXCEPT ![a] = r]
  BY DEF Within
<1>2. request'[a] = r /\ \A b \in Admins \ {a} : request'[b] = request[b]
  BY <1>1 DEF IInv, TypeOK
<1>3. \A b \in Admins, m \in Mails : Fits(request'[b].row[m], mail'[m])
  BY <1>1, <1>2 DEF HInv
<1> QED
  BY <1>1, <1>3, SameMay DEF HInv, Fits, NeverKept

\* a step that changes the mails ms, which nobody holds
LEMMA OthersHold ==
  ASSUME IInv, HInv, NEW ms \in SUBSET Mails, \A m \in ms : ~Locked(m),
         \A m \in Mails \ ms : mail'[m] = mail[m], \A m \in ms : May(m),
         \A a \in Admins : request'[a].row = request[a].row
  PROVE  HInv' /\ \A m \in Mails : May(m)
<1>1. \A m \in Mails : May(m)
  BY SameMay
<1>2. \A a \in Admins, m \in ms : request[a].row[m] = "untouched"
  BY DEF Locked, Written
<1>3. \A a \in Admins, m \in Mails : Fits(request'[a].row[m], mail'[m])
  BY <1>2 DEF HInv, Fits
<1> QED
  BY <1>1, <1>3 DEF HInv, May, Fits, NeverKept

LEMMA TouchKeepsRows ==
  ASSUME IInv, NEW ms, Touch(ms)
  PROVE  \A a \in Admins : request'[a].row = request[a].row
BY DEF Touch, Touched, IInv, TypeOK, Request

LEMMA SetHolds ==
  ASSUME IInv, HInv, NEW m \in Mails, NEW state \in {"gone", Pending} \cup Terminal,
         Set(m, state), Fits(state, mail[m]) \/ (state = "gone" /\ m \in Manual)
  PROVE  HInv' /\ \A n \in Mails : May(n)
<1>1. mail'[m] = Become(mail[m], state) /\ \A n \in Mails \ {m} : mail'[n] = mail[n]
  BY DEF Set, IInv, TypeOK
<1>2. May(m)
  BY <1>1, BecomeMay
<1>3. ~Locked(m) /\ \A a \in Admins : request'[a].row = request[a].row
  BY TouchKeepsRows DEF Set
<1> DEFINE ms == {m}
<1>4. /\ ms \in SUBSET Mails /\ \A n \in ms : ~Locked(n) /\ May(n)
      /\ \A n \in Mails \ ms : mail'[n] = mail[n]
  BY <1>1, <1>2, <1>3
<1> HIDE DEF ms
<1> QED
  BY <1>3, <1>4, OthersHold

\* a state that is not the end of a mail fits every mail
LEMMA OpenFits ==
  ASSUME NEW r, NEW state \in {"untouched", Pending, Failed, "cancel"}
  PROVE  Fits(state, r)
BY DEF Fits, Pending, Failed

LEMMA OutcomeFits ==
  ASSUME NEW m \in Mails, IInv, NEW taken \in BOOLEAN, NEW state \in Outcomes(m, taken)
  PROVE  Fits(state, mail[m]) /\ state \in {"sent", "gone", Failed}
BY DEF Outcomes, Fits, Failed, IInv, TypeOK, Mail

\* a request writes some rows
LEMMA WroteFits ==
  ASSUME IInv, HInv, NEW a \in Admins, NEW ms \in SUBSET Mails, NEW state \in Row,
         \A m \in ms : Fits(state, mail[m])
  PROVE  LET r == Wrote(request[a], ms, state)
         IN  r \in Request /\ \A m \in Mails : Fits(r.row[m], mail[m])
<1> DEFINE r == request[a]
           w == Wrote(r, ms, state)
<1>1. r \in Request /\ \A m \in Mails : Fits(r.row[m], mail[m])
  BY DEF IInv, TypeOK, HInv
<1> HIDE DEF r
<1>2. w \in Request /\ \A m \in Mails : w.row[m] = IF m \in ms THEN state ELSE r.row[m]
  BY <1>1 DEF Wrote, Request
<1> HIDE DEF w
<1>3. \A m \in Mails : Fits(w.row[m], mail[m])
  BY <1>1, <1>2
<1> QED
  BY <1>2, <1>3 DEF w, r

LEMMA OneHolds ==
  ASSUME IInv, HInv, NEW a \in Admins, NEW m \in Mails, NEW r \in Request,
         \A n \in Mails : Fits(r.row[n], mail[n]), Within(a, Done(r, m))
  PROVE  HInv' /\ \A n \in Mails : May(n)
<1>1. Done(r, m).row = r.row
  BY DoneFields
<1> QED
  BY <1>1, WithinHolds

LEMMA ScreensHold ==
  ASSUME IInv, HInv, NEW a \in Admins, Screens(a)
  PROVE  HInv' /\ \A m \in Mails : May(m)
<1>1. CASE mail' = mail /\ request' = request
  BY <1>1, SameMay DEF HInv, Fits, NeverKept
<1>2. ASSUME NEW pc, NEW ms, Begin(a, pc, ms)
      PROVE  HInv' /\ \A m \in Mails : May(m)
  <2> DEFINE r == Opened(IF Eligible(ms) = {} THEN "ending" ELSE pc,
                         Eligible(ms), FailedMails \cap Scope(a), Shown(a))
  <2>1. Within(a, r)
    BY <1>2 DEF Begin, Within
  <2>2. \A m \in Mails : r.row[m] = "untouched"
    BY DEF Opened
  <2> HIDE DEF r
  <2> QED
    BY <2>1, <2>2, OpenFits, WithinHolds
<1> QED
  BY <1>1, <1>2
  DEF Screens, OpenScreen, Refresh, RetrySelected, RetrySince, CancelSelected

LEMMA RequestEndsHolds ==
  ASSUME IInv, HInv, NEW a \in Admins, RequestEnds(a)
  PROVE  HInv' /\ \A m \in Mails : May(m)
<1>1. PICK lines : Commit(a, lines)
  BY DEF RequestEnds
<1>2. \A m \in Mails : mail'[m] = IF m \in Written(a)
                                  THEN Become(mail[m], request[a].row[m]) ELSE mail[m]
  BY <1>1 DEF Commit
<1>3. ASSUME NEW m \in Mails PROVE May(m)
  <2>1. CASE m \in Written(a)
    <3>1. request[a].row[m] \in {"gone", Pending} \cup Terminal
      BY <2>1 DEF Written, IInv, TypeOK, Request, Row
    <3> QED
      BY <1>2, <2>1, <3>1, BecomeMay DEF HInv
  <2>2. CASE m \notin Written(a)
    BY <1>2, <2>2, SameMay
  <2> QED
    BY <2>1, <2>2
<1>4. ASSUME NEW b \in Admins, NEW m \in Mails
      PROVE  Fits(request'[b].row[m], mail'[m])
  <2>1. CASE b = a
    <3>1. request'[b].row[m] = "untouched"
      BY <1>1, <2>1 DEF Commit, NoRequest, Opened
    <3> QED
      BY <3>1, OpenFits
  <2>2. CASE b # a
    <3>1. request'[b].row = request[b].row
      BY <1>1, <2>2 DEF Commit, Touched, IInv, TypeOK, Request
    <3>2. CASE m \in Written(b)
      <4>1. mail'[m] = mail[m]
        BY <1>2, <2>2, <3>2 DEF IInv, Exclusive
      <4> QED
        BY <3>1, <4>1 DEF HInv
    <3>3. CASE m \notin Written(b)
      <4>1. request'[b].row[m] = "untouched"
        BY <3>1, <3>3 DEF Written
      <4> QED
        BY <4>1, OpenFits
    <3> QED
      BY <3>2, <3>3
  <2> QED
    BY <2>1, <2>2
<1> QED
  BY <1>3, <1>4 DEF HInv, May, Fits, NeverKept

LEMMA RequestsHold ==
  ASSUME IInv, HInv, NEW a \in Admins, Requests(a)
  PROVE  HInv' /\ \A m \in Mails : May(m)
<1> DEFINE r == request[a]
           Holds == HInv' /\ \A m \in Mails : May(m)
<1>0. r \in Request /\ \A m \in Mails : Fits(r.row[m], mail[m])
  BY DEF IInv, TypeOK, HInv
<1>a. Pending \in Row /\ "cancel" \in Row /\ Failed \in Row /\ "sent" \in Row /\ "gone" \in Row
  BY DEF Row, Terminal, Pending, Failed
<1>1. CASE BulkRequeue(a)
  <2> DEFINE w == Wrote(r, r.todo, Pending)
             after == [w EXCEPT !.pc = "requeued", !.todo = {}]
  <2>1. w \in Request /\ \A m \in Mails : Fits(w.row[m], mail[m])
    <3>1. r.todo \in SUBSET Mails
      BY <1>0 DEF Request
    <3> QED
      BY <1>a, <3>1, OpenFits, WroteFits
  <2>2. Within(a, after)
    BY <1>1 DEF BulkRequeue
  <2> HIDE DEF w
  <2>3. after.row = w.row
    BY <2>1 DEF Request
  <2> HIDE DEF after
  <2> QED
    BY <2>1, <2>2, <2>3, WithinHolds
<1>2. CASE BulkFails(a)
  <2>1. PICK after : Within(a, after) /\ after.row = r.row
    BY <1>0, <1>2 DEF BulkFails, Request
  <2> QED
    BY <1>0, <2>1, WithinHolds
<1>3. ASSUME NEW m \in Mails, WriteOne(a, m) PROVE Holds
  <2>1. PICK state \in {Pending, "cancel"} : Within(a, Done(Wrote(r, {m}, state), m))
    BY <1>3 DEF WriteOne
  <2>2. Wrote(r, {m}, state) \in Request
        /\ \A n \in Mails : Fits(Wrote(r, {m}, state).row[n], mail[n])
    BY <1>a, <2>1, OpenFits, WroteFits
  <2> QED
    BY <2>1, <2>2, OneHolds
<1>4. ASSUME NEW m \in Mails, Within(a, Done(r, m)) PROVE Holds
  BY <1>0, <1>4, OneHolds
<1>5. ASSUME NEW m \in Mails, SendTaken(a, m) PROVE Holds
  <2>1. PICK state \in Outcomes(m, TRUE) :
          Within(a, [Done(Wrote(r, {m}, state), m) EXCEPT !.smtp = @ \cup {m}])
    BY <1>5 DEF SendTaken
  <2> DEFINE w == Wrote(r, {m}, state)
             d == Done(w, m)
  <2>2. w \in Request /\ \A n \in Mails : Fits(w.row[n], mail[n])
    BY <1>a, <2>1, OutcomeFits, WroteFits
  <2>3. Within(a, [d EXCEPT !.smtp = @ \cup {m}])
    BY <2>1
  <2> HIDE DEF w
  <2>4. d \in Request /\ d.row = w.row
    BY <2>2, DoneFields
  <2> HIDE DEF d
  <2>5. [d EXCEPT !.smtp = @ \cup {m}].row = w.row
    BY <2>4 DEF Request
  <2> QED
    BY <2>2, <2>3, <2>5, WithinHolds
<1>6. ASSUME NEW m \in Mails, SendRefused(a, m) PROVE Holds
  <2>1. PICK state \in Outcomes(m, FALSE) : Within(a, Done(Wrote(r, {m}, state), m))
    BY <1>6 DEF SendRefused
  <2>2. Wrote(r, {m}, state) \in Request
        /\ \A n \in Mails : Fits(Wrote(r, {m}, state).row[n], mail[n])
    BY <1>a, <2>1, OutcomeFits, WroteFits
  <2> QED
    BY <2>1, <2>2, OneHolds
<1>7. ASSUME NEW m \in Mails, Within(a, Done(Wrote(r, {m}, Failed), m)) PROVE Holds
  <2>1. Wrote(r, {m}, Failed) \in Request
        /\ \A n \in Mails : Fits(Wrote(r, {m}, Failed).row[n], mail[n])
    BY <1>a, OpenFits, WroteFits
  <2> QED
    BY <1>7, <2>1, OneHolds
<1>8. ASSUME NEW now \in SUBSET Mails, ChooseSend(a, now) PROVE Holds
  <2> DEFINE after == [r EXCEPT !.pc = IF now = {} THEN "ending" ELSE "sending",
                                !.todo = now]
  <2>1. Within(a, after)
    BY <1>8 DEF ChooseSend
  <2>2. after.row = r.row
    BY <1>0 DEF Request
  <2> HIDE DEF after
  <2> QED
    BY <1>0, <2>1, <2>2, WithinHolds
<1>9. CASE Within(a, NoRequest)
  <2>1. \A m \in Mails : NoRequest.row[m] = "untouched"
    BY DEF NoRequest, Opened
  <2> QED
    BY <1>9, <2>1, OpenFits, WithinHolds
<1> QED
  BY <1>1, <1>2, <1>3, <1>4, <1>5, <1>6, <1>7, <1>8, <1>9, RequestEndsHolds
  DEF Requests, SkipOne, SendRaises, SendForgotten, RequestClashes, RequestCrashes

\* A mail with credentials keeps its auto-delete and is not kept, whatever the
\* history is set to.
LEMMA AskedFields ==
  ASSUME NEW r \in Mail, NeverKept(r)
  PROVE  NeverKept(AskedToDelete(r))
         /\ AskedToDelete(r) \in Mail /\ AskedToDelete(r).state = r.state
<1>1. AskedToDelete(r) \in Mail /\ AskedToDelete(r).state = r.state
  BY AskedIsMail
<1>2. AskedToDelete(r).content = r.content
  BY DEF AskedToDelete, Mail
<1>3. ASSUME r.content \in Secret PROVE ~AskedToDelete(r).kept
  <2>1. AskedToDelete(r) = [r EXCEPT !.auto_delete = TRUE]
    BY <1>3 DEF AskedToDelete, Skip
  <2>2. ~r.kept
    BY <1>3 DEF NeverKept
  <2> QED
    BY <2>1, <2>2 DEF Mail
<1> QED
  BY <1>1, <1>2, <1>3 DEF NeverKept

LEMMA HistoryHolds ==
  ASSUME IInv, HInv, History
  PROVE  HInv' /\ \A m \in Mails : May(m)
<1>1. ASSUME NEW m \in Mails, NEW content \in Contents, NEW auto_delete \in BOOLEAN,
             Create(m, content, auto_delete)
      PROVE  HInv' /\ \A n \in Mails : May(n)
  <2> DEFINE r == [Nothing(Pending) EXCEPT !.content = content]
             new == IF auto_delete THEN AskedToDelete(r) ELSE r
  <2>1. r \in Mail /\ r.state = Pending /\ ~r.kept
    <3> DEFINE none == Nothing(Pending)
    <3>1. none \in Mail /\ none.state = Pending /\ ~none.kept
      BY ConstantsAssumption DEF Nothing, Mail
    <3> HIDE DEF none
    <3>2. LET w == [none EXCEPT !.content = content]
          IN  w \in Mail /\ w.state = Pending /\ ~w.kept
      BY <3>1 DEF Mail
    <3> QED
      BY <3>2 DEF none
  <2> HIDE DEF r
  <2>2. new.state = Pending /\ NeverKept(new)
    BY <2>1, AskedFields DEF NeverKept
  <2>3. mail[m].state = "absent" /\ mail' = [mail EXCEPT ![m] = new] /\ request' = request
    BY <1>1 DEF Create, r
  <2> HIDE DEF new
  <2>4. mail'[m] = new /\ \A n \in Mails \ {m} : mail'[n] = mail[n]
    BY <2>3 DEF IInv, TypeOK
  <2>5. May(m)
    BY <2>2, <2>3, <2>4 DEF May, Pending, Exists
  <2>6. ~Locked(m)
    BY <2>3 DEF IInv, Locked, Sound, Written, RowsOf, FailedMails, Failed
  <2> DEFINE ms == {m}
  <2>7. /\ ms \in SUBSET Mails /\ \A n \in ms : ~Locked(n) /\ May(n)
        /\ \A n \in Mails \ ms : mail'[n] = mail[n]
    BY <2>4, <2>5, <2>6
  <2> HIDE DEF ms
  <2> QED
    BY <2>3, <2>7, OthersHold
<1>2. ASSUME NEW ms \in SUBSET Mails, AskToDelete(ms)
      PROVE  HInv' /\ \A m \in Mails : May(m)
  <2>1. ASSUME NEW m \in ms PROVE May(m)
    <3> DEFINE asked == AskedToDelete(mail[m])
    <3>1. NeverKept(asked) /\ asked \in Mail /\ asked.state = mail[m].state
      BY AskedFields DEF IInv, TypeOK, HInv
    <3>2. mail'[m] = [asked EXCEPT !.age = 0]
      BY <1>2 DEF AskToDelete
    <3> HIDE DEF asked
    <3>3. mail'[m].state = mail[m].state /\ NeverKept(mail'[m])
      BY <3>1, <3>2 DEF Mail, NeverKept
    <3> QED
      BY <3>3 DEF May, Exists
  <2>2. \A m \in Mails \ ms : mail'[m] = mail[m]
    BY <1>2 DEF AskToDelete
  <2>3. (\A m \in ms : ~Locked(m)) /\ \A a \in Admins : request'[a].row = request[a].row
    BY <1>2, TouchKeepsRows DEF AskToDelete
  <2> QED
    BY <2>1, <2>2, <2>3, OthersHold
<1>3. CASE Purge
  <2>1. PICK ms \in Capped(Victims, PurgeCap) :
          /\ mail' = [m \in Mails |-> IF m \in ms THEN Nothing("gone") ELSE mail[m]]
          /\ Touch(ms)
    BY <1>3 DEF Purge
  <2>2. ms \subseteq Victims /\ Victims \subseteq Mails /\ \A m \in ms : ~Locked(m)
    BY <1>3, <2>1, CappedIsWithin DEF Purge, Victims
  <2>3. Retention(param) \in Int
    BY ConstantsAssumption DEF IInv, TypeOK, Retention
  <2>4. Retention(param) > 0 /\ Days(param) = Retention(param)
    BY <1>3, <2>3 DEF Purge, Days
  <2>5. ASSUME NEW m \in ms PROVE May(m)
    <3>1. mail'[m] = Nothing("gone")
      BY <2>1, <2>2
    <3>2. mail'[m].state = "gone" /\ NeverKept(mail'[m])
      BY <3>1 DEF Nothing, NeverKept
    <3>3. /\ mail[m].kept /\ mail[m].state # Pending
          /\ mail[m].age > Retention(param)
      BY <2>2, <2>4 DEF Victims, Terminal, Pending
    <3> QED
      BY <2>4, <3>2, <3>3 DEF May
  <2>6. \A m \in Mails \ ms : mail'[m] = mail[m]
    BY <2>1
  <2> QED
    BY <2>1, <2>2, <2>5, <2>6, TouchKeepsRows, OthersHold
<1>4. ASSUME NEW p \in Settings, SaveSettings(p)
      PROVE  HInv' /\ \A m \in Mails : May(m)
  BY <1>4, SameMay DEF SaveSettings, HInv, Fits, NeverKept
<1> QED
  BY <1>1, <1>2, <1>3, <1>4 DEF History

LEMMA CoreHolds ==
  ASSUME IInv, HInv, Core
  PROVE  HInv' /\ \A m \in Mails : May(m)
<1> DEFINE Holds == HInv' /\ \A m \in Mails : May(m)
<1>1. ASSUME NEW m \in Mails, NEW state \in {Pending, Failed, "cancel"}, Set(m, state)
      PROVE  Holds
  BY <1>1, OpenFits, SetHolds DEF Terminal, Failed
<1>2. ASSUME NEW m \in Mails, NEW taken \in BOOLEAN, NEW state \in Outcomes(m, taken),
             Set(m, state)
      PROVE  Holds
  BY <1>2, OutcomeFits, SetHolds DEF Terminal, Failed
<1>3. CASE UNCHANGED <<mail, param, screen, request>>
  BY <1>3, SameMay DEF HInv, Fits, NeverKept
<1>4. ASSUME NEW m \in Mails, DeleteByHand(m) PROVE Holds
  BY <1>4, SetHolds DEF DeleteByHand
<1>5. CASE NextDay
  <2>1. ASSUME NEW m \in Mails
        PROVE  /\ mail'[m].state = mail[m].state /\ mail'[m].content = mail[m].content
               /\ mail'[m].kept = mail[m].kept
               /\ mail'[m].auto_delete = mail[m].auto_delete
    <3>1. mail[m] \in Mail
      BY DEF IInv, TypeOK
    <3> QED
      BY <1>5, <3>1 DEF NextDay, Mail
  <2>2. request' = request
    BY <1>5 DEF NextDay
  <2>3. \A m \in Mails : May(m)
    BY <2>1 DEF May, HInv, NeverKept, Exists
  <2> QED
    BY <2>1, <2>2, <2>3 DEF HInv, Fits, NeverKept
<1>6. ASSUME NEW m \in Mails,
             \/ QueueSends(m) \/ QueueForgets(m) \/ RetryButton(m) \/ CancelButton(m)
      PROVE  Holds
  BY <1>1, <1>2, <1>3, <1>6 DEF QueueSends, QueueForgets, RetryButton, CancelButton
<1> QED
  BY <1>4, <1>5, <1>6 DEF Core

LEMMA HistoryStepByStep ==
  IInv /\ HInv /\ [Next]_vars => HInv' /\ \A m \in Mails : May(m)
<1> SUFFICES ASSUME IInv, HInv, [Next]_vars
             PROVE  HInv' /\ \A m \in Mails : May(m)
  OBVIOUS
<1>1. CASE UNCHANGED vars
  BY <1>1, SameMay DEF vars, HInv, Fits, NeverKept
<1>2. ASSUME NEW a \in Admins, Screens(a) \/ Requests(a)
      PROVE  HInv' /\ \A m \in Mails : May(m)
  BY <1>2, ScreensHold, RequestsHold
<1> QED
  BY <1>1, <1>2, HistoryHolds, CoreHolds DEF Next

LEMMA HistoryInitially == Init => HInv
BY DEF Init, HInv, Fits, NeverKept, Nothing, NoRequest, Opened

LEMMA HistoryInvariance == Spec => [](IInv /\ HInv)
BY Initially, IInvIsInductive, HistoryInitially, HistoryStepByStep, PTL DEF Spec

\* For any mails, administrators and settings, and whatever the requests and the
\* queue leave half done: no mail with credentials is kept, and one that asked
\* for its deletion is gone when it is sent.
THEOREM CredentialsAlwaysLeave == Spec => CredentialsLeave
<1>1. IInv /\ HInv /\ [Next]_vars =>
        [\A m \in Mails :
           /\ mail'[m].content \in Secret => ~mail'[m].kept
           /\ mail[m].content \in Secret /\ mail[m].auto_delete /\ mail'[m].state = "sent"
                => mail[m].state = "sent"]_vars
  BY HistoryStepByStep DEF May, NeverKept
<1> QED
  BY <1>1, HistoryInvariance, PTL DEF Spec, CredentialsLeave

\* For any retention, also one that is negative, missing or no number: what
\* people keep by hand, and what is pending, no step removes.
THEOREM PurgeAlwaysSpares == Spec => PurgeSpares
<1>1. IInv /\ HInv /\ [Next]_vars =>
        [\A m \in Mails \ Manual :
           Exists(m) /\ ~mail[m].auto_delete /\ mail'[m].state = "gone"
             => /\ mail[m].kept /\ mail[m].state # Pending
                /\ Retention(param) > 0 /\ mail[m].age > Retention(param)]_vars
  BY HistoryStepByStep DEF May
<1> QED
  BY <1>1, HistoryInvariance, PTL DEF Spec, PurgeSpares
=============================================================================
