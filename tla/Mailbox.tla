------------------------------- MODULE Mailbox -------------------------------
(***************************************************************************)
(* What a mail queue promises, whoever sends and however: a mail that is   *)
(* done with is not delivered again, unless it was forgotten that it was.  *)
(***************************************************************************)
EXTENDS Integers

CONSTANT Mails

VARIABLES
  done,       \* the mails that are done with: delivered, or given up
  delivered,  \* [Mails -> Nat]: how often each was delivered
  forgotten   \* [Mails -> Nat]: how many of these nobody remembers

vars == <<done, delivered, forgotten>>

Init ==
  /\ done = {}
  /\ delivered = [m \in Mails |-> 0]
  /\ forgotten = [m \in Mails |-> 0]

Deliver(m) ==
  /\ m \notin done
  /\ done' = done \cup {m}
  /\ delivered' = [delivered EXCEPT ![m] = @ + 1]
  /\ UNCHANGED forgotten

DeliverUnnoticed(m) ==
  /\ m \notin done
  /\ delivered' = [delivered EXCEPT ![m] = @ + 1]
  /\ forgotten' = [forgotten EXCEPT ![m] = @ + 1]
  /\ UNCHANGED done

GiveUp(ms) ==
  /\ done' = done \cup ms
  /\ UNCHANGED <<delivered, forgotten>>

Forget(ms) ==
  /\ ms \subseteq done
  /\ done' = done \ ms
  /\ forgotten' = [m \in Mails |-> IF m \in ms THEN forgotten[m] + 1 ELSE forgotten[m]]
  /\ UNCHANGED delivered

Next ==
  \/ \E m \in Mails : Deliver(m) \/ DeliverUnnoticed(m)
  \/ \E ms \in SUBSET Mails : GiveUp(ms) \/ Forget(ms)

Spec == Init /\ [][Next]_vars

-----------------------------------------------------------------------------
\* Once, and once more for each delivery that was forgotten; a mail that is
\* still to be delivered has only deliveries that were.
OnceEach ==
  \A m \in Mails : delivered[m] <= forgotten[m] + (IF m \in done THEN 1 ELSE 0)

Inv ==
  /\ delivered \in [Mails -> Nat]
  /\ forgotten \in [Mails -> Nat]
  /\ OnceEach
=============================================================================
