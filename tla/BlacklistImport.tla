--------------------------- MODULE BlacklistImport ---------------------------
(***************************************************************************)
(* mail_blacklist_bulk_import: a list of pasted entries is added to the    *)
(* email blacklist or taken off it, and those that failed can be loaded    *)
(* back into the form, fixed and submitted again.  The import is a         *)
(* transaction on a snapshot of the blacklist.                             *)
(***************************************************************************)
EXTENDS Integers, Sequences, FiniteSets

CONSTANTS
  Entries,      \* what may be pasted
  Addresses, Invalid,
  Normal,       \* [Entries -> Addresses \cup {Invalid}]: _validate_address
  Limit,        \* MAX_ADDRESSES
  MaxEntries,   \* bound on the length of the list
  MaxEdits      \* bound on what others do

VARIABLES
  list,         \* [a subset of Addresses -> is it active]: mail.blacklist
  form,
  import,       \* the transaction
  edits

vars == <<list, form, import, edits>>

NoImport == [pc |-> "idle"]
Draft(mode, tokens) == [state |-> "draft", mode |-> mode, tokens |-> tokens]

-----------------------------------------------------------------------------
(* The two passes of action_import *)

Kept(tokens) == SubSeq(tokens, 1, IF Len(tokens) > Limit THEN Limit ELSE Len(tokens))

\* the first entry of each address; the others are duplicates
Emails(kept) ==
  {i \in DOMAIN kept : Normal[kept[i]] # Invalid
     /\ \A j \in 1..i - 1 : Normal[kept[j]] # Normal[kept[i]]}

Nth(is, n) == CHOOSE i \in is : Cardinality({j \in is : j < i}) = n - 1

Rejected(kept) == {i \in DOMAIN kept : Normal[kept[i]] = Invalid}

Active(t, a) == a \in DOMAIN t /\ t[a]

\* mutant: an entry that is already on the list is not looked for
WantedAny(mode, t, a) == mode = "add" \/ Active(t, a)

\* the addresses whose row must change
Wanted(mode, t, a) == Active(t, a) # (mode = "add")

Address(i) == Normal[Kept(form.tokens)[i]]

ToWrite(t) == {i \in Emails(Kept(form.tokens)) : Wanted(form.mode, t, Address(i))}

Fill ==
  /\ form.state = "draft" /\ import.pc = "idle"
  /\ \E mode \in {"add", "remove"}, n \in 1..MaxEntries : \E tokens \in [1..n -> Entries] :
       form' = Draft(mode, tokens)
  /\ UNCHANGED <<list, import, edits>>

ImportStart ==
  /\ form.state = "draft" /\ import.pc = "idle" /\ form.tokens # <<>>
  /\ import' = [pc |-> "running", seen |-> list, touched |-> {}]
  /\ UNCHANGED <<list, form, edits>>

\* TransactionRollbackError: a row that was there has changed since
Conflict ==
  \E i \in ToWrite(import.seen) : Address(i) \in import.touched \cap DOMAIN import.seen

\* one savepoint per written address; one that somebody else created since is refused
ImportCommit ==
  /\ import.pc = "running" /\ ~Conflict
  /\ LET kept == Kept(form.tokens)
         failed == {i \in ToWrite(import.seen) : Address(i) \in import.touched}
         written == ToWrite(import.seen) \ failed
         rows == {Address(i) : i \in written}
         bad == Rejected(kept) \cup failed
     IN  /\ list' = [a \in DOMAIN list \cup rows |->
              IF a \in rows THEN form.mode = "add" ELSE list[a]]
         /\ form' = [state |-> "done", mode |-> form.mode, tokens |-> form.tokens,
              found |-> Len(form.tokens), written |-> Cardinality(written),
              same |-> Cardinality(Emails(kept) \ ToWrite(import.seen)),
              duplicates |-> Len(kept) - Cardinality(Emails(kept) \cup Rejected(kept)),
              invalid |-> [n \in 1..Cardinality(bad) |-> kept[Nth(bad, n)]],
              truncated |-> Len(form.tokens) > Limit]
  /\ import' = NoImport
  /\ UNCHANGED edits

ImportFails ==
  /\ import.pc = "running"
  /\ import' = NoImport
  /\ UNCHANGED <<list, form, edits>>

\* action_retry_invalid: the rejected entries, in the state of a new form
RetryInvalid ==
  /\ form.state = "done" /\ form.invalid # <<>>
  /\ form' = Draft(form.mode, form.invalid)
  /\ UNCHANGED <<list, import, edits>>

\* the dialog is closed, and opened again
Reopen ==
  /\ form.state = "done"
  /\ form' = Draft("add", <<>>)
  /\ UNCHANGED <<list, import, edits>>

-----------------------------------------------------------------------------
(* Others blacklist an address, or take it off *)

Flip(a) ==
  /\ edits < MaxEdits /\ edits' = edits + 1
  /\ list' = [b \in DOMAIN list \cup {a} |-> IF b = a THEN ~Active(list, a) ELSE list[b]]
  /\ import' = IF import.pc = "idle" THEN NoImport
               ELSE [import EXCEPT !.touched = @ \cup {a}]
  /\ UNCHANGED form

Init ==
  /\ list \in UNION {[as -> BOOLEAN] : as \in SUBSET Addresses}
  /\ form = Draft("add", <<>>)
  /\ import = NoImport
  /\ edits = 0

Next ==
  \/ Fill \/ ImportStart \/ ImportCommit \/ ImportFails \/ RetryInvalid \/ Reopen
  \/ \E a \in Addresses : Flip(a)

Spec == Init /\ [][Next]_vars

-----------------------------------------------------------------------------
(* Properties *)

\* the counts of the report, "nothing is deleted", "run the import again on this
\* list only": every entry within the limit is in one count, what counts as written
\* is what changed, every other valid address is as asked unless it is listed
\* as rejected or somebody changed it meanwhile, and no row goes away.
ImportTells ==
  ImportCommit =>
    LET kept == Kept(form.tokens)
        asked == {Normal[kept[i]] : i \in DOMAIN kept} \ {Invalid}
        bad == {Normal[form'.invalid[i]] : i \in DOMAIN form'.invalid}
        changed == {a \in DOMAIN list' : Active(list, a) # list'[a]}
    IN  /\ DOMAIN list \subseteq DOMAIN list' /\ changed \subseteq asked
        /\ form'.written = Cardinality(changed)
        /\ form'.written + form'.same + form'.duplicates + Len(form'.invalid) = Len(kept)
        /\ \A a \in asked \ (bad \cup import.touched) :
             Active(list', a) = (form.mode = "add")

-----------------------------------------------------------------------------
(* What the proofs need *)

Proper == Limit \in Nat /\ Normal \in [Entries -> Addresses \cup {Invalid}]

\* The import knows the form as it is, and each address as it is that nobody has
\* changed since.
IInv ==
  /\ \A a \in DOMAIN list : list[a] \in BOOLEAN
  /\ form.state \in {"draft", "done"} /\ form.tokens \in Seq(Entries)
  /\ form.state = "done" => form.invalid \in Seq(Entries)
  /\ import.pc \in {"idle", "running"}
  /\ import.pc = "running" =>
       /\ DOMAIN import = {"pc", "seen", "touched"} /\ form.state = "draft"
       /\ \A a \in DOMAIN import.seen : import.seen[a] \in BOOLEAN
       /\ \A a \in Addresses \ import.touched : Active(list, a) = Active(import.seen, a)
=============================================================================
