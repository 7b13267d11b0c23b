---------------------------- MODULE BulkDownload ----------------------------
(***************************************************************************)
(* attachment_bulk_download: a wizard remembers a selection of records, a  *)
(* controller builds the archive of their files when the browser asks for  *)
(* it, as the user who asks and with what is there by then.                *)
(***************************************************************************)
EXTENDS Integers, Sequences, FiniteSetsExt

CONSTANTS
  Users,
  Records,
  Attachments,  \* their ids
  Of,           \* [Attachments -> Records]: the record a file is attached to
  Folder,       \* [Records -> folders]: its display name, made safe
  Name,         \* [Attachments -> [stem, upper, nums]]: the file name, made safe;
                \* nums: the numbers in parentheses it ends with
  Recorded,     \* [Attachments -> Nat]: file_size, the column
  Real,         \* [Attachments -> Nat]: bytes in the filestore, 0 when it is lost
  Limits,       \* values of the limit; 0: none
  MaxRecords,   \* MAX_RECORDS
  MaxEdits      \* bound on what changes meanwhile

VARIABLES
  there,        \* the attachments that exist
  readable,     \* [Users -> SUBSET Records]
  limit,        \* attachment_bulk_download.max_total_mb
  wizard,       \* [owner, ids] of the selection, or nothing yet
  archive,      \* the entries of the last ZIP, with who asked for it
  edits

vars == <<there, readable, limit, wizard, archive, edits>>

-----------------------------------------------------------------------------
(* Selection *)

Nothing == [ids |-> {}]

\* _abd_find_attachments: search() hides what hangs on records the user may not read
Found(u, ids) == {a \in there : Of[a] \in ids \cap readable[u]}

Total(as, size) == MapThenSumSet(LAMBDA a : size[a], as)

\* _abd_prepare
Prepared(u, ids) ==
  /\ ids # {} /\ Cardinality(ids) <= MaxRecords
  /\ Found(u, ids) # {}
  /\ limit > 0 => Total(Found(u, ids), Recorded) <= limit

\* action_download
Download(u) ==
  /\ \E ids \in SUBSET Records :
       Prepared(u, ids) /\ wizard' = [owner |-> u, ids |-> ids]
  /\ UNCHANGED <<there, readable, limit, archive, edits>>

-----------------------------------------------------------------------------
(* The archive *)

Numbered(name, n) == IF n = 1 THEN name ELSE [name EXCEPT !.nums = Append(@, n)]

Folded(name) == [name EXCEPT !.upper = FALSE]

\* mutant: names that differ in case only are different entries
FirstFreeCased(name, used) ==
  CHOOSE n \in 1..(Cardinality(used) + 1) :
    /\ Numbered(name, n) \notin used
    /\ \A m \in 1..(n - 1) : Numbered(name, m) \in used

\* _abd_unique_entry, on the names used in the folder
FirstFree(name, used) ==
  LET taken == {Folded(other) : other \in used}
  IN  CHOOSE n \in 1..(Cardinality(used) + 1) :
        /\ Folded(Numbered(name, n)) \notin taken
        /\ \A m \in 1..(n - 1) : Folded(Numbered(name, m)) \in taken

Members(entries) == {entries[i] : i \in DOMAIN entries}

Added(entries, a) ==
  LET folder == Folder[Of[a]]
      used == {e.name : e \in {x \in Members(entries) : x.folder = folder}}
      name == Numbered(Name[a], FirstFree(Name[a], used))
  IN  Append(entries, [folder |-> folder, name |-> name, of |-> a])

\* in the order of the records and of the files
Before(a, b) == Of[a] < Of[b] \/ (Of[a] = Of[b] /\ a < b)
InOrder(as) ==
  [n \in 1..Cardinality(as) |->
     CHOOSE a \in as : Cardinality({b \in as : Before(b, a)}) = n - 1]

\* a file the filestore has lost is left out
Packed(as) ==
  LET files == InOrder({a \in as : Real[a] > 0 \/ Recorded[a] = 0})
      after[n \in 0..Len(files)] ==
        IF n = 0 THEN <<>> ELSE Added(after[n - 1], files[n])
  IN  after[Len(files)]

\* _abd_build_zip, for the one who prepared it; it gives up when the files are
\* larger than the column said
Build(u) ==
  LET entries == Packed(Found(u, wizard.ids))
      files == {e.of : e \in Members(entries)}
  IN  /\ wizard # Nothing /\ wizard.owner = u
      /\ Prepared(u, wizard.ids)
      /\ limit > 0 => Total(files, Real) <= limit
      /\ entries # <<>>
      /\ archive' = [by |-> u, entries |-> entries]
      /\ UNCHANGED <<there, readable, limit, wizard, edits>>

-----------------------------------------------------------------------------
(* Meanwhile *)

Editing == edits < MaxEdits /\ edits' = edits + 1

Attach(a) ==
  /\ Editing
  /\ there' = IF a \in there THEN there \ {a} ELSE there \cup {a}
  /\ UNCHANGED <<readable, limit, wizard, archive>>

ChangeAccess(u, r) ==
  /\ Editing
  /\ readable' = [readable EXCEPT ![u] = IF r \in @ THEN @ \ {r} ELSE @ \cup {r}]
  /\ UNCHANGED <<there, limit, wizard, archive>>

SetLimit(n) ==
  /\ Editing /\ n # limit
  /\ limit' = n
  /\ UNCHANGED <<there, readable, wizard, archive>>

Init ==
  /\ there = Attachments
  /\ readable \in [Users -> {Records, {}}]
  /\ limit \in Limits
  /\ wizard = Nothing
  /\ archive = [entries |-> <<>>]
  /\ edits = 0

Next ==
  \/ \E u \in Users : Download(u) \/ Build(u) \/ \E r \in Records : ChangeAccess(u, r)
  \/ \E a \in Attachments : Attach(a)
  \/ \E n \in Limits : SetLimit(n)

Spec == Init /\ [][Next]_vars

-----------------------------------------------------------------------------
(* Properties *)

\* "the attachments are looked up again here", "this is the real bound": what is
\* packed is of the records that were selected, may be read by the one who asks,
\* fits the limit of that moment, and no two files fold to one entry.
ArchiveSound ==
  \A u \in Users : Build(u) =>
    LET es == archive'.entries
        files == {e.of : e \in Members(es)}
    IN  /\ \A a \in files : a \in there /\ Of[a] \in wizard.ids \cap readable[u]
        /\ limit > 0 => Total(files, Real) <= limit
        /\ \A i, j \in DOMAIN es : i # j =>
             <<es[i].folder, Folded(es[i].name)>> # <<es[j].folder, Folded(es[j].name)>>

-----------------------------------------------------------------------------
(* What the proofs need *)

\* Files and records are finitely many and known by numbers; a name is of its parts.
Proper ==
  /\ IsFiniteSet(Attachments) /\ Attachments \subseteq Int /\ Records \subseteq Int
  /\ Of \in [Attachments -> Records]
  /\ \A a \in Attachments :
       DOMAIN Name[a] = {"stem", "upper", "nums"} /\ Name[a].nums \in Seq(Nat)

IInv == there \subseteq Attachments
=============================================================================
