---------------------------- MODULE SequenceGaps ----------------------------
(***************************************************************************)
(* sequence_gap_report: the numbers that a series of documents lacks.  A   *)
(* value is a prefix and a trailing number of some width; holes between    *)
(* neighbours are listed up to a cap, and those too wide to be gaps are    *)
(* only counted.                                                           *)
(***************************************************************************)
EXTENDS Integers, FiniteSets, FiniteSetsExt

CONSTANTS
  Documents,    \* ids, which is the order they are read in
  Values,       \* [prefix, number, width], a prefix being its place in the order
  NoNumber,     \* a value without a trailing number
  NoDocument,
  Unreadable,   \* documents that the reader may not read
  Caps,         \* what may be asked for as a maximum of gaps
  AbsoluteMaxGaps, AbsoluteMaxRows, MaxGapSpan, Int4Max,
  MaxEdits

VARIABLES
  doc,      \* [Documents -> [value, active] or NoDocument]
  form,     \* cap, archived: whether archived documents count
  report,   \* the result on the screen
  edits

vars == <<doc, form, report, edits>>

Draft == [state |-> "draft"]

-----------------------------------------------------------------------------
(* The scan *)

\* search_read, in the order of the ids
Rows ==
  {d \in Documents \ Unreadable : doc[d] # NoDocument /\ (form.archived \/ doc[d].active)}

Numbered == {d \in Rows : doc[d].value # NoNumber}

\* _group_by_prefix: of two documents with one number the first counts
Series == {doc[d].value.prefix : d \in Numbered}
Numbers(p) == {doc[d].value.number : d \in {e \in Numbered : doc[e].value.prefix = p}}
Entry(p, n) ==
  doc[Min({d \in Numbered : doc[d].value.prefix = p /\ doc[d].value.number = n})].value

\* mutant: the neighbours are counted in
HoleInclusive(p, lower, upper) ==
  [prefix |-> p, lower |-> lower, upper |-> upper, count |-> upper - lower,
   width |-> Max({Entry(p, lower).width, Entry(p, upper).width})]

\* a line of the report: the documents before and after, and the width to pad to
Hole(p, lower, upper) ==
  [prefix |-> p, lower |-> lower, upper |-> upper, count |-> upper - lower - 1,
   width |-> Max({Entry(p, lower).width, Entry(p, upper).width})]

\* _find_gaps
Holes ==
  UNION {{Hole(p, x[1], x[2]) : x \in
            {y \in Numbers(p) \X Numbers(p) :
               y[2] - y[1] > 1 /\ \A n \in Numbers(p) : n <= y[1] \/ n >= y[2]}} : p \in Series}

Gaps == {h \in Holes : h.upper <= Int4Max /\ h.upper - h.lower - 1 <= MaxGapSpan}

Before(h, k) == h.prefix < k.prefix \/ (h.prefix = k.prefix /\ h.lower < k.lower)

\* min(max(max_gaps or 0, 1), ABSOLUTE_MAX_GAPS)
Cap == Min({Max({form.cap, 1}), AbsoluteMaxGaps})

\* action_scan: too many documents are refused
Scan ==
  /\ Cardinality(Rows) <= AbsoluteMaxRows
  /\ report' = [state |-> "done",
                lines |-> {h \in Gaps : Cardinality({k \in Gaps : Before(k, h)}) < Cap},
                truncated |-> Cardinality(Gaps) > Cap,
                note |-> Cardinality(Gaps) > Cap /\ form.cap > AbsoluteMaxGaps,
                scanned |-> Cardinality(Rows), series |-> Cardinality(Series),
                ignored |-> Cardinality(Rows \ Numbered),
                gaps |-> Cardinality(Gaps),
                missing |-> MapThenSumSet(LAMBDA h : h.count, Gaps),
                skipped |-> Cardinality(Holes \ Gaps)]
  /\ UNCHANGED <<doc, form, edits>>

ScanRefused ==
  /\ Cardinality(Rows) > AbsoluteMaxRows
  /\ UNCHANGED vars

\* action_reset
Reset ==
  /\ report' = Draft
  /\ UNCHANGED <<doc, form, edits>>

\* documents are numbered, archived and deleted meanwhile
Edit(d, row) ==
  /\ edits < MaxEdits /\ edits' = edits + 1
  /\ doc' = [doc EXCEPT ![d] = row]
  /\ UNCHANGED <<form, report>>

Contents == [value : Values \cup {NoNumber}, active : BOOLEAN] \cup {NoDocument}

Init ==
  /\ doc \in [Documents -> {c \in Contents : c # NoDocument => c.active}]
  /\ form \in [cap : Caps, archived : BOOLEAN]
  /\ report = Draft
  /\ edits = 0

Next ==
  \/ Scan \/ ScanRefused \/ Reset
  \/ \E d \in Documents, row \in Contents : Edit(d, row)

Spec == Init /\ [][Next]_vars

-----------------------------------------------------------------------------
(* Properties *)

\* The numbers between the first and the last of a series that no document
\* holds, for the documents the reader may read.
Lacking ==
  {x \in Series \X (0..Int4Max) :
     /\ x[2] \notin Numbers(x[1])
     /\ x[2] > Min(Numbers(x[1])) /\ x[2] < Max(Numbers(x[1]))}

Covered(lines) == {x \in Series \X (0..Int4Max) :
  \E h \in lines : h.prefix = x[1] /\ x[2] > h.lower /\ x[2] < h.upper}

\* Each number in a listed gap is lacking; and unless the report says that it
\* left some out, each lacking number is in a listed gap, and the number of
\* missing ones is theirs (_find_gaps, action_scan).
GapsExact ==
  Scan =>
    /\ Covered(report'.lines) \subseteq Lacking
    /\ ~report'.truncated /\ report'.skipped = 0 =>
         /\ Covered(report'.lines) = Lacking
         /\ report'.missing = Cardinality(Lacking)
    /\ report'.truncated => Cardinality(report'.lines) = Cap

-----------------------------------------------------------------------------
(* The inductive invariant *)

Proper ==
  /\ IsFiniteSet(Documents) /\ Documents \subseteq Nat
  /\ \A v \in Values : v.prefix \in Nat /\ v.number \in Nat
  /\ Caps \subseteq Int /\ AbsoluteMaxGaps \in Nat /\ Int4Max \in Nat

IInv == doc \in [Documents -> Contents] /\ form \in [cap : Caps, archived : BOOLEAN]
=============================================================================
