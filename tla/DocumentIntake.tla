---------------------------- MODULE DocumentIntake ----------------------------
(***************************************************************************)
(* What an intake of documents of the control API promises.  A document is *)
(* kept before anything is recorded of it, and only if it may be kept; of  *)
(* two records that contradict each other the first stands and the second  *)
(* is never made; nothing kept or recorded is dropped or changed; and a    *)
(* client is told only of what is recorded.                                *)
(*                                                                         *)
(* ProjectIntake, CitationDocuments and ControlServer implement it, in     *)
(* three ways: with bindings of PDFs to references, with terminal results  *)
(* of processing a PDF, and with receipts of provided PDFs.                *)
(***************************************************************************)
CONSTANTS
  Documents,   \* what may be kept
  Records,     \* what may be recorded
  DocumentOf,  \* the document each record is about
  Clashes      \* the pairs of records of which one excludes the other

VARIABLES
  kept,        \* the documents kept
  records,     \* what is recorded of them
  told         \* the records clients were told

vars == <<kept, records, told>>

Init ==
  /\ kept \subseteq Documents
  /\ records = {}
  /\ told = {}

Keep(d) ==
  /\ kept' = kept \union {d}
  /\ UNCHANGED <<records, told>>

Record(x) ==
  /\ DocumentOf[x] \in kept
  /\ \A y \in records : <<x, y>> \notin Clashes
  /\ records' = records \union {x}
  /\ UNCHANGED <<kept, told>>

\* One answer may tell of many records.
Tell ==
  /\ told \subseteq told'
  /\ told' \subseteq told \union records
  /\ UNCHANGED <<kept, records>>

Next ==
  \/ \E d \in Documents : Keep(d)
  \/ \E x \in Records : Record(x)
  \/ Tell

Spec == Init /\ [][Next]_vars

==============================================================================
