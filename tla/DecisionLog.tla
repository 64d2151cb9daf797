----------------------------- MODULE DecisionLog -----------------------------
(***************************************************************************)
(* What a review store of the control API promises its reviewers.  A       *)
(* decision about a subject is a new revision at the end of that subject's *)
(* log; nothing already recorded is changed, removed or renumbered; and a  *)
(* reviewer is told of a decision only as the revision it really is.       *)
(*                                                                         *)
(* CitationReview and EquationReview both implement this specification:    *)
(* the first with rows of a SQLite table, the second with a revision       *)
(* history written by another package and read back over a seam.           *)
(***************************************************************************)
EXTENDS Naturals, Sequences

CONSTANTS
  Subjects,    \* what a decision is about
  Decisions    \* what can be decided

VARIABLES
  log,         \* log[s]: the decisions recorded about s, oldest first
  told         \* the <<subject, revision, decision>> reviewers were told of

vars == <<log, told>>

Init ==
  /\ log = [s \in Subjects |-> <<>>]
  /\ told = {}

Record(s, d) ==
  /\ log' = [log EXCEPT ![s] = Append(@, d)]
  /\ UNCHANGED told

\* The revisions there are, as a reviewer is told of them.
Entries == UNION {{<<s, r, log[s][r]>> : r \in 1 .. Len(log[s])} : s \in Subjects}

\* One answer may report revisions of many subjects.
Tell ==
  /\ told \subseteq told'
  /\ told' \subseteq told \union Entries
  /\ UNCHANGED log

Next ==
  \/ Tell
  \/ \E s \in Subjects, d \in Decisions : Record(s, d)

Spec == Init /\ [][Next]_vars

==============================================================================
