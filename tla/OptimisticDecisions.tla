------------------------- MODULE OptimisticDecisions -------------------------
(***************************************************************************)
(* What reviewers of the control API may rely on who decide at the same    *)
(* time and without a lock.  A decision names the lengths of the streams   *)
(* it is to follow, its own among them, and is recorded only while these   *)
(* are their lengths; none is recorded twice; a receipt is of a decision   *)
(* that is recorded, in its stream; and what was refused is not recorded,  *)
(* before or after, so that its reviewer may decide anew.                  *)
(*                                                                         *)
(* CourseAuthority and EquationReview implement it.  In the first a        *)
(* decision follows all streams of the course, in the second its own.      *)
(***************************************************************************)
EXTENDS Naturals, Sequences

CONSTANT Streams

VARIABLES
  streams,     \* of each stream, what was decided and what its reviewer saw
  receipts,    \* the <<stream, decision>> that are being answered as recorded
  refused      \* those that are being answered as refused

vars == <<streams, receipts, refused>>

Init ==
  /\ streams = [s \in Streams |-> <<>>]
  /\ receipts = {}
  /\ refused = {}

Recorded ==
  UNION {{<<s, streams[s][n].what>> : n \in 1 .. Len(streams[s])} : s \in Streams}

\* Decision d, whose reviewer saw the streams at the lengths d.saw, is the next of s.
Record(s, d) ==
  /\ <<s, d.what>> \notin Recorded \union refused
  /\ s \in DOMAIN d.saw
  /\ \A t \in DOMAIN d.saw : d.saw[t] = Len(streams[t])
  /\ streams' = [streams EXCEPT ![s] = Append(@, d)]
  /\ UNCHANGED <<receipts, refused>>

\* Answers are begun, delivered or lost.
Answer ==
  /\ receipts' \subseteq Recorded
  /\ refused' \intersect Recorded = {}
  /\ UNCHANGED streams

Next ==
  \/ \E s \in Streams :
       /\ Len(streams'[s]) > Len(streams[s])
       /\ Record(s, streams'[s][Len(streams'[s])])
  \/ Answer

Spec == Init /\ [][Next]_vars

==============================================================================
