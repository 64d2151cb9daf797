--------------------------- MODULE MCEquationReview ---------------------------
(***************************************************************************)
(* EquationReview with one candidate that is assisted while it is reviewed *)
(* and another, or the same one rebuilt with other evidence.               *)
(***************************************************************************)
EXTENDS EquationReview, TLC

CONSTANTS c1, p1, w1, w2

E(n, p) == [evidence |-> n, proposal |-> p, mode |-> "INLINE"]

\* Not assisted, assisted, rebuilt, and without the candidate.
MCPackages ==
  {c1 :> E(1, NoProposal), c1 :> E(1, p1), c1 :> E(2, NoProposal), <<>>}

Reject(n) ==
  [disposition |-> "REJECT_CANDIDATE", proposal |-> NoProposal, mode |-> "NONE",
   render |-> "NONE", expected |-> n]

Accept(p, m, r, n) ==
  [disposition |-> "ACCEPT_TRANSCRIPTION", proposal |-> p, mode |-> m,
   render |-> r, expected |-> n]

\* Two decisions that compete for the first position, a successor, one whose
\* expected revision is the bound, and those each rule refuses.
MCRequests ==
  {Reject(0), Accept(p1, "INLINE", "CURRENT", 0), Reject(1), Reject(2),
   Accept(NoProposal, "INLINE", "CURRENT", 0), Accept(p1, "DISPLAY", "CURRENT", 1),
   Accept(p1, "INLINE", "EDITED", 1)}

MCFewRequests == {Reject(0), Reject(1)}

==============================================================================
