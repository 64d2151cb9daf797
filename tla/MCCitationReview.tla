--------------------------- MODULE MCCitationReview ---------------------------
(***************************************************************************)
(* CitationReview on two manuscripts that share claim c1 and not its       *)
(* candidates; c2 is a claim no bundle has.                                *)
(***************************************************************************)
EXTENDS CitationReview, TLC

CONSTANTS m1, m2, c1, c2, k1, k2, w1, w2

MCBundles ==
  {[manuscript |-> m1, candidates |-> c1 :> {k1}],
   [manuscript |-> m2, candidates |-> c1 :> {k2}]}

MCRequests ==
  {[disposition |-> "ACCEPT_CITATION", selected |-> <<k1>>],
   [disposition |-> "CORPUS_GAP", selected |-> <<>>]}

\* With the bodies decide() refuses, each for another reason.
MCAllRequests ==
  MCRequests \union
    {[disposition |-> "PARTIAL_SUPPORT", selected |-> <<>>],
     [disposition |-> "NO_CITATION_REQUIRED", selected |-> <<k2>>],
     [disposition |-> "PARTIAL_SUPPORT", selected |-> <<k2, k2>>]}

Symmetry == Permutations({w1, w2})

==============================================================================
