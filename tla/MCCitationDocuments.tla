------------------------- MODULE MCCitationDocuments -------------------------
(***************************************************************************)
(* CitationDocuments with two PDFs and two threads.  In                    *)
(* MCCitationDocuments.cfg one item is missing, so that its results        *)
(* compete; a PDF is as large as the limit, another body too large and a   *)
(* third no PDF; a second base projection lacks the item, and one document *)
(* is at the configured root as well.  In MCCitationDocumentsCurrent.cfg   *)
(* two items are missing, so that a result of one stands before the        *)
(* command for the other.                                                  *)
(***************************************************************************)
EXTENDS CitationDocuments, TLC

CONSTANTS i1, i2, p1, p2, large, junk, w1, w2

MCBases == {{i1}, {i2}}

MCOneBase == {{i1, i2}}

MCSize == [b \in Bodies |-> IF b = large THEN 2 ELSE 1]

MCDeclared == {-2, -1, 0, 1, 2}

MCUndeclared == {-1}

MCConfigured == {<<i1, p1>>}

MCSymmetry == Permutations(Workers)

==============================================================================
