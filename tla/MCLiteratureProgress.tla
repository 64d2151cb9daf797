------------------------- MODULE MCLiteratureProgress -------------------------
(***************************************************************************)
(* LiteratureProgress with a reader, two claims and one label: in          *)
(* MCLiteratureProgress.cfg over two outputs, so that they can be mixed;   *)
(* in MCLiteratureProgressEvidence.cfg over one.                           *)
(***************************************************************************)
EXTENDS LiteratureProgress

CONSTANTS reader, label

Found == {{label}}

FoundOrNot == {{}, {label}}

===============================================================================
