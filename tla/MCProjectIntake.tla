---------------------------- MODULE MCProjectIntake ----------------------------
(***************************************************************************)
(* ProjectIntake with two requests at a time: two references of the        *)
(* collection and a citekey that is none; two PDFs within the limit, one   *)
(* beyond it, and a file that is no PDF.                                   *)
(***************************************************************************)
EXTENDS ProjectIntake

CONSTANTS r1, r2, k1, k2, unknown, short, long, huge, text

SizeOf ==
  [f \in Files |-> CASE f = short -> 1 [] f = long -> 2 [] f = huge -> 3 [] f = text -> 1]

==============================================================================
