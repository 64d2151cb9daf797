---------------------------- MODULE MCControlServer ----------------------------
(***************************************************************************)
(* ControlServer with a single thread, which a dashboard of two            *)
(* repositories may hold, and two requests about references: one PDF fits  *)
(* the limit, the other is one chunk too long.  A page is full with the    *)
(* pull requests and with the jobs there are at first.                     *)
(***************************************************************************)
EXTENDS ControlServer, TLC

CONSTANTS d, a, b, c1, c2, p1, p2

\* The second repository has not run a workflow.
MCFirstRun == <<1, 0>>

MCSize == p1 :> 1 @@ p2 :> 2

================================================================================
