---------------------------- MODULE MonotonicReads ----------------------------
(***************************************************************************)
(* What clients that are not told of every change of a state may rely on.  *)
(* The state has one history, to which states are only added.  Each client *)
(* knows a state of that history and where in it that state is, and what   *)
(* it comes to know is the same or a later one: nobody is shown a state    *)
(* there never was, one at another place than its own, or goes back.       *)
(*                                                                         *)
(* OrganizerStream implements it with answers, pages and streams that      *)
(* reach a client in any order.                                            *)
(***************************************************************************)
EXTENDS Naturals, Sequences

CONSTANTS
  Clients,
  States,
  First        \* the state at the beginning

VARIABLES
  states,      \* the history
  view         \* the place in it each client knows, and the state it takes it for

vars == <<states, view>>

Init ==
  /\ states = <<First>>
  /\ view = [c \in Clients |-> [at |-> 1, state |-> First]]

Change(s) ==
  /\ states' = Append(states, s)
  /\ UNCHANGED view

Read(c) ==
  /\ \E n \in view[c].at .. Len(states) :
       view' = [view EXCEPT ![c] = [at |-> n, state |-> states[n]]]
  /\ UNCHANGED states

Next ==
  \/ \E s \in States : Change(s)
  \/ \E c \in Clients : Read(c)

Spec == Init /\ [][Next]_vars

===============================================================================
