-------------------------- MODULE MCOrganizerStream --------------------------
(***************************************************************************)
(* OrganizerStream with one client, which may fall more than a batch       *)
(* behind; the controls of others come with the events of Work.            *)
(***************************************************************************)
EXTENDS OrganizerStream

CONSTANTS a, on, off

==============================================================================
