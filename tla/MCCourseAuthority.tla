--------------------------- MODULE MCCourseAuthority ---------------------------
(***************************************************************************)
(* CourseAuthority with two reviewers, who send one decision each about    *)
(* the two dimensions of one item, and a path that names another course.   *)
(***************************************************************************)
EXTENDS CourseAuthority, TLC

CONSTANTS alice, bob, item, here, there

Renamings == Permutations(Clients)

===============================================================================
