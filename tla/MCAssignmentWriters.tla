------------------------ MODULE MCAssignmentWriters ------------------------
(* A manager, two executors, one specialisation: enough for a reassignment, *)
(* a transfer and a claim to meet on one request.                           *)
EXTENDS AssignmentWriters

CONSTANTS mgr, exec, plumber

MCUsers == {mgr, exec}
MCGroups == {plumber}
MCRoles == [u \in MCUsers |-> IF u = mgr THEN {"manager", "executor", "applicant"}
                                         ELSE {"executor"}]
MCSkills == [u \in MCUsers |-> {plumber}]
=============================================================================
