------------------------- MODULE MCRequestWorkflow -------------------------
(* One request; a manager who also works shifts, an executor who lives next *)
(* door to the owner, and the owner; two specialisations, of which only the *)
(* manager serves both.                                                     *)
EXTENDS RequestWorkflow

CONSTANTS mgr, exec, own, plumber, electric

MCUsers == {mgr, exec, own}
MCGroups == {plumber, electric}
MCRoles == [u \in MCUsers |->
               CASE u = mgr -> {"manager", "executor"}
                 [] u = exec -> {"executor"}
                 [] OTHER -> {"applicant"}]
MCSkills == [u \in MCUsers |->
               CASE u = mgr -> {plumber, electric}
                 [] u = exec -> {plumber}
                 [] OTHER -> {}]
MCNeighbours == {exec}
=============================================================================
