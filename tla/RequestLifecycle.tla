-------------------------- MODULE RequestLifecycle --------------------------
(***************************************************************************)
(* What a request promises to those outside: a public status that moves    *)
(* along known edges, closes for good, and announces each move exactly     *)
(* once, in order.  The kanban, the resident's application and InfraSafe   *)
(* know nothing of executors, confirmations, returns or assignment rows.   *)
(***************************************************************************)
EXTENDS Integers, Sequences

VARIABLES
    status,   \* the public status
    feed      \* the moves announced so far

lifecycleVars == <<status, feed>>

Edge ==
    ({"NEW"} \X {"IN_PROGRESS", "PURCHASE", "CLARIFICATION", "CANCELLED"})
    \cup ({"IN_PROGRESS"} \X {"PURCHASE", "CLARIFICATION", "EXECUTED", "CANCELLED"})
    \cup ({"PURCHASE"} \X {"IN_PROGRESS", "CLARIFICATION", "EXECUTED", "CANCELLED"})
    \cup ({"CLARIFICATION"} \X {"IN_PROGRESS", "EXECUTED", "CANCELLED"})
    \cup ({"EXECUTED"} \X {"COMPLETED", "APPROVED", "IN_PROGRESS", "CANCELLED"})
    \cup ({"COMPLETED"} \X {"APPROVED", "IN_PROGRESS", "CANCELLED"})

Start == status \in {"NEW", "COMPLETED"} /\ feed = <<>>

Move(to) ==
    /\ <<status, to>> \in Edge
    /\ status' = to
    /\ feed' = Append(feed, <<status, to>>)

Moves == \E to \in {"IN_PROGRESS", "PURCHASE", "CLARIFICATION", "EXECUTED",
                    "COMPLETED", "APPROVED", "CANCELLED"} : Move(to)

Lifecycle == Start /\ [][Moves]_lifecycleVars
=============================================================================
