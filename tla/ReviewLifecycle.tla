--------------------------- MODULE ReviewLifecycle ---------------------------
(***************************************************************************)
(* What the manual review of a disputed entry promises: one outcome per    *)
(* review, one command per review that was allowed and none for another,   *)
(* no opening by hand while a review is waiting, and one opening by code.  *)
(***************************************************************************)
EXTENDS Naturals

CONSTANT Reviews

VARIABLES
    status,     \* of each review
    commands,   \* commands of a review's decisions
    alone,      \* openings by hand
    byCode      \* openings by a guest's one-time code

vars == <<status, commands, alone, byCode>>

Init ==
    /\ status = [r \in Reviews |-> "none"]
    /\ commands = [r \in Reviews |-> 0]
    /\ alone = 0 /\ byCode = 0

\* An event the barrier was opened for by hand already needs no review.
Receive(r) ==
    /\ status[r] = "none"
    /\ \E s \in {"pending", "allowed"} : status' = [status EXCEPT ![r] = s]
    /\ UNCHANGED <<commands, alone, byCode>>

Allow(r) ==
    /\ status[r] = "pending"
    /\ status' = [status EXCEPT ![r] = "allowed"]
    /\ commands' = [commands EXCEPT ![r] = @ + 1]
    /\ UNCHANGED <<alone, byCode>>

Deny(r) ==
    /\ status[r] = "pending"
    /\ status' = [status EXCEPT ![r] = "denied"]
    /\ UNCHANGED <<commands, alone, byCode>>

Lapsed(S) == [r \in Reviews |-> IF r \in S THEN "expired" ELSE status[r]]

Lapse(S) ==
    /\ \A r \in S : status[r] = "pending"
    /\ status' = Lapsed(S)
    /\ UNCHANGED <<commands, alone, byCode>>

OpenAlone(S) ==
    /\ S = {r \in Reviews : status[r] = "pending"}
    /\ status' = Lapsed(S)
    /\ alone' = alone + 1
    /\ UNCHANGED <<commands, byCode>>

OpenByCode ==
    /\ byCode = 0
    /\ byCode' = 1
    /\ UNCHANGED <<status, commands, alone>>

Next ==
    \/ \E r \in Reviews : Receive(r) \/ Allow(r) \/ Deny(r)
    \/ \E S \in SUBSET Reviews : Lapse(S) \/ OpenAlone(S)
    \/ OpenByCode

Spec == Init /\ [][Next]_vars
==============================================================================
