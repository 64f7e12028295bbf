----------------------------- MODULE MCInfraSafe -----------------------------
(***************************************************************************)
(* What must happen in the end between this system and InfraSafe.  Which   *)
(* scenario a behaviour plays is chosen at its start (part), and the       *)
(* fairness assumed is that of its component; the variables of the other   *)
(* keep their initial values.                                              *)
(*   outbox     two events, two workers, one fault                         *)
(*   inventory  two requests, one lost at InfraSafe or on the way, a pool  *)
(*              of two connections                                       *)
(***************************************************************************)
EXTENDS WebhookOutbox

CONSTANTS w1, w2, NoConnection

VARIABLES part, local, remote, enabled, queue, seen, lock, run, losses, deploys

remoteVars == <<local, remote, enabled, queue, seen, lock, run, losses, deploys>>

MCWorkers == {w1, w2}
MCTokens == 1..5

Inventory == INSTANCE Reconciliation WITH
    Requests <- {1, 2}, MaxStatus <- 1, Workers <- {w1}, Connections <- {w1} \X {"first", "second"},
    ReplayCap <- 1, RunIds <- {1, 2}, Refused <- {}, MaxLosses <- 1, MaxDeploys <- 2

ASSUME Inventory!ReconciliationAssumption

InfraSafeInit ==
    /\ part \in {"outbox", "inventory"}
    /\ Init /\ Inventory!ReconciliationInit

Deliveries ==
    /\ part = "outbox" /\ Next
    /\ UNCHANGED <<part, remoteVars>>

Comparisons ==
    /\ part = "inventory" /\ Inventory!ReconciliationNext
    /\ UNCHANGED <<part, vars>>

InfraSafeNext == Deliveries \/ Comparisons

InfraSafeSpec ==
    /\ InfraSafeInit /\ [][InfraSafeNext]_<<part, vars, remoteVars>>
    /\ \/ part = "outbox" /\ Fairness
       \/ part = "inventory" /\ Inventory!ReconciliationFairness

-----------------------------------------------------------------------------
\* Whatever was lost, every request gets to be known to InfraSafe while webhooks are on
\* (reconcile_requests and its replay, REPLAY_CAP at a time).
EveryRequestArrives == Inventory!EveryRequestArrives
==============================================================================
