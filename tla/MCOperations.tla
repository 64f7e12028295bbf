---------------------------- MODULE MCOperations ----------------------------
(***************************************************************************)
(* The scenarios of the operations centre: work reports, events on their   *)
(* way to InfraSafe and reconciliation with it, stock, automatic           *)
(* assignment, requests from the chat and from alerts, readings of meters. *)
(* Which one a behaviour plays is chosen at its start (part); the          *)
(* variables of the others keep their initial values.                      *)
(*   report      a report with a photo of the problem, which stays, and    *)
(*               one of the result, which is archived and deleted;         *)
(*               published at a manager's demand, while its request leaves *)
(*               the eligible statuses and comes back                      *)
(*   deliveries  two events, two workers that take up to two at a time,    *)
(*               two faults; enough tokens for every row and worker to     *)
(*               refer to a different one while a fresh one is drawn       *)
(*   inventory   a request, and two processes that compare, with two       *)
(*               pooled connections each                                   *)
(*   stock       five transactions of two processes on one material        *)
(*   prices      four, with lots of two prices                             *)
(*   dispatch    two requests, managers who assign, an executor who comes  *)
(*               and goes, a tick that fails or a restart                  *)
(*   claims      two executors who can do both and claim, and groups       *)
(*   closings    requests that are closed, and the switch                  *)
(*   chat        one message, repeated; two handlers, room for a second    *)
(*               prompt, which it must not get                             *)
(*   alerts      an alert and a notice, delivered by two handlers at a     *)
(*               time                                                      *)
(*   readings    one month, two sessions; the meter shows no more than 0   *)
(*   months      two months, one session; the meter stays in use           *)
(***************************************************************************)
EXTENDS ReportPublication, Reconciliation, MaterialLedger, RequestIntake, AutoManager, MeterReadings, TLC

CONSTANTS r1, before, after, m1, one, other, clerk1, clerk2, kg, piece

VARIABLES part, outbox, claimed, received, unsuccessful, refusals, outages

outboxVars == <<outbox, claimed, received, unsuccessful, refusals, outages>>

MCMedia == {before, after}
MCReports == {r1}
MCPhotos == [r \in MCReports |-> MCMedia]
MCResults == {after}
MCManual == {m1}

MCRequests == {1}
MCWorkers == {one, other}
MCConnections == MCWorkers \X {"first", "second"}
MCRunIds == {1, 2}

MCMessages == {"leak"}
MCEvents == {"alarm", "notice"}
MCAlerts == {"alarm"}

MCExecutors == {1, 2}
MCSpecs == {"p", "q"}
MCSkills == [e \in MCExecutors |-> {"p"}]
MCSpecOf == [i \in {1, 2} |-> "p"]
MCMonths == {1, 2}

MCProcs == {clerk1, clerk2}
MCUnits == {kg, piece}

Outbox == INSTANCE WebhookOutbox WITH
    MaxEvents <- 2, Workers <- MCWorkers, ClaimBatch <- 2, MaxRetries <- 2,
    Tokens <- 1..5, NoToken <- 0, MaxFaults <- 2,
    row <- outbox, claims <- claimed, failures <- unsuccessful, refused <- refusals, faults <- outages

ASSUME ScenarioAssumption ==
    /\ PublicationAssumption /\ MediaAssumption /\ ReconciliationAssumption /\ LedgerAssumption
    /\ CountsAssumption /\ PeopleAssumption /\ IntakeAssumption /\ ReadingsAssumption

OperationsInit ==
    /\ part \in {"report", "deliveries", "inventory", "stock", "prices", "dispatch", "claims", "closings",
                "chat", "alerts", "readings", "months"}
    /\ Init /\ Outbox!Init /\ ReconciliationInit /\ StockInit
    /\ DispatchInit /\ IntakeInit /\ ReadingsInit
    /\ part # "chat" => group = "residents"
    /\ part # "alerts" => requests = {}

Publications ==
    /\ part = "report" /\ Next
    /\ eligible'[r1] # "gone" /\ file'[before] = "active"
    /\ UNCHANGED <<part, outboxVars, reconciliationVars, stockVars, dispatchVars, intakeVars, meterVars>>

Deliveries ==
    /\ part = "deliveries" /\ Outbox!Next
    /\ UNCHANGED <<part, vars, reconciliationVars, stockVars, dispatchVars, intakeVars, meterVars>>

Comparisons ==
    /\ part = "inventory" /\ ReconciliationNext
    /\ UNCHANGED <<part, outboxVars, vars, stockVars, dispatchVars, intakeVars, meterVars>>

\* The quantities and prices a scenario enters.
Entering(quantities, prices) ==
    \A x \in Procs : /\ tx'[x].at = "locking" => tx'[x].qty \in quantities
                     /\ tx'[x].at = "receiving" => tx'[x].lot.qty \in quantities /\ tx'[x].lot.price \in prices

Movements ==
    /\ part \in {"stock", "prices"} /\ StockNext
    /\ \/ part = "stock" /\ Entering({1, 2}, {1})
       \/ part = "prices" /\ Entering({2, 3}, {1, 2}) /\ work' <= 4
    /\ UNCHANGED <<part, outboxVars, vars, reconciliationVars, dispatchVars, intakeVars, meterVars>>

Assignments ==
    /\ \/ part = "dispatch" /\ (Automation \/ Failures \/ Managers) /\ onDuty' \subseteq {1}
       \/ part = "claims" /\ (Automation \/ Claims \/ Groups)
       \/ part = "closings" /\ (Automation \/ Closings \/ SwitchMode) /\ onDuty' \subseteq {1}
    /\ UNCHANGED <<part, outboxVars, vars, reconciliationVars, stockVars, intakeVars, meterVars>>

Incoming ==
    /\ part \in {"chat", "alerts"} /\ IntakeNext
    /\ \/ part = "chat" /\ \A h \in {one, other} : calls'[h].at # "delivered"
       \/ part = "alerts" /\ switches' = 0 /\ \A h \in {one, other} : calls'[h].at # "fresh"
    /\ UNCHANGED <<part, outboxVars, vars, reconciliationVars, stockVars, dispatchVars, meterVars>>

\* The values a scenario enters.
WritesOnly(values) ==
    \A s \in Editors, m \in Months :
        drafts'[s].op = "write" /\ drafts'[s].new[m] # NoValue => drafts'[s].new[m].value \in values \cup {NoValue}

Readings ==
    /\ part \in {"readings", "months"} /\ ReadingsNext
    /\ \/ part = "readings" /\ period'[2] = NoValue /\ WritesOnly({1, 2})
       \/ part = "months" /\ meter' = meter /\ WritesOnly({0, 1})
          /\ Cardinality({s \in Editors : drafts'[s] # NoDraft}) <= 1
    /\ UNCHANGED <<part, outboxVars, vars, reconciliationVars, stockVars, dispatchVars, intakeVars>>

OperationsNext == Publications \/ Deliveries \/ Comparisons \/ Movements \/ Assignments \/ Incoming \/ Readings

OperationsSpec ==
    OperationsInit
        /\ [][OperationsNext]_<<part, outboxVars, vars, reconciliationVars, stockVars, dispatchVars, intakeVars, meterVars>>

Symmetric == Permutations({clerk1, clerk2}) \cup Permutations({kg, piece}) \cup Permutations({one, other})

-----------------------------------------------------------------------------
\* Every component keeps its variables to their kinds; no row has more attempts than it
\* may have, no lot falls below zero, no lock is given back more often than it was taken,
\* and one transaction at most counts the day.
OperationsTypeOK ==
    /\ TypeOK /\ Outbox!TypeOK /\ ReconciliationTypeOK /\ StockTypeOK
    /\ DispatchTypeOK /\ IntakeTypeOK /\ ReadingsTypeOK

\* A row of the outbox marked as sent was received, whatever crash, stall or takeover came
\* before (process_outbox settles on the answers of its own claim).
SentWasReceived == Outbox!SentWasReceived

\* A crash costs no attempt: a row is given up only when the receiver refused it or as many
\* posts were confirmed to fail as process_outbox allows.
DeadLetterIsEarned == Outbox!DeadLetterIsEarned

\* A claim is settled only by the worker that holds it, and as sent only on its own 200.
OnlyTheHolderSettles == Outbox!OnlyTheHolderSettles

\* What was delivered or given up is never taken up again by process_outbox.
SettledIsFinal == Outbox!SettledIsFinal
==============================================================================
