----------------------------- MODULE MCLiveness -----------------------------
(***************************************************************************)
(* What must happen in the end, in small scenarios.  Which one a behaviour *)
(* plays is chosen at its start (part), and the fairness assumed is that   *)
(* of its component; the variables of the others keep their initial        *)
(* values.                                                                 *)
(*   saga       a report with one photo: publications at a manager's       *)
(*              demand, and passes of reconcile, that die                  *)
(*   automatic  the same, published by autopublish; its request stays      *)
(*             eligible                                                    *)
(*   reviews    a disputed entry, an operator, the worker, a barrier that  *)
(*              is put out of service                                      *)
(*   queues     three requests nobody on duty can do, one somebody can     *)
(***************************************************************************)
EXTENDS ReportPublication, Naturals, Sequences, TLC

CONSTANTS r1, after, m1, a1, Worker, o1, Nobody

VARIABLES
    part,
    group, chain, resolved, alone, code, codeOpens, captured, cleared, late, inService, switches, locks, tx,
    request, onDuty, mode, dispatch, cursor, cooldown, tick, faults

reviewVars == <<group, chain, resolved, alone, code, codeOpens, captured, cleared, late, inService, switches, locks, tx>>
dispatchVars == <<request, onDuty, mode, dispatch, cursor, cooldown, tick, faults>>

MCMedia == {after}
MCReports == {r1}
MCPhotos == [r \in MCReports |-> MCMedia]
MCManual == {m1}
MCAutomatic == {a1}

Review == INSTANCE AccessReviews WITH
    Reviews <- {r1}, Operators <- {o1}, OpenBound <- 0, ToggleBound <- 1,
    commands <- resolved, active <- inService, toggles <- switches, holder <- locks

Assignment == INSTANCE AutoManager WITH
    N <- 4, Executors <- {1}, Specs <- {"p", "q"}, Skills <- [e \in {1} |-> {"p"}],
    SpecOf <- [i \in 1..4 |-> IF i = 4 THEN "p" ELSE "q"], Legacy <- {1, 2, 3},
    Limit <- 2, Multiplier <- 1, Cooldown <- 2, MaxFaults <- 0

ASSUME PublicationAssumption /\ MediaAssumption
ASSUME Review!ReviewsAssumption
ASSUME Assignment!CountsAssumption /\ Assignment!PeopleAssumption

LivenessInit ==
    /\ part \in {"saga", "automatic", "reviews", "queues"}
    /\ Init /\ Review!ReviewsInit /\ Assignment!DispatchInit

Publications ==
    /\ part \in {"saga", "automatic"} /\ Next
    /\ \/ part = "saga" /\ job'[a1].at = "idle"
       \/ part = "automatic" /\ job'[m1].at = "idle" /\ eligible' = eligible
    /\ UNCHANGED <<part, reviewVars, dispatchVars>>

Disputes ==
    /\ part = "reviews" /\ Review!ReviewsNext
    /\ UNCHANGED <<part, vars, dispatchVars>>

Queues ==
    /\ part = "queues" /\ Assignment!Automation
    /\ UNCHANGED <<part, vars, reviewVars>>

LivenessNext == Publications \/ Disputes \/ Queues

LivenessSpec ==
    /\ LivenessInit /\ [][LivenessNext]_<<part, vars, reviewVars, dispatchVars>>
    /\ \/ part \in {"saga", "automatic"} /\ Fairness
       \/ part = "reviews" /\ Review!ReviewsFairness
       \/ part = "queues" /\ Assignment!DispatchFairness

-----------------------------------------------------------------------------
\* The worker ends every review whose deadline passes (expire_due_reviews), also when its
\* barrier has been put out of service.
ReviewsEnd == Review!ReviewsEnd

\* The cursors and the cooldown leave no unreachable tail: no request waits for ever that
\* someone on duty can do.
NoTail == Assignment!NoTail
==============================================================================
