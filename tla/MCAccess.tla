------------------------------ MODULE MCAccess ------------------------------
(***************************************************************************)
(* The scenarios of access control.  Which one a behaviour plays is chosen *)
(* at its start (part); the variables of the other components keep their   *)
(* initial values, so that the reachable states are the sum of the         *)
(* scenarios and each property is checked in all of them.                  *)
(*   commands  a command of a decision at one barrier and one by hand at   *)
(*             another                                                     *)
(*   reviews   two disputed entries, an operator and the worker            *)
(*   race      one disputed entry, two operators and the worker            *)
(*   switched  two disputed entries, an operator each at a time, while the *)
(*             barrier is put in or out of service                         *)
(*   events    a taxi with two entries, reported three times at one gate,  *)
(*             within the window of one another two by two, once at        *)
(*             another gate, and leaving; barriers change their state      *)
(*   parking   two cars of an apartment with one spot, at two gates        *)
(***************************************************************************)
EXTENDS BarrierCommands, AccessReviews, AccessIngestion, TLC

CONSTANTS k1, k2, auto, manual, r1, r2, o1, o2,
          g1, g2, taxi, car1, car2, p1, p2, first, second, third, elsewhere, leaves, in1, in2, out1

VARIABLE part

MCControllers == {k1, k2}
MCCommands == {auto, manual}
MCDecided == {auto}
MCOwner == [c \in MCCommands |-> IF c = auto THEN k1 ELSE k2]

MCReviews == {r1, r2}
MCOperators == {o1, o2}

Reports == {first, second, third, elsewhere, leaves}
Passages == {in1, in2, out1}
MCEvents == Reports \cup Passages
MCGates == {g1, g2}
MCPlates == {taxi, car1, car2}
MCCars == {car1, car2}
MCHandlers == {p1, p2}
MCGateOf == [e \in MCEvents |-> IF e \in {elsewhere, in2} THEN g2 ELSE g1]
MCPlateOf ==
    [e \in MCEvents |-> CASE e \in {in1, out1} -> car1 [] e = in2 -> car2 [] OTHER -> taxi]
MCTimeOf ==
    [e \in MCEvents |-> CASE e = second -> 1 [] e = third -> 2 [] e \in {leaves, out1} -> 3 [] OTHER -> 0]
MCEntering == MCEvents \ {leaves, out1}
MCUnclear == {in2}

ASSUME BarrierAssumption /\ ReviewsAssumption /\ IngestionAssumption

AccessInit ==
    /\ part \in {"commands", "reviews", "race", "switched", "events", "parking"}
    /\ Init /\ ReviewsInit /\ IngestionInit

Barriers ==
    /\ part = "commands" /\ Next
    /\ UNCHANGED <<part, reviewVars, ingestionVars>>

Disputes ==
    /\ ReviewsNext
    /\ \/ /\ part = "reviews" /\ toggles' = toggles
          /\ tx'[o2].at = "idle"
       \/ /\ part = "race" /\ toggles' = toggles
          /\ captured' \subseteq {r1}
          /\ \A p \in Procs : tx'[p].at # "idle" => tx'[p].review = r1
       \/ /\ part = "switched"
          /\ tx'[Worker].at = "idle"
          /\ \A p \in Operators : tx'[p].at # "idle" => tx'[p].kind \in {"receive", "allow", "deny"}
          /\ \A p, q \in Operators :
                p # q /\ tx'[p].at # "idle" /\ tx'[q].at # "idle" => tx'[p].review # tx'[q].review
    /\ UNCHANGED <<part, vars, ingestionVars>>

Ingestion ==
    /\ IngestionNext
    /\ \/ /\ part = "events"
          /\ \A p \in Handlers : work'[p].at # "idle" => work'[p].event \in Reports
          /\ inService'[g1]
       \/ /\ part = "parking"
          /\ \A p \in Handlers : work'[p].at # "idle" => work'[p].event \in Passages
          /\ pass' = pass
    /\ UNCHANGED <<part, vars, reviewVars>>

AccessNext == Barriers \/ Disputes \/ Ingestion

AccessSpec == AccessInit /\ [][AccessNext]_<<part, vars, reviewVars, ingestionVars>>

Symmetric == Permutations({o1, o2}) \cup Permutations({p1, p2})
==============================================================================
