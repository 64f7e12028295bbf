------------------------- MODULE RequestIntakeProofs -------------------------
(***************************************************************************)
(* Theorems about the intake of requests from group messages and from      *)
(* alerts, for any messages, alerts, handlers and bounds: types, and that  *)
(* whatever is repeated, pressed twice or forgotten by Redis becomes one   *)
(* request at most, under a number nobody had before.                      *)
(*                                                                         *)
(* The inductive invariant follows a message from hand to hand.  The mark  *)
(* gint:seen lets one handler through, which sends one prompt; from there  *)
(* its candidate is in one place: with a handler that has yet to store it, *)
(* in Redis, with the handler that popped it, in a request, or declined.   *)
(* The row of the counter is locked by whoever has taken a number, so that *)
(* the number is above all earlier ones when it is committed.              *)
(***************************************************************************)
EXTENDS RequestIntake, WellFoundedInduction, FiniteSetTheorems, TLAPS

\* The greatest of a bounded set of numbers is there.
LEMMA MaxOf ==
  ASSUME NEW b \in Nat, NEW S \in SUBSET (0 .. b), S # {}
  PROVE  Max(S) \in S /\ \A y \in S : y <= Max(S)
<1> DEFINE T == {b - x : x \in S}
           Less == {ss \in Nat \X Nat : ss[1] < ss[2]}
<1>1. \A x \in S : x \in Int /\ b - x \in Nat /\ b - x \in T
  OBVIOUS
<1>2. T \subseteq Nat /\ T # {}
  BY <1>1
<1>3. IsWellFoundedOn(Less, Nat)
  BY NatLessThanWellFounded, Zenon DEF OpToRel
<1>4. PICK t \in T : \A y \in T : ~(<<y, t>> \in Less)
  BY <1>2, <1>3, WFMin
<1>5. PICK x \in S : t = b - x
  OBVIOUS
<1>6. ASSUME NEW y \in S PROVE y <= x
  <2>1. ~(b - y < b - x)
    BY <1>1, <1>4, <1>5
  <2>2. QED
    BY <1>1, <2>1
<1>7. \E z \in S : \A y \in S : z >= y
  BY <1>1, <1>6
<1>8. QED
  BY <1>1, <1>7 DEF Max
-----------------------------------------------------------------------------
\* What a handler may be at, and with what.
IntakeJob ==
    {NoJob} \cup [at : {"fresh", "classified"}, m : Messages, kind : Kinds]
        \cup [at : {"prompted", "yes", "no", "other", "pick", "popped"}, p : Prompts]
        \cup [at : {"delivered"}, e : EventIds, replay : BOOLEAN]
        \cup [at : {"ignored"}, source : EventIds \ Alerts, p : {0}]
        \cup [at : {"allowed"}, source : Messages \cup EventIds, p : Prompts \cup {0}]
        \cup [at : {"numbered"}, source : Messages \cup EventIds, p : Prompts \cup {0}, n : 1 .. MaxNumber]

Prompt == [m : Messages, kind : Kinds, choice : BOOLEAN]
Record == [number : 1 .. MaxNumber, source : Messages \cup EventIds \cup {"elsewhere"}, p : Prompts \cup {0}]

Typing ==
    /\ group \in Kinds \cup {"off"} /\ standing \subseteq Kinds
    /\ known \subseteq Messages /\ nonce \subseteq EventIds
    /\ sent \in [Prompts -> Prompt \cup {NoPrompt}]
    /\ cand \in [Prompts -> {"none", "picking", "ready"}]
    /\ requests \subseteq 1 .. MaxNumber /\ counter \in 0 .. MaxNumber
    /\ inbox \subseteq [event : EventIds, number : 0 .. MaxNumber]
    /\ made \subseteq Record
    /\ declined \subseteq Prompts
    /\ calls \in [Handlers -> IntakeJob]

\* The row of the counter is locked: one transaction at most has taken a number, a greater
\* one than any before.
Numbering ==
    /\ \A h, g \in Handlers : calls[h].at = "numbered" /\ calls[g].at = "numbered" => h = g
    /\ \A h \in Handlers : calls[h].at = "numbered" => calls[h].n > counter
    /\ \A r \in made : r.number <= counter
    /\ \A r, s \in made : r.number = s.number => r = s

\* mark_seen lets one handler through for each message, and one prompt comes of it.
OnePromptEach ==
    /\ \A h \in Handlers : calls[h].at = "classified" => calls[h].m \in known
    /\ \A h, g \in Handlers : calls[h].at = "classified" /\ calls[g].at = "classified"
                               /\ calls[h].m = calls[g].m => h = g
    /\ \A p \in Prompts : sent[p] # NoPrompt => sent[p].m \in known
    /\ \A p \in Prompts, h \in Handlers :
          sent[p] # NoPrompt /\ calls[h].at = "classified" => calls[h].m # sent[p].m
    /\ \A p, q \in Prompts : sent[p] # NoPrompt /\ sent[p].m = sent[q].m => p = q

\* Whoever deals with a prompt deals with one that was sent, and what comes of it has the
\* message as its source.
PromptsKnown ==
    /\ \A h \in Handlers : calls[h].at \in {"prompted", "yes", "no", "other", "pick", "popped"}
          => sent[calls[h].p] # NoPrompt
    /\ \A h \in Handlers : calls[h].at \in {"allowed", "numbered"} =>
          IF calls[h].p = 0 THEN calls[h].source \in EventIds
          ELSE sent[calls[h].p] # NoPrompt /\ calls[h].source = sent[calls[h].p].m
    /\ \A p \in Prompts : cand[p] # "none" \/ p \in declined => sent[p] # NoPrompt
    /\ \A r \in made : IF r.p = 0 THEN r.source \in EventIds \cup {"elsewhere"}
                        ELSE sent[r.p] # NoPrompt /\ r.source = sent[r.p].m

\* The candidate of a prompt without a choice passes from hand to hand: a handler that has
\* yet to store it or has taken it, Redis, the request, or "no".
Holds(h, p) == calls[h].at \in {"prompted", "popped", "allowed", "numbered"} /\ calls[h].p = p
Made(p) == \E r \in made : r.p = p
OneHand ==
    \A p \in Prompts : ~sent[p].choice =>
        /\ \A h, g \in Handlers : Holds(h, p) /\ Holds(g, p) => h = g
        /\ \A h \in Handlers : Holds(h, p) => cand[p] = "none" /\ p \notin declined /\ ~Made(p)
        /\ cand[p] # "none" => cand[p] = "ready" /\ p \notin declined /\ ~Made(p)
        /\ p \in declined => ~Made(p)
        /\ \A h \in Handlers : ~(calls[h].at = "pick" /\ calls[h].p = p)
        /\ \A r, s \in made : r.p = p /\ s.p = p => r = s

\* An alert has one request at most.
OneAlertEach == \A r, s \in made : r.source \in EventIds /\ r.source = s.source => r = s

IInv == Typing /\ Numbering /\ OnePromptEach /\ PromptsKnown /\ OneHand /\ InboxTrue /\ OneAlertEach
-----------------------------------------------------------------------------
\* What each kind of job holds.
LEMMA JobFields ==
  ASSUME NEW job \in IntakeJob
  PROVE  /\ job.at \in {"idle", "fresh", "classified", "prompted", "yes", "no", "other", "pick", "popped",
                        "delivered", "ignored", "allowed", "numbered"}
         /\ job.at = "idle" => job = NoJob
         /\ job.at \in {"fresh", "classified"} => job \in [at : {"fresh", "classified"}, m : Messages, kind : Kinds]
         /\ job.at \in {"prompted", "yes", "no", "other", "pick", "popped"} => job.p \in Prompts
         /\ job.at = "delivered" => job.e \in EventIds
         /\ job.at = "ignored" => job.source \in EventIds
         /\ job.at \in {"allowed", "numbered"} =>
                job.source \in Messages \cup EventIds /\ job.p \in Prompts \cup {0}
         /\ job.at = "numbered" => job.n \in 1 .. MaxNumber
BY DEF IntakeJob, NoJob

\* What Sets makes of the jobs.
LEMMA Setting ==
  ASSUME Typing, NEW h \in Handlers, NEW job \in IntakeJob, Sets(h, job)
  PROVE  /\ calls' \in [Handlers -> IntakeJob]
         /\ calls'[h] = job
         /\ \A g \in Handlers : g # h => calls'[g] = calls[g]
BY DEF Typing, Sets

\* A handler moves on and writes nothing that is shared: the invariant stays when the new
\* job meets the conditions, each of which is what one part says of a handler.
LEMMA MovesOn ==
  ASSUME IInv, NEW h \in Handlers, NEW job \in IntakeJob, Sets(h, job),
         UNCHANGED <<known, sent, cand, requests, counter, inbox, made, declined>>,
         group' \in Kinds \cup {"off"}, standing' \subseteq Kinds, nonce' \subseteq EventIds,
         job.at \notin {"classified", "prompted"},
         job.at = "numbered" => job.n > counter /\ \A g \in Handlers : calls[g].at # "numbered",
         job.at \in {"yes", "no", "other", "pick", "popped"} => sent[job.p] # NoPrompt,
         job.at = "pick" => sent[job.p].choice,
         job.at \in {"allowed", "numbered"} =>
             IF job.p = 0 THEN job.source \in EventIds
             ELSE sent[job.p] # NoPrompt /\ job.source = sent[job.p].m,
         job.at \in {"popped", "allowed", "numbered"} /\ job.p # 0 => sent[job.p].choice \/ Holds(h, job.p)
  PROVE  IInv'
<1> USE DEF IInv
<1>1. /\ calls' \in [Handlers -> IntakeJob] /\ calls'[h] = job
      /\ \A g \in Handlers : g # h => calls'[g] = calls[g]
  BY Setting
<1>2. Typing'
  BY <1>1 DEF Typing
<1>3. Numbering'
  BY <1>1 DEF Numbering
<1>4. OnePromptEach'
  BY <1>1 DEF OnePromptEach
<1>5. PromptsKnown'
  BY <1>1 DEF PromptsKnown
<1>6. \A g \in Handlers, p \in Prompts : ~sent[p].choice /\ Holds(g, p)' => Holds(g, p)
  <2> SUFFICES ASSUME NEW g \in Handlers, NEW p \in Prompts, ~sent[p].choice, Holds(g, p)'
               PROVE  Holds(g, p)
    OBVIOUS
  <2>1. CASE g = h
    <3>1. job.at \in {"popped", "allowed", "numbered"} /\ job.p = p /\ p # 0
      BY <1>1, <2>1 DEF Holds, Prompts
    <3>2. QED
      BY <3>1, <2>1
  <2>2. CASE g # h
    BY <1>1, <2>2 DEF Holds
  <2>3. QED
    BY <2>1, <2>2
<1>7. \A p \in Prompts : Made(p)' <=> Made(p)
  BY DEF Made
<1>8. OneHand'
  BY <1>1, <1>6, <1>7 DEF OneHand
<1>9. InboxTrue' /\ OneAlertEach'
  BY DEF InboxTrue, OneAlertEach
<1>10. QED
  BY <1>2, <1>3, <1>4, <1>5, <1>8, <1>9

\* request_number_counters: the next number is above every number committed before.
LEMMA NextNumberAbove ==
  ASSUME IntakeAssumption, Typing, NextNumber <= MaxNumber
  PROVE  NextNumber \in 1 .. MaxNumber /\ NextNumber > counter
<1>1. MaxNumber \in Nat /\ counter \in Nat
  BY DEF IntakeAssumption, Typing
<1>2. Max(requests \cup {0}) \in Nat
  <2>1. requests \cup {0} \in SUBSET (0 .. MaxNumber) /\ requests \cup {0} # {}
    BY <1>1 DEF Typing
  <2>2. Max(requests \cup {0}) \in requests \cup {0}
    BY <1>1, <2>1, MaxOf, Zenon
  <2>3. QED
    BY <1>1, <2>1, <2>2
<1>3. QED
  BY <1>1, <1>2 DEF NextNumber, NextFree

-----------------------------------------------------------------------------
\* Each action keeps the invariant.  First those that touch nothing shared.
LEMMA ArriveKeeps ==
  ASSUME IntakeAssumption, IInv, NEW h \in Handlers, NEW m \in Messages, Arrive(h, m)
  PROVE  IInv'
<1>1. group \in Kinds
  BY DEF Arrive, IInv, Typing
<1>2. [at |-> "fresh", m |-> m, kind |-> group] \in IntakeJob
  BY <1>1 DEF IntakeJob
<1>3. QED
  BY <1>2, MovesOn DEF Arrive, IInv, Typing, people, redis, tables

\* A button of a prompt that was sent.
LEMMA PressKeeps ==
  ASSUME IntakeAssumption, IInv, NEW h \in Handlers, NEW p \in Prompts,
         NEW b \in {"yes", "no", "other", "pick"}, Press(h, p, b)
  PROVE  IInv'
<1>1. [at |-> b, p |-> p] \in IntakeJob
  BY DEF IntakeJob
<1>2. sent[p] # NoPrompt /\ (b = "pick" => sent[p].choice)
  BY DEF Press, IInv, PromptsKnown, OneHand, Typing, Prompt, NoPrompt
<1>3. QED
  BY <1>1, <1>2, MovesOn DEF Press, IInv, Typing, people, redis, tables

\* A delivery of an alert.
LEMMA DeliverKeeps ==
  ASSUME IntakeAssumption, IInv, NEW h \in Handlers, NEW e \in EventIds, DeliverAlert(h, e)
  PROVE  IInv'
<1>1. PICK fails \in BOOLEAN : Sets(h, [at |-> "delivered", e |-> e, replay |-> ~fails /\ e \in nonce])
  BY DEF DeliverAlert
<1>2. [at |-> "delivered", e |-> e, replay |-> ~fails /\ e \in nonce] \in IntakeJob
  BY DEF IntakeJob
<1>3. nonce' \subseteq EventIds
  BY DEF DeliverAlert, IInv, Typing
<1>4. QED
  BY <1>1, <1>2, <1>3, MovesOn DEF DeliverAlert, IInv, Typing, people, redis, tables

\* The second look at the gate: the handler goes on holding the candidate.
LEMMA RegateKeeps ==
  ASSUME IntakeAssumption, IInv, NEW h \in Handlers, Regate(h)
  PROVE  IInv'
<1> DEFINE p == calls[h].p
           next == [at |-> "allowed", source |-> sent[p].m, p |-> p]
<1>1. p \in Prompts /\ sent[p] \in Prompt
  BY JobFields DEF Regate, IInv, Typing, PromptsKnown
<1>2. CASE Sets(h, next)
  <2>1. next \in IntakeJob
    BY <1>1 DEF IntakeJob, Prompt
  <2>2. sent[p] # NoPrompt /\ Holds(h, p) /\ p # 0
    BY <1>1 DEF Regate, IInv, PromptsKnown, Holds, Prompts
  <2>3. QED
    BY <1>2, <2>1, <2>2, MovesOn DEF Regate, IInv, Typing, people, redis, tables
<1>3. CASE Sets(h, NoJob)
  BY <1>3, MovesOn DEF Regate, IInv, Typing, people, redis, tables, IntakeJob, NoJob
<1>4. QED
  BY <1>2, <1>3 DEF Regate, Ends

\* The search in the inbox.
LEMMA LookUpKeeps ==
  ASSUME IntakeAssumption, IInv, NEW h \in Handlers, LookUp(h)
  PROVE  IInv'
<1> DEFINE e == calls[h].e
<1>1. e \in EventIds
  BY JobFields DEF LookUp, IInv, Typing
<1>2. CASE Sets(h, NoJob)
  BY <1>2, MovesOn DEF LookUp, IInv, Typing, people, redis, tables, IntakeJob, NoJob
<1>3. CASE Sets(h, [at |-> "allowed", source |-> e, p |-> 0])
  BY <1>1, <1>3, MovesOn DEF LookUp, IInv, Typing, people, redis, tables, IntakeJob
<1>4. CASE e \notin Alerts /\ Sets(h, [at |-> "ignored", source |-> e, p |-> 0])
  BY <1>1, <1>4, MovesOn DEF LookUp, IInv, Typing, people, redis, tables, IntakeJob
<1>5. QED
  BY <1>2, <1>3, <1>4 DEF LookUp

\* The counter is free, so that the number is above all others and stays so.
LEMMA TakeNumberKeeps ==
  ASSUME IntakeAssumption, IInv, NEW h \in Handlers, TakeNumber(h)
  PROVE  IInv'
<1> DEFINE job == calls[h]
           next == [at |-> "numbered", source |-> job.source, p |-> job.p, n |-> NextNumber]
<1>1. /\ job.source \in Messages \cup EventIds /\ job.p \in Prompts \cup {0}
      /\ NextNumber \in 1 .. MaxNumber /\ NextNumber > counter
  BY JobFields, NextNumberAbove DEF TakeNumber, IInv, Typing
<1>2. next \in IntakeJob
  BY <1>1 DEF IntakeJob
<1>3. \A g \in Handlers : calls[g].at # "numbered"
  BY DEF TakeNumber, CounterFree
<1>4. /\ Holds(h, job.p)
      /\ IF job.p = 0 THEN job.source \in EventIds
         ELSE sent[job.p] # NoPrompt /\ job.source = sent[job.p].m
  BY DEF TakeNumber, IInv, PromptsKnown, Holds
<1>5. QED
  BY <1>1, <1>2, <1>3, <1>4, MovesOn DEF TakeNumber, IInv, Typing, people, redis, tables

\* A handler that ends leaves everything as it is.
LEMMA FailKeeps ==
  ASSUME IntakeAssumption, IInv, NEW h \in Handlers, Fail(h)
  PROVE  IInv'
BY MovesOn DEF Fail, Ends, IInv, Typing, people, redis, tables, IntakeJob, NoJob
-----------------------------------------------------------------------------
\* Nobody else is past the mark with the same message.
LEMMA MarkSeenKeeps ==
  ASSUME IntakeAssumption, IInv, NEW h \in Handlers, MarkSeen(h)
  PROVE  IInv'
<1> USE DEF IInv
<1> DEFINE job == [calls[h] EXCEPT !.at = "classified"]
<1>1. calls[h] \in [at : {"fresh", "classified"}, m : Messages, kind : Kinds]
  BY JobFields DEF MarkSeen, Typing
<1>2. job \in IntakeJob /\ job.at = "classified" /\ job.m = calls[h].m /\ job.m \in Messages
  BY <1>1 DEF IntakeJob
<1>3. /\ calls' \in [Handlers -> IntakeJob] /\ calls'[h] = job
      /\ \A g \in Handlers : g # h => calls'[g] = calls[g]
  BY <1>2, Setting DEF MarkSeen
<1>4. known' = known \cup {job.m} /\ job.m \notin known
  BY <1>2 DEF MarkSeen, Unseen
<1>5. UNCHANGED <<group, standing, sent, cand, nonce, requests, counter, inbox, made, declined>>
  BY DEF MarkSeen, people, tables
<1> HIDE DEF job
<1>6. Typing'
  BY <1>2, <1>3, <1>4, <1>5 DEF Typing
<1>7. Numbering'
  BY <1>2, <1>3, <1>5 DEF Numbering
<1>8. OnePromptEach'
  <2>1. \A g \in Handlers : calls'[g].at = "classified" => calls'[g].m \in known'
    BY <1>2, <1>3, <1>4 DEF OnePromptEach
  <2>2. \A g \in Handlers : g # h /\ calls'[g].at = "classified" => calls'[g].m # job.m
    BY <1>3, <1>4 DEF OnePromptEach
  <2>3. \A g, k \in Handlers : calls'[g].at = "classified" /\ calls'[k].at = "classified"
                               /\ calls'[g].m = calls'[k].m => g = k
    BY <1>2, <1>3, <2>2 DEF OnePromptEach
  <2>4. \A p \in Prompts : sent'[p] # NoPrompt => sent'[p].m \in known' /\ sent'[p].m # job.m
    BY <1>4, <1>5 DEF OnePromptEach
  <2>5. \A p \in Prompts, g \in Handlers :
           sent'[p] # NoPrompt /\ calls'[g].at = "classified" => calls'[g].m # sent'[p].m
    BY <1>2, <1>3, <1>5, <2>4 DEF OnePromptEach
  <2>6. QED
    BY <1>5, <2>1, <2>3, <2>4, <2>5 DEF OnePromptEach
<1>9. PromptsKnown'
  BY <1>2, <1>3, <1>5 DEF PromptsKnown
<1>10. OneHand'
  <2>1. \A p \in Prompts, g \in Handlers : Holds(g, p)' => Holds(g, p)
    BY <1>2, <1>3 DEF Holds
  <2>2. \A p \in Prompts : Made(p)' <=> Made(p)
    BY <1>5 DEF Made
  <2>3. QED
    BY <1>2, <1>3, <1>5, <2>1, <2>2 DEF OneHand
<1>11. InboxTrue' /\ OneAlertEach'
  BY <1>5 DEF InboxTrue, OneAlertEach
<1>12. QED
  BY <1>6, <1>7, <1>8, <1>9, <1>10, <1>11

\* The one prompt of the message; its candidate is with the handler.
LEMMA SendPromptKeeps ==
  ASSUME IntakeAssumption, IInv, NEW h \in Handlers, SendPrompt(h)
  PROVE  IInv'
<1> USE DEF IInv
<1>1. PICK p \in Prompts, choice \in BOOLEAN :
        /\ sent[p] = NoPrompt
        /\ sent' = [sent EXCEPT ![p] = [m |-> calls[h].m, kind |-> calls[h].kind, choice |-> choice]]
        /\ Sets(h, [at |-> "prompted", p |-> p])
  BY DEF SendPrompt
<1> DEFINE new == [m |-> calls[h].m, kind |-> calls[h].kind, choice |-> choice]
<1>2. calls[h].at = "classified" /\ calls[h].m \in Messages /\ calls[h].kind \in Kinds
  BY JobFields DEF SendPrompt, Typing
<1>3. /\ calls' \in [Handlers -> IntakeJob] /\ calls'[h] = [at |-> "prompted", p |-> p]
      /\ \A g \in Handlers : g # h => calls'[g] = calls[g]
  <2>1. [at |-> "prompted", p |-> p] \in IntakeJob
    BY DEF IntakeJob
  <2>2. QED
    BY <1>1, <2>1, Setting
<1>4. UNCHANGED <<group, standing, known, cand, nonce, requests, counter, inbox, made, declined>>
  BY DEF SendPrompt, people, redis, tables
<1>5. new \in Prompt /\ new # NoPrompt
  BY <1>2 DEF Prompt, NoPrompt, IntakeAssumption
<1>6. /\ sent' \in [Prompts -> Prompt \cup {NoPrompt}] /\ sent'[p] = new
      /\ \A q \in Prompts : q # p => sent'[q] = sent[q]
  BY <1>1, <1>5 DEF Typing
<1>7. Typing'
  BY <1>3, <1>4, <1>6 DEF Typing
<1>8. Numbering'
  BY <1>3, <1>4 DEF Numbering
<1>9. OnePromptEach'
  <2>1. \A q \in Prompts : q # p => sent[q] = NoPrompt \/ sent[q].m # calls[h].m
    BY <1>2 DEF OnePromptEach
  <2>2. \A q \in Prompts : sent'[q] # NoPrompt => sent'[q].m \in known
    BY <1>2, <1>6 DEF OnePromptEach
  <2>3. \A q \in Prompts, g \in Handlers :
           sent'[q] # NoPrompt /\ calls'[g].at = "classified" => calls'[g].m # sent'[q].m
    BY <1>2, <1>3, <1>6 DEF OnePromptEach
  <2>4. \A q, k \in Prompts : sent'[q] # NoPrompt /\ sent'[q].m = sent'[k].m => q = k
    <3> SUFFICES ASSUME NEW q \in Prompts, NEW k \in Prompts,
                        sent'[q] # NoPrompt, sent'[q].m = sent'[k].m, q # k
                 PROVE  FALSE
      OBVIOUS
    <3>1. NoPrompt.m \notin Messages
      BY DEF NoPrompt, IntakeAssumption
    <3>2. sent'[q].m \in Messages
      BY <1>6 DEF Prompt
    <3>3. sent'[k] # NoPrompt
      BY <3>1, <3>2
    <3>4. CASE q = p
      BY <1>6, <2>1, <3>3, <3>4
    <3>5. CASE k = p
      BY <1>6, <2>1, <3>5
    <3>6. CASE q # p /\ k # p
      BY <1>6, <3>6 DEF OnePromptEach
    <3>7. QED
      BY <3>4, <3>5, <3>6
  <2>5. QED
    BY <1>2, <1>3, <1>4, <2>2, <2>3, <2>4 DEF OnePromptEach
<1>10. PromptsKnown'
  BY <1>1, <1>3, <1>4, <1>5, <1>6, JobFields DEF PromptsKnown, Typing, Record
<1>11. OneHand'
  <2>1. /\ cand[p] = "none" /\ p \notin declined /\ ~Made(p)
        /\ \A g \in Handlers : ~Holds(g, p) /\ ~(calls[g].at = "pick" /\ calls[g].p = p)
    BY <1>1 DEF PromptsKnown, Made, Holds, Prompts
  <2>2. \A q \in Prompts, g \in Handlers : Holds(g, q)' <=> IF g = h THEN q = p ELSE Holds(g, q)
    BY <1>3 DEF Holds
  <2>3. \A q \in Prompts : q # p => ~Holds(h, q)
    BY <1>2 DEF Holds
  <2>4. \A q \in Prompts : Made(q)' <=> Made(q)
    BY <1>4 DEF Made
  <2>5. ~ \E r \in made : r.p = p
    BY <2>1 DEF Made
  <2>6. QED
    BY <1>2, <1>3, <1>4, <1>6, <2>1, <2>2, <2>3, <2>4, <2>5 DEF OneHand
<1>12. InboxTrue' /\ OneAlertEach'
  BY <1>4 DEF InboxTrue, OneAlertEach
<1>13. QED
  BY <1>7, <1>8, <1>9, <1>10, <1>11, <1>12
-----------------------------------------------------------------------------
\* The candidate passes from the handler to Redis.
LEMMA StoreCandidateKeeps ==
  ASSUME IntakeAssumption, IInv, NEW h \in Handlers, StoreCandidate(h)
  PROVE  IInv'
<1> USE DEF IInv
<1> DEFINE p == calls[h].p
<1>1. calls[h].at = "prompted" /\ p \in Prompts /\ sent[p] # NoPrompt
  BY JobFields DEF StoreCandidate, Typing, PromptsKnown
<1>2. /\ calls' \in [Handlers -> IntakeJob] /\ calls'[h] = NoJob
      /\ \A g \in Handlers : g # h => calls'[g] = calls[g]
  BY Setting DEF StoreCandidate, Ends, IntakeJob
<1>3. /\ cand' \in [Prompts -> {"none", "picking", "ready"}]
      /\ cand'[p] = IF sent[p].choice THEN "picking" ELSE "ready"
      /\ \A q \in Prompts : q # p => cand'[q] = cand[q]
  BY <1>1 DEF StoreCandidate, Typing
<1>4. UNCHANGED <<group, standing, known, sent, nonce, requests, counter, inbox, made, declined>>
  BY DEF StoreCandidate, people, tables
<1>5. Typing'
  BY <1>2, <1>3, <1>4 DEF Typing
<1>6. Numbering' /\ OnePromptEach'
  BY <1>2, <1>4 DEF Numbering, OnePromptEach, NoJob
<1>7. PromptsKnown'
  BY <1>1, <1>2, <1>3, <1>4 DEF PromptsKnown, NoJob
<1>8. OneHand'
  <2>1. \A q \in Prompts, g \in Handlers : Holds(g, q)' <=> g # h /\ Holds(g, q)
    BY <1>2 DEF Holds, NoJob
  <2>2. \A q \in Prompts : Made(q)' <=> Made(q)
    BY <1>4 DEF Made
  <2>3. Holds(h, p)
    BY <1>1 DEF Holds
  <2>4. QED
    BY <1>1, <1>2, <1>3, <1>4, <2>1, <2>2, <2>3 DEF OneHand, NoJob
<1>9. InboxTrue' /\ OneAlertEach'
  BY <1>4 DEF InboxTrue, OneAlertEach
<1>10. QED
  BY <1>5, <1>6, <1>7, <1>8, <1>9

\* Only a prompt with a choice of addresses is picked from.
LEMMA PickKeeps ==
  ASSUME IntakeAssumption, IInv, NEW h \in Handlers, PickAddress(h)
  PROVE  IInv'
<1> USE DEF IInv
<1> DEFINE p == calls[h].p
<1>1. calls[h].at = "pick" /\ p \in Prompts /\ sent[p] # NoPrompt /\ sent[p].choice
  <2>1. calls[h].at = "pick" /\ p \in Prompts /\ sent[p] # NoPrompt
    BY JobFields DEF PickAddress, Typing, PromptsKnown
  <2>2. QED
    BY <2>1 DEF OneHand
<1>2. /\ calls' \in [Handlers -> IntakeJob] /\ calls'[h] = NoJob
      /\ \A g \in Handlers : g # h => calls'[g] = calls[g]
  BY Setting DEF PickAddress, Ends, IntakeJob
<1>3. /\ cand' \in [Prompts -> {"none", "picking", "ready"}]
      /\ \A q \in Prompts : q # p => cand'[q] = cand[q]
  BY <1>1 DEF PickAddress, Typing
<1>4. UNCHANGED <<group, standing, known, sent, nonce, requests, counter, inbox, made, declined>>
  BY DEF PickAddress, people, tables
<1>5. Typing'
  BY <1>2, <1>3, <1>4 DEF Typing
<1>6. Numbering' /\ OnePromptEach'
  BY <1>2, <1>4 DEF Numbering, OnePromptEach, NoJob
<1>7. PromptsKnown'
  BY <1>1, <1>2, <1>3, <1>4 DEF PromptsKnown, NoJob
<1>8. OneHand'
  <2>1. \A q \in Prompts, g \in Handlers : Holds(g, q)' <=> g # h /\ Holds(g, q)
    BY <1>2 DEF Holds, NoJob
  <2>2. \A q \in Prompts : Made(q)' <=> Made(q)
    BY <1>4 DEF Made
  <2>3. QED
    BY <1>1, <1>2, <1>3, <1>4, <2>1, <2>2 DEF OneHand, NoJob
<1>9. InboxTrue' /\ OneAlertEach'
  BY <1>4 DEF InboxTrue, OneAlertEach
<1>10. QED
  BY <1>5, <1>6, <1>7, <1>8, <1>9

Popped(p) == [at |-> "popped", p |-> p]

\* A candidate leaves Redis: it is forgotten, declined, or popped by one handler.
LEMMA Taken ==
  ASSUME IInv, NEW p \in Prompts, sent[p] # NoPrompt,
         cand' = [cand EXCEPT ![p] = "none"],
         declined' \in {declined} \cup (IF cand[p] = "none" THEN {} ELSE {declined \cup {p}}),
         UNCHANGED <<group, standing, known, sent, nonce, requests, counter, inbox, made>>,
         calls' \in [Handlers -> IntakeJob],
         \A g \in Handlers :
            \/ calls'[g] \in {calls[g], NoJob}
            \/ /\ calls'[g] = Popped(p) /\ cand[p] # "none" /\ declined' = declined
               /\ \A h \in Handlers : h # g => calls'[h] = calls[h]
  PROVE  IInv'
<1> USE DEF IInv
<1>1. /\ cand' \in [Prompts -> {"none", "picking", "ready"}] /\ cand'[p] = "none"
      /\ \A q \in Prompts : q # p => cand'[q] = cand[q]
  BY DEF Typing
<1>2. declined \subseteq declined' /\ declined' \subseteq declined \cup {p}
      /\ (p \in declined' /\ p \notin declined => cand[p] # "none")
  OBVIOUS
<1>3. Typing'
  BY <1>1, <1>2 DEF Typing
<1>4. Numbering' /\ OnePromptEach'
  BY DEF Numbering, OnePromptEach, NoJob, Popped
<1>5. PromptsKnown'
  BY <1>1, <1>2 DEF PromptsKnown, NoJob, Popped
<1>6. OneHand'
  <2>1. \A q \in Prompts : Made(q)' <=> Made(q)
    BY DEF Made
  <2>2. \A q \in Prompts, g \in Handlers :
           Holds(g, q)' => \/ Holds(g, q)
                            \/ /\ q = p /\ cand[p] # "none" /\ declined' = declined
                               /\ \A h \in Handlers : h # g => Holds(h, q)' = Holds(h, q)
    BY DEF Holds, NoJob, Popped
  <2>3. \A g \in Handlers, q \in Prompts : calls'[g].at = "pick" /\ calls'[g].p = q
           => calls[g].at = "pick" /\ calls[g].p = q
    BY DEF NoJob, Popped
  <2>4. ASSUME NEW q \in Prompts, ~sent[q].choice, q # p
        PROVE  /\ \A h, g \in Handlers : Holds(h, q)' /\ Holds(g, q)' => h = g
               /\ \A h \in Handlers : Holds(h, q)' => cand'[q] = "none" /\ q \notin declined' /\ ~Made(q)
               /\ cand'[q] # "none" => cand'[q] = "ready" /\ q \notin declined' /\ ~Made(q)
               /\ q \in declined' => ~Made(q)
    BY <1>1, <1>2, <2>2, <2>4 DEF OneHand
  <2>5. ASSUME ~sent[p].choice
        PROVE  /\ \A h, g \in Handlers : Holds(h, p)' /\ Holds(g, p)' => h = g
               /\ \A h \in Handlers : Holds(h, p)' => p \notin declined' /\ ~Made(p)
               /\ p \in declined' => ~Made(p)
    <3>1. CASE cand[p] = "none"
      BY <1>2, <2>2, <2>5, <3>1 DEF OneHand
    <3>2. CASE cand[p] # "none"
      BY <1>2, <2>2, <2>5, <3>2 DEF OneHand
    <3>3. QED
      BY <3>1, <3>2
  <2>6. QED
    BY <1>1, <2>1, <2>3, <2>4, <2>5 DEF OneHand
<1>7. InboxTrue' /\ OneAlertEach'
  BY DEF InboxTrue, OneAlertEach
<1>8. QED
  BY <1>3, <1>4, <1>5, <1>6, <1>7

\* "No" and "other address" take the candidate, if there is one.
LEMMA DeclineKeeps ==
  ASSUME IntakeAssumption, IInv, NEW h \in Handlers, Decline(h)
  PROVE  IInv'
<1> DEFINE p == calls[h].p
<1>1. p \in Prompts /\ sent[p] # NoPrompt
  BY JobFields DEF Decline, IInv, Typing, PromptsKnown
<1>2. /\ calls' \in [Handlers -> IntakeJob] /\ calls'[h] = NoJob
      /\ \A g \in Handlers : g # h => calls'[g] = calls[g]
  BY Setting DEF Decline, Ends, IntakeJob, IInv
<1>3. declined' \in {declined} \cup (IF cand[p] = "none" THEN {} ELSE {declined \cup {p}})
  BY DEF Decline
<1>4. /\ cand' = [cand EXCEPT ![p] = "none"]
      /\ UNCHANGED <<group, standing, known, sent, nonce, requests, counter, inbox, made>>
  BY DEF Decline, people, tables
<1>5. \A g \in Handlers : calls'[g] \in {calls[g], NoJob}
  BY <1>2
<1> HIDE DEF p
<1>6. QED
  BY <1>1, <1>2, <1>3, <1>4, <1>5, Taken

\* "Yes" takes the candidate to the handler.
LEMMA ConfirmKeeps ==
  ASSUME IntakeAssumption, IInv, NEW h \in Handlers, Confirm(h)
  PROVE  IInv'
<1> DEFINE p == calls[h].p
<1>1. p \in Prompts /\ sent[p] # NoPrompt
  BY JobFields DEF Confirm, IInv, Typing, PromptsKnown
<1>2. PICK job \in {NoJob} \cup (IF cand[p] # "none" THEN {Popped(p)} ELSE {}) : Sets(h, job)
  BY DEF Confirm, Ends, Popped, Stands
<1>3. /\ calls' \in [Handlers -> IntakeJob] /\ calls'[h] = job
      /\ \A g \in Handlers : g # h => calls'[g] = calls[g]
  <2>1. job \in IntakeJob
    BY <1>1, <1>2 DEF IntakeJob, Popped
  <2>2. QED
    BY <1>2, <2>1, Setting DEF IInv
<1>4. /\ cand' = [cand EXCEPT ![p] = "none"] /\ declined' = declined
      /\ UNCHANGED <<group, standing, known, sent, nonce, requests, counter, inbox, made>>
  BY DEF Confirm, people, tables
<1>5. \A g \in Handlers :
         \/ calls'[g] \in {calls[g], NoJob}
         \/ /\ calls'[g] = Popped(p) /\ cand[p] # "none" /\ declined' = declined
            /\ \A k \in Handlers : k # g => calls'[k] = calls[k]
  BY <1>2, <1>3, <1>4
<1>6. declined' \in {declined} \cup (IF cand[p] = "none" THEN {} ELSE {declined \cup {p}})
  BY <1>4
<1> HIDE DEF p
<1>7. QED
  BY <1>1, <1>3, <1>4, <1>5, <1>6, Taken

\* Redis forgets a candidate or a nonce.
LEMMA ExpireKeeps ==
  ASSUME IntakeAssumption, IInv, Expire
  PROVE  IInv'
<1>1. CASE \E p \in Prompts : cand[p] # "none" /\ cand' = [cand EXCEPT ![p] = "none"] /\ UNCHANGED nonce
  <2>1. PICK p \in Prompts : cand[p] # "none" /\ cand' = [cand EXCEPT ![p] = "none"] /\ UNCHANGED nonce
    BY <1>1
  <2>2. sent[p] # NoPrompt
    BY <2>1 DEF IInv, PromptsKnown
  <2>3. UNCHANGED <<group, standing, known, sent, nonce, requests, counter, inbox, made, declined, calls>>
    BY <2>1 DEF Expire, people, tables
  <2>4. calls' \in [Handlers -> IntakeJob] /\ \A g \in Handlers : calls'[g] \in {calls[g], NoJob}
    BY <2>3 DEF IInv, Typing
  <2>5. QED
    BY <2>1, <2>2, <2>3, <2>4, Taken
<1>2. CASE nonce' \subseteq nonce /\ UNCHANGED cand
  <2>1. UNCHANGED <<group, standing, known, sent, cand, requests, counter, inbox, made, declined, calls>>
    BY <1>2 DEF Expire, people, tables
  <2>2. Typing' /\ Numbering' /\ OnePromptEach' /\ PromptsKnown'
    BY <1>2, <2>1 DEF IInv, Typing, Numbering, OnePromptEach, PromptsKnown
  <2>3. OneHand' /\ InboxTrue' /\ OneAlertEach'
    BY <1>2, <2>1 DEF IInv, OneHand, Holds, Made, InboxTrue, OneAlertEach
  <2>4. QED
    BY <2>2, <2>3 DEF IInv
<1>3. QED
  BY <1>1, <1>2 DEF Expire
-----------------------------------------------------------------------------
\* An event that asks for no request is recorded with number 0.
LEMMA IgnoreKeeps ==
  ASSUME IntakeAssumption, IInv, NEW h \in Handlers, Ignore(h)
  PROVE  IInv'
<1> USE DEF IInv
<1> DEFINE e == calls[h].source
<1>1. e \in EventIds
  BY JobFields DEF Ignore, Typing
<1>2. /\ calls' \in [Handlers -> IntakeJob] /\ calls'[h] = NoJob
      /\ \A g \in Handlers : g # h => calls'[g] = calls[g]
  BY Setting DEF Ignore, Ends, IntakeJob
<1>3. /\ UNCHANGED <<group, standing, known, sent, cand, nonce, requests, counter, made, declined>>
      /\ inbox' = inbox \/ inbox' = inbox \cup {[event |-> e, number |-> 0]}
  BY DEF Ignore, people, redis
<1>4. Typing'
  BY <1>1, <1>2, <1>3 DEF Typing, IntakeAssumption
<1>5. Numbering' /\ OnePromptEach'
  BY <1>2, <1>3 DEF Numbering, OnePromptEach, NoJob
<1>6. PromptsKnown'
  BY <1>2, <1>3 DEF PromptsKnown, NoJob
<1>7. OneHand'
  <2>1. \A q \in Prompts, g \in Handlers : Holds(g, q)' => Holds(g, q)
    BY <1>2 DEF Holds, NoJob
  <2>2. \A q \in Prompts : Made(q)' <=> Made(q)
    BY <1>3 DEF Made
  <2>3. QED
    BY <1>2, <1>3, <2>1, <2>2 DEF OneHand, NoJob
<1>8. {row \in inbox' : row.number # 0} = {row \in inbox : row.number # 0}
  BY <1>3
<1>9. InboxTrue' /\ OneAlertEach'
  BY <1>3, <1>8 DEF InboxTrue, OneAlertEach
<1>10. QED
  BY <1>4, <1>5, <1>6, <1>7, <1>9

\* A request is committed under a number above all others, for a prompt that had come to
\* the handler's hands, for an alert nobody has received, or for somebody else.
LEMMA Added ==
  ASSUME IntakeAssumption, IInv, NEW n \in 1 .. MaxNumber, n > counter,
         NEW source \in Messages \cup EventIds \cup {"elsewhere"}, NEW p \in Prompts \cup {0},
         Adds(n, source, p),
         IF p = 0 THEN source \in EventIds \cup {"elsewhere"}
                  ELSE sent[p] # NoPrompt /\ source = sent[p].m,
         source \in EventIds => ~Received(source),
         p # 0 /\ ~sent[p].choice => cand[p] = "none" /\ p \notin declined /\ ~Made(p),
         inbox' = IF source \in EventIds THEN inbox \cup {[event |-> source, number |-> n]} ELSE inbox,
         calls' \in [Handlers -> IntakeJob],
         \A g \in Handlers : calls'[g] \in {calls[g], NoJob},
         \A g \in Handlers : calls'[g].at # "numbered",
         \A g \in Handlers : p # 0 => ~(~sent[p].choice /\ Holds(g, p)'),
         UNCHANGED <<group, standing, known, sent, cand, nonce, declined>>
  PROVE  IInv'
<1> USE DEF IInv
<1> DEFINE new == [number |-> n, source |-> source, p |-> p]
<1>1. /\ new \in Record /\ made' = made \cup {new} /\ requests' = requests \cup {n} /\ counter' = n
      /\ new.number = n /\ new.source = source /\ new.p = p
  BY DEF Adds, Record
<1>2. /\ MaxNumber \in Nat /\ counter \in Nat /\ 0 \notin Prompts /\ "elsewhere" \notin EventIds
      /\ \A r \in made : r \in Record /\ r.number <= counter /\ r.number \in 1 .. MaxNumber
  BY DEF Typing, Record, Numbering, IntakeAssumption, Prompts
<1> HIDE DEF new
<1>3. Typing'
  BY <1>1, <1>2 DEF Typing
<1>4. Numbering'
  BY <1>1, <1>2 DEF Numbering
<1>5. OnePromptEach'
  BY DEF OnePromptEach, NoJob
<1>6. PromptsKnown'
  BY <1>1, <1>2 DEF PromptsKnown, NoJob
<1>7. OneHand'
  <2>1. \A q \in Prompts, g \in Handlers : Holds(g, q)' => Holds(g, q)
    BY DEF Holds, NoJob
  <2>2. \A q \in Prompts : Made(q)' <=> Made(q) \/ q = p
    BY <1>1 DEF Made
  <2>3. \A g \in Handlers, q \in Prompts : calls'[g].at = "pick" /\ calls'[g].p = q
           => calls[g].at = "pick" /\ calls[g].p = q
    BY DEF NoJob
  <2>4. ASSUME NEW q \in Prompts, ~sent[q].choice, q # p
        PROVE  /\ \A h \in Handlers : Holds(h, q)' => cand[q] = "none" /\ q \notin declined /\ ~Made(q)'
               /\ cand[q] # "none" => cand[q] = "ready" /\ q \notin declined /\ ~Made(q)'
               /\ q \in declined => ~Made(q)'
               /\ \A r, s \in made' : r.p = q /\ s.p = q => r = s
    BY <1>1, <2>1, <2>2, <2>4 DEF OneHand
  <2>5. ASSUME p \in Prompts, ~sent[p].choice
        PROVE  /\ \A h \in Handlers : ~Holds(h, p)'
               /\ cand[p] = "none" /\ p \notin declined
               /\ \A r, s \in made' : r.p = p /\ s.p = p => r = s
    BY <1>1, <1>2, <2>5 DEF Made
  <2>6. QED
    BY <2>1, <2>3, <2>4, <2>5 DEF OneHand
<1>8. CASE source \in EventIds
  <2>1. ASSUME NEW r \in made, r.source = source PROVE FALSE
    <3>1. [event |-> r.source, number |-> r.number] \in {row \in inbox : row.number # 0}
      BY <1>8, <2>1 DEF InboxTrue
    <3>2. QED
      BY <1>8, <2>1, <3>1 DEF Received
  <2>2. {[event |-> r.source, number |-> r.number] : r \in {s \in made' : s.source \in EventIds}}
        = {[event |-> r.source, number |-> r.number] : r \in {s \in made : s.source \in EventIds}}
          \cup {[event |-> source, number |-> n]}
    BY <1>1, <1>8
  <2>3. {row \in inbox' : row.number # 0} = {row \in inbox : row.number # 0} \cup {[event |-> source, number |-> n]}
    BY <1>8
  <2>4. InboxTrue'
    BY <2>2, <2>3 DEF InboxTrue
  <2>5. OneAlertEach'
    BY <1>1, <2>1 DEF OneAlertEach
  <2>6. QED
    BY <1>3, <1>4, <1>5, <1>6, <1>7, <2>4, <2>5
<1>9. CASE source \notin EventIds
  <2>1. {s \in made' : s.source \in EventIds} = {s \in made : s.source \in EventIds}
    BY <1>1, <1>9
  <2>2. InboxTrue' /\ OneAlertEach'
    BY <1>1, <1>9, <2>1 DEF InboxTrue, OneAlertEach
  <2>3. QED
    BY <1>3, <1>4, <1>5, <1>6, <1>7, <2>2
<1>10. QED
  BY <1>8, <1>9

\* The request of the handler that holds the candidate, or of an alert not yet received.
LEMMA CommitKeeps ==
  ASSUME IntakeAssumption, IInv, NEW h \in Handlers, CommitRequest(h)
  PROVE  IInv'
<1>1. PICK job \in IntakeJob : job = calls[h]
  BY DEF IInv, Typing
<1>2. /\ job.at = "numbered" /\ job.source \in Messages \cup EventIds /\ job.p \in Prompts \cup {0}
      /\ job.n \in 1 .. MaxNumber /\ job.n > counter
  BY <1>1, JobFields DEF CommitRequest, IInv, Numbering
<1>3. UNCHANGED <<group, standing, known, sent, cand, nonce, declined>>
  BY DEF CommitRequest, people, redis
<1>4. /\ calls' \in [Handlers -> IntakeJob] /\ calls'[h] = NoJob
      /\ \A g \in Handlers : g # h => calls'[g] = calls[g]
  BY Setting DEF CommitRequest, Ends, IntakeJob, IInv
<1>5. CASE UNCHANGED tables
  BY <1>3, <1>5, MovesOn DEF CommitRequest, Ends, tables, IInv, Typing, IntakeJob, NoJob
<1>6. CASE /\ ~(job.source \in EventIds /\ Received(job.source))
           /\ Adds(job.n, job.source, job.p)
           /\ inbox' = IF job.source \in EventIds
                       THEN inbox \cup {[event |-> job.source, number |-> job.n]} ELSE inbox
  <2>1. \A g \in Handlers : calls'[g] \in {calls[g], NoJob} /\ calls'[g].at # "numbered"
    BY <1>1, <1>2, <1>4 DEF IInv, Numbering, NoJob
  <2>2. IF job.p = 0 THEN job.source \in EventIds ELSE sent[job.p] # NoPrompt /\ job.source = sent[job.p].m
    BY <1>1, <1>2 DEF IInv, PromptsKnown
  <2>3. ASSUME job.p # 0, ~sent[job.p].choice
        PROVE  /\ cand[job.p] = "none" /\ job.p \notin declined /\ ~Made(job.p)
               /\ \A g \in Handlers : ~Holds(g, job.p)'
    <3>1. Holds(h, job.p) /\ job.p \in Prompts
      BY <1>1, <1>2, <2>3 DEF Holds
    <3>2. \A g \in Handlers : Holds(g, job.p) => g = h
      BY <2>3, <3>1 DEF IInv, OneHand
    <3>3. \A g \in Handlers : ~Holds(g, job.p)'
      BY <1>4, <3>2 DEF Holds, NoJob
    <3>4. QED
      BY <2>3, <3>1, <3>3 DEF IInv, OneHand
  <2>4. job.source \in Messages \cup EventIds \cup {"elsewhere"}
    BY <1>2
  <2>5. QED
    BY <1>2, <1>3, <1>4, <1>6, <2>1, <2>2, <2>3, <2>4, Added
<1>7. QED
  BY <1>1, <1>5, <1>6 DEF CommitRequest

\* A request of another source has nobody in its hands.
LEMMA CreateElsewhereKeeps ==
  ASSUME IntakeAssumption, IInv, CreateElsewhere
  PROVE  IInv'
<1>1. NextNumber \in 1 .. MaxNumber /\ NextNumber > counter
  BY NextNumberAbove DEF CreateElsewhere, IInv
<1>2. PICK n \in 1 .. MaxNumber : n = NextNumber
  BY <1>1
<1>3. /\ Adds(n, "elsewhere", 0)
      /\ UNCHANGED <<group, standing, known, sent, cand, nonce, declined, inbox, calls>>
  BY <1>2 DEF CreateElsewhere, people, redis
<1>4. "elsewhere" \notin EventIds
  BY DEF IntakeAssumption
<1>5. /\ calls' \in [Handlers -> IntakeJob]
      /\ \A g \in Handlers : calls'[g] \in {calls[g], NoJob} /\ calls'[g].at # "numbered"
  BY <1>3 DEF CreateElsewhere, CounterFree, IInv, Typing
<1>6. QED
  BY <1>1, <1>2, <1>3, <1>4, <1>5, Added

\* A deleted request leaves the counter and the history as they are.
LEMMA DeleteKeeps ==
  ASSUME IntakeAssumption, IInv, NEW n \in requests, Delete(n)
  PROVE  IInv'
<1>1. /\ UNCHANGED <<group, standing, known, sent, cand, nonce, counter, inbox, made, declined, calls>>
      /\ requests' \subseteq requests
  BY DEF Delete, people, redis
<1>2. Typing' /\ Numbering'
  BY <1>1 DEF IInv, Typing, Numbering
<1>3. OnePromptEach' /\ PromptsKnown'
  BY <1>1 DEF IInv, OnePromptEach, PromptsKnown
<1>4. OneHand'
  BY <1>1 DEF IInv, OneHand, Holds, Made
<1>5. InboxTrue' /\ OneAlertEach'
  BY <1>1 DEF IInv, InboxTrue, OneAlertEach
<1>6. QED
  BY <1>2, <1>3, <1>4, <1>5 DEF IInv

\* The registry and the standing are not in the invariant.
LEMMA SwitchKeeps ==
  ASSUME IntakeAssumption, IInv, Switch
  PROVE  IInv'
<1>1. group' \in Kinds \cup {"off"} /\ standing' \subseteq Kinds
  BY DEF Switch, IInv, Typing
<1>2. UNCHANGED <<known, sent, cand, nonce, requests, counter, inbox, made, declined, calls>>
  BY DEF Switch, redis, tables
<1>3. Typing' /\ Numbering' /\ OnePromptEach' /\ PromptsKnown'
  BY <1>1, <1>2 DEF IInv, Typing, Numbering, OnePromptEach, PromptsKnown
<1>4. OneHand' /\ InboxTrue' /\ OneAlertEach'
  BY <1>2 DEF IInv, OneHand, Holds, Made, InboxTrue, OneAlertEach
<1>5. QED
  BY <1>3, <1>4 DEF IInv

\* The invariant holds at the start ...
LEMMA InitKeeps == ASSUME IntakeAssumption, IntakeInit PROVE IInv
<1> USE DEF IntakeInit
<1>1. NoJob \in IntakeJob /\ NoJob.at = "idle"
  BY DEF IntakeJob, NoJob
<1>2. Typing
  <2>1. MaxNumber \in Nat /\ 1 \in 1 .. MaxNumber /\ 0 \in 0 .. MaxNumber
    BY DEF IntakeAssumption
  <2>2. calls \in [Handlers -> IntakeJob]
    BY <1>1
  <2>3. sent \in [Prompts -> Prompt \cup {NoPrompt}] /\ cand \in [Prompts -> {"none", "picking", "ready"}]
    OBVIOUS
  <2>4. QED
    BY <2>1, <2>2, <2>3 DEF Typing
<1>3. Numbering
  BY <1>1 DEF Numbering
<1>4. OnePromptEach
  BY <1>1 DEF OnePromptEach
<1>5. PromptsKnown
  BY <1>1 DEF PromptsKnown
<1>6. OneHand
  BY <1>1 DEF OneHand, Holds, Made
<1>7. InboxTrue /\ OneAlertEach
  BY DEF InboxTrue, OneAlertEach
<1>8. QED
  BY <1>2, <1>3, <1>4, <1>5, <1>6, <1>7 DEF IInv

\* ... and every step keeps it.
LEMMA StepKeeps == ASSUME IntakeAssumption, IInv, [IntakeNext]_intakeVars PROVE IInv'
<1>1. CASE UNCHANGED intakeVars
  <2>1. Typing' /\ Numbering' /\ OnePromptEach' /\ PromptsKnown'
    BY <1>1 DEF intakeVars, IInv, Typing, Numbering, OnePromptEach, PromptsKnown
  <2>2. OneHand' /\ InboxTrue' /\ OneAlertEach'
    BY <1>1 DEF intakeVars, IInv, OneHand, Holds, Made, InboxTrue, OneAlertEach
  <2>3. QED
    BY <2>1, <2>2 DEF IInv
<1>2. ASSUME NEW h \in Handlers,
             \/ \E m \in Messages : Arrive(h, m)
             \/ \E p \in Prompts, b \in {"yes", "no", "other", "pick"} : Press(h, p, b)
             \/ \E e \in EventIds : DeliverAlert(h, e)
             \/ MarkSeen(h) \/ SendPrompt(h) \/ StoreCandidate(h)
             \/ PickAddress(h) \/ Decline(h) \/ Confirm(h) \/ Regate(h)
             \/ LookUp(h) \/ Ignore(h) \/ TakeNumber(h) \/ CommitRequest(h) \/ Fail(h)
      PROVE  IInv'
  BY <1>2, ArriveKeeps, PressKeeps, DeliverKeeps, MarkSeenKeeps, SendPromptKeeps, StoreCandidateKeeps, PickKeeps,
     DeclineKeeps, ConfirmKeeps, RegateKeeps, LookUpKeeps, IgnoreKeeps, TakeNumberKeeps, CommitKeeps, FailKeeps
<1>3. CASE CreateElsewhere \/ (\E n \in requests : Delete(n)) \/ Expire \/ Switch
  BY <1>3, CreateElsewhereKeeps, DeleteKeeps, ExpireKeeps, SwitchKeeps
<1>4. QED
  BY <1>1, <1>2, <1>3 DEF IntakeNext
-----------------------------------------------------------------------------
\* A set all of whose members are equal has one member at most.
LEMMA AtMostOne ==
  ASSUME NEW S, \A x, y \in S : x = y
  PROVE  Cardinality(S) <= 1
<1>1. CASE S = {}
  BY <1>1, FS_EmptySet
<1>2. CASE S # {}
  <2>1. PICK x \in S : TRUE
    BY <1>2
  <2>2. S = {x}
    BY <2>1
  <2>3. QED
    BY <2>2, FS_Singleton
<1>3. QED
  BY <1>1, <1>2


\* It implies the type invariant ...
LEMMA IInvTypeOK == ASSUME IInv PROVE IntakeTypeOK
<1>1. Cardinality({h \in Handlers : calls[h].at = "numbered"}) <= 1
  BY AtMostOne DEF IInv, Numbering
<1>2. QED
  BY <1>1 DEF IInv, Typing, IntakeTypeOK

\* ... and the property.
LEMMA IInvAskedOnce == ASSUME IntakeAssumption, IInv PROVE AskedOnce
<1> USE DEF IInv
<1>1. 0 \notin Prompts /\ \A r \in made : r \in Record
  BY DEF Typing, Prompts
<1>2. OneRequestEach
  <2> SUFFICES ASSUME NEW r \in made, NEW s \in made, r.source = s.source, r.source # "elsewhere",
                      Plain(r), Plain(s)
               PROVE  r = s
    BY DEF OneRequestEach
  <2>1. CASE r.source \in EventIds
    BY <2>1 DEF OneAlertEach
  <2>2. CASE r.source \notin EventIds
    <3>1. /\ r.p \in Prompts /\ s.p \in Prompts
          /\ sent[r.p] # NoPrompt /\ sent[s.p] # NoPrompt /\ sent[r.p].m = sent[s.p].m
          /\ ~sent[r.p].choice
      BY <1>1, <2>2 DEF PromptsKnown, Record, Plain
    <3>2. r.p = s.p
      BY <3>1 DEF OnePromptEach
    <3>3. QED
      BY <3>1, <3>2 DEF OneHand
  <2>3. QED
    BY <2>1, <2>2
<1>3. NoIsNo
  BY <1>1 DEF NoIsNo, Plain, OneHand, Made, Typing
<1>4. NumberedOnce
  BY DEF NumberedOnce, Numbering
<1>5. QED
  BY <1>2, <1>3, <1>4 DEF AskedOnce
-----------------------------------------------------------------------------
\* The inductive invariant holds in every reachable state.
LEMMA Inductive == IntakeAssumption => (IntakeSpec => []IInv)
<1> SUFFICES ASSUME IntakeAssumption PROVE IntakeSpec => []IInv
    OBVIOUS
<1>1. IntakeInit => IInv
  BY InitKeeps
<1>2. IInv /\ [IntakeNext]_intakeVars => IInv'
  BY StepKeeps
<1>3. QED
  BY <1>1, <1>2, PTL DEF IntakeSpec

\* Jobs and rows keep to their kinds, and one transaction at most holds the day's counter,
\* for any number of handlers.
THEOREM IntakeTypeCorrect == IntakeAssumption => (IntakeSpec => []IntakeTypeOK)
<1>1. IInv => IntakeTypeOK
  BY IInvTypeOK
<1>2. QED
  BY <1>1, Inductive, PTL

\* A message and an alert become one request at most, a candidate taken by "no" becomes
\* none, no number is given twice, and the inbox names the request of every alert: for any
\* number of handlers, repeated deliveries, double presses, failures of Redis, expirations
\* and deletions.
THEOREM IntakeAskedOnce == IntakeAssumption => (IntakeSpec => []AskedOnce)
<1> SUFFICES ASSUME IntakeAssumption PROVE IntakeSpec => []AskedOnce
    OBVIOUS
<1>1. IInv => AskedOnce
  BY IInvAskedOnce
<1>2. QED
  BY <1>1, Inductive, PTL
==============================================================================
