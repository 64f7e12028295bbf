--------------------------- MODULE AccessIngestion ---------------------------
(***************************************************************************)
(* Ingestion of camera events.  An event is processed in one transaction   *)
(* under the lock of its gate's barrier: it is answered from the record if *)
(* it, or one like it within the window, was processed before; otherwise   *)
(* it is stored, decided on, and the decision written with everything that *)
(* follows from it: the entry of a pass, the presence of a car, the        *)
(* command.  Transactions at different gates run side by side and see what *)
(* the others have committed.                                              *)
(***************************************************************************)
EXTENDS Naturals, FiniteSets

CONSTANTS
    Events, Gates, Plates,
    Handlers,           \* processes of the API
    NoHandler,          \* holder of a free lock
    GateOf, PlateOf,    \* of each event
    TimeOf,             \* captured_at of each event
    Entering,           \* events of the direction entry; the others are exits
    Unclear,            \* events recognised with low confidence
    Cars,               \* plates of the vehicles of one apartment; others are of taxis
    Spots,              \* spots of the apartment in the assigned zone
    MaxEntries,         \* of the pass of a taxi
    Window,
    SwitchBound         \* bound: times a barrier is (de)activated

IngestionAssumption ==
    /\ GateOf \in [Events -> Gates] /\ PlateOf \in [Events -> Plates] /\ TimeOf \in [Events -> Nat]
    /\ Entering \subseteq Events /\ Unclear \subseteq Events /\ Cars \subseteq Plates
    /\ Events # {} /\ IsFiniteSet(Events) /\ IsFiniteSet(Cars) /\ NoHandler \notin Handlers
    /\ {Spots, MaxEntries, Window, SwitchBound} \subseteq Nat

VARIABLES
    decision,   \* camera_events with the initial decision; "none": not stored
    answers,    \* what the edge was told about an event: decisions of which event
    sent,       \* events whose decision has a command
    pass,       \* access_passes, of each taxi
    present,    \* cars with an open presence session
    inService,  \* is the barrier of a gate active?
    switches,
    gateHolder, \* advisory locks
    work        \* the transaction of each process

records == <<decision, answers, sent, pass, present>>
ingestionVars == <<records, inService, switches, gateHolder, work>>

Taxis == Plates \ Cars
Verdict == {"allow", "deny", "review", "by hand"}
GateLock == Gates \X {"barrier", "gate"}
Pass == [status : {"active", "used", "revoked"}, used : 0..MaxEntries]
Handling == [at : {"idle", "begun", "locked", "stored", "decided"}, event : Events, barrier : BOOLEAN,
             verdict : Verdict]

Idling(e) == [at |-> "idle", event |-> e, barrier |-> FALSE, verdict |-> "deny"]
Resting(p) == [work EXCEPT ![p] = Idling(@.event)]
LockOf(t) == <<GateOf[t.event], IF t.barrier THEN "barrier" ELSE "gate">>
GatesReleased(p) == [k \in GateLock |-> IF gateHolder[k] = p THEN NoHandler ELSE gateHolder[k]]

IngestionInit ==
    /\ decision = [e \in Events |-> "none"]
    /\ answers = [e \in Events |-> {}]
    /\ sent = {} /\ present = {}
    /\ pass = [t \in Taxis |-> [status |-> "active", used |-> 0]]
    /\ inService = [g \in Gates |-> TRUE] /\ switches = 0
    /\ gateHolder = [k \in GateLock |-> NoHandler]
    /\ work = [p \in Handlers |-> Idling(CHOOSE e \in Events : TRUE)]

-----------------------------------------------------------------------------
\* An event arrives, for the first time or again; the barrier is looked up.
Arrive(p, e) ==
    /\ work[p].at = "idle"
    /\ work' = [work EXCEPT ![p] = [at |-> "begun", event |-> e, barrier |-> inService[GateOf[e]], verdict |-> "deny"]]
    /\ UNCHANGED <<records, inService, switches, gateHolder>>

TakeGate(p) ==
    /\ work[p].at = "begun" /\ gateHolder[LockOf(work[p])] = NoHandler
    /\ gateHolder' = [gateHolder EXCEPT ![LockOf(work[p])] = p]
    /\ work' = [work EXCEPT ![p].at = "locked"]
    /\ UNCHANGED <<records, inService, switches>>

Near(e, f) == TimeOf[f] <= TimeOf[e] + Window /\ TimeOf[e] <= TimeOf[f] + Window

\* find_window_duplicate: same gate, plate and direction.
Like(e) ==
    {f \in Events \ {e} : GateOf[f] = GateOf[e] /\ PlateOf[f] = PlateOf[e]
                          /\ (f \in Entering <=> e \in Entering) /\ Near(e, f)}

\* Mutant: an event is looked up by its key alone.
KnownByKey(e) == IF decision[e] # "none" THEN {e} ELSE {}

\* The processed events e repeats: itself, else the earliest of those like it.
KnownAs(e) ==
    IF decision[e] # "none" THEN {e}
    ELSE LET like == {f \in Like(e) : decision[f] # "none"}
         IN {f \in like : \A g \in like : TimeOf[f] <= TimeOf[g]}

\* What a processed event e answers to f.
Answer(e, f) == answers' = [answers EXCEPT ![f] = @ \cup {<<e, decision[e]>>}]

Replay(p) ==
    /\ work[p].at = "locked"
    /\ \E f \in KnownAs(work[p].event) : Answer(f, work[p].event)
    /\ gateHolder' = GatesReleased(p) /\ work' = Resting(p)
    /\ UNCHANGED <<decision, sent, pass, present, inService, switches>>

\* The row of an event is stored once: whoever comes second waits for the first.
BeingStored(e) == \E q \in Handlers : work[q].at \in {"stored", "decided"} /\ work[q].event = e

Store(p) ==
    LET e == work[p].event IN
    /\ work[p].at = "locked" /\ KnownAs(e) = {} /\ ~BeingStored(e)
    /\ work' = [work EXCEPT ![p].at = "stored"]
    /\ UNCHANGED <<records, inService, switches, gateHolder>>

\* _decide_assigned and _decide_taxi.
SpotFree == Cardinality(present) < Spots
PassFound(t) == pass[t].status # "revoked" /\ pass[t].used < MaxEntries

EntryVerdict(e) ==
    CASE e \in Unclear -> "review"
      [] e \notin Unclear /\ PlateOf[e] \in Cars ->
            IF SpotFree THEN "allow" ELSE "review"
      [] OTHER -> IF PassFound(PlateOf[e]) THEN "allow" ELSE "deny"

\* decide; an exit is always allowed.
Decide(p) ==
    LET e == work[p].event IN
    /\ work[p].at = "stored"
    /\ work' = [work EXCEPT ![p].at = "decided",
                            ![p].verdict = IF e \in Entering THEN EntryVerdict(e) ELSE "allow"]
    /\ UNCHANGED <<records, inService, switches, gateHolder>>

\* Mutant: an exit costs an entry too.
TakesBothWays(t) == PlateOf[t.event] \in Taxis /\ t.verdict = "allow"

TakesEntry(t) == PlateOf[t.event] \in Taxis /\ t.verdict = "allow" /\ t.event \in Entering

\* consume_taxi_entry, evaluated on the committed row.
Consumable(t) == pass[t].used < MaxEntries
Consumed(t) == [status |-> IF pass[t].used + 1 >= MaxEntries THEN "used" ELSE pass[t].status,
                used |-> pass[t].used + 1]

\* A disputed entry let in by hand since its capture needs no review (AccessReviews has
\* the openings by hand).
Finals(t) ==
    CASE TakesEntry(t) /\ ~Consumable(PlateOf[t.event]) -> {"deny"}
      [] t.verdict = "review" /\ t.barrier -> {"review", "by hand"}
      [] OTHER -> {t.verdict}

Presence(t) ==
    IF PlateOf[t.event] \notin Cars \/ t.verdict # "allow" THEN present
    ELSE IF t.event \in Entering THEN present \cup {PlateOf[t.event]}
    ELSE present \ {PlateOf[t.event]}

Record(p) ==
    LET t == work[p]
        e == t.event IN
    /\ t.at = "decided"
    /\ \E final \in Finals(t) :
          /\ decision' = [decision EXCEPT ![e] = final]
          /\ answers' = [answers EXCEPT ![e] = @ \cup {<<e, final>>}]
          /\ sent' = IF final = "allow" /\ t.barrier THEN sent \cup {e} ELSE sent
    /\ pass' = IF TakesEntry(t) /\ Consumable(PlateOf[e])
               THEN [pass EXCEPT ![PlateOf[e]] = Consumed(PlateOf[e])] ELSE pass
    /\ present' = Presence(t)
    /\ gateHolder' = GatesReleased(p) /\ work' = Resting(p)
    /\ UNCHANGED <<inService, switches>>

\* An error or the end of the process; the edge sends the event again.
GiveUp(p) ==
    /\ work[p].at # "idle"
    /\ gateHolder' = GatesReleased(p) /\ work' = Resting(p)
    /\ UNCHANGED <<records, inService, switches>>

-----------------------------------------------------------------------------
\* Managers and operators, outside the lock.

Revoke(t) ==
    /\ pass[t].status # "revoked"
    /\ pass' = [pass EXCEPT ![t].status = "revoked"]
    /\ UNCHANGED <<decision, answers, sent, present, inService, switches, gateHolder, work>>

CloseSession(c) ==
    /\ c \in present
    /\ present' = present \ {c}
    /\ UNCHANGED <<decision, answers, sent, pass, inService, switches, gateHolder, work>>

SwitchBarrier(g) ==
    /\ switches < SwitchBound
    /\ inService' = [inService EXCEPT ![g] = ~@] /\ switches' = switches + 1
    /\ UNCHANGED <<records, gateHolder, work>>

IngestionNext ==
    \/ \E p \in Handlers :
          \/ TakeGate(p) \/ Replay(p) \/ Store(p) \/ Decide(p) \/ Record(p) \/ GiveUp(p)
          \/ \E e \in Events : Arrive(p, e)
    \/ \E t \in Taxis : Revoke(t)
    \/ \E c \in Cars : CloseSession(c)
    \/ \E g \in Gates : SwitchBarrier(g)

IngestionSpec == IngestionInit /\ [][IngestionNext]_ingestionVars

-----------------------------------------------------------------------------
\* Each variable keeps to its kind.
IngestionTypeOK ==
    /\ decision \in [Events -> Verdict \cup {"none"}]
    /\ answers \in [Events -> SUBSET (Events \X Verdict)]
    /\ sent \subseteq Events
    /\ pass \in [Taxis -> Pass]
    /\ present \subseteq Cars
    /\ inService \in [Gates -> BOOLEAN] /\ switches \in 0..SwitchBound
    /\ gateHolder \in [GateLock -> Handlers \cup {NoHandler}]
    /\ work \in [Handlers -> Handling]

Paid(t) == {e \in Entering : PlateOf[e] = t /\ decision[e] = "allow"}

\* max_entries is the number of entries allowed: repetitions, exits and races
\* neither cost an entry nor let one in free.
EntriesPaid == \A t \in Taxis : pass[t].used = Cardinality(Paid(t))

\* One passage of a car before several cameras' reports is decided on once, as long as
\* no barrier changes its state: then all reports of a gate wait for one lock.
PassageOnce ==
    switches = 0 => \A e \in Events : decision[e] # "none" => \A f \in Like(e) : decision[f] = "none"
==============================================================================
