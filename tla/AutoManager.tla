---------------------------- MODULE AutoManager ----------------------------
(***************************************************************************)
(* Automatic assignment of requests to executors on duty: the best-effort  *)
(* dispatch after a request is created, and the tick of the auto-manager,  *)
(* which walks two queues with a keyset cursor, a cooldown after a refusal *)
(* and a share of slots.  Every assignment is a command of the workflow    *)
(* kernel in a transaction of its own; people work on the same requests    *)
(* between any two steps.                                                  *)
(*                                                                         *)
(* Requests are numbered in the order of creation, executors by their id.  *)
(* Time is counted in ticks: Cooldown is the number of ticks a refused     *)
(* request is left alone.                                                  *)
(***************************************************************************)
EXTENDS Integers, Sequences, FiniteSets, FiniteSetsExt, SequencesExt

CONSTANTS N, Executors, Specs, Skills, SpecOf, Legacy,
          Limit, Multiplier, Cooldown, MaxFaults

Numbers == 1..N
None == 0
NoGroup == "none"

CountsAssumption ==
    /\ N \in Nat /\ Limit \in 1..50 /\ Multiplier \in Nat \ {0}
    /\ Cooldown \in Nat /\ MaxFaults \in Nat
PeopleAssumption ==
    /\ Executors \subseteq Nat \ {0}
    /\ Skills \in [Executors -> SUBSET Specs]
    /\ SpecOf \in [Numbers -> Specs]
    /\ NoGroup \notin Specs
    /\ Legacy \subseteq Numbers

VARIABLES request,   \* the rows
          onDuty,    \* executors with an active shift
          mode,      \* switched off, on but outside its hours, or at work
          dispatch,  \* what the creator of a request still has to do for it
          cursor,    \* the last request taken from each queue
          cooldown,  \* ticks left before a refused request is tried again
          tick,      \* the tick in progress
          faults     \* ticks that failed, processes that died
dispatchVars == <<request, onDuty, mode, dispatch, cursor, cooldown, tick, faults>>

-----------------------------------------------------------------------------
(* Queues and candidates.                                                   *)

Waiting(r) == request[r].at \in {"new", "progress"} /\ request[r].executor = None

Queue(q) ==
    IF q = "main"
    THEN {r \in Numbers : Waiting(r) /\ request[r].group # NoGroup}
    ELSE {r \in Numbers : Waiting(r) /\ request[r].at = "new" /\ request[r].group = NoGroup}

Open(e) == {r \in Numbers : request[r].at = "progress" /\ request[r].executor = e}
Loads == [e \in Executors |-> Cardinality(Open(e))]

Fit(spec, duty) == {e \in duty : spec \in Skills[e]}

\* select_executor: least loaded, then least id; None when no one fits.
Select(spec, duty, load) ==
    IF Fit(spec, duty) = {} THEN None
    ELSE CHOOSE e \in Fit(spec, duty) : \A f \in Fit(spec, duty) :
            load[e] < load[f] \/ (load[e] = load[f] /\ e <= f)

ResidualShare == Min({Max({1, Limit \div 4}), Max({0, Limit - 1})})

\* How many of S come before r.
Before(S, r) == Cardinality({s \in S : s < r})
First(S, n) == {r \in S : Before(S, r) < n}
Ready(S) == {r \in S : cooldown[r] = 0}
InOrder(S) == [i \in 1..Cardinality(S) |-> CHOOSE r \in S : Before(S, r) = i - 1]

Forward(q, slots) ==
    First(Ready(First({r \in Queue(q) : r > cursor[q]}, slots * Multiplier)), slots)

Wrapped(q, slots) ==
    LET left == slots - Cardinality(Forward(q, slots))
    IN  First(Ready(First(Queue(q), Max({slots * Multiplier, slots + left})))
                  \ Forward(q, slots), left)

\* The requests of one pass over a queue, in the order they are taken.
Batch(q, slots) == InOrder(Forward(q, slots)) \o InOrder(Wrapped(q, slots))

-----------------------------------------------------------------------------
NoOne == [e \in Executors |-> 0]
NoTick == [queue |-> "none", loaded |-> FALSE, todo |-> <<>>, last |-> None,
         reserve |-> 0, duty |-> {}, load |-> NoOne, start |-> NoOne, given |-> NoOne]
Done == [at |-> "done", to |-> None]
Due == [at |-> "due", to |-> None]
Picked(e) == [at |-> "picked", to |-> e]
Absent == [at |-> "absent", executor |-> None, group |-> NoGroup]

\* Rows of the time when addressing a group moved a request to "in progress".
DispatchInit ==
    /\ request = [r \in Numbers |->
                    IF r \in Legacy
                    THEN [at |-> "progress", executor |-> None, group |-> SpecOf[r]]
                    ELSE Absent]
    /\ onDuty = {} /\ mode = "on"
    /\ dispatch = [r \in Numbers |-> Done]
    /\ cursor = [q \in {"main", "residual"} |-> None]
    /\ cooldown = [r \in Numbers |-> 0]
    /\ tick = NoTick /\ faults = 0

(* The commands of the kernel, decided on the row it has locked.            *)

\* Mutant: a request in progress may be dispatched again.
DispatchFromAny == {"new", "progress"}
DispatchFrom == {"new"}

CanPromote(r) == Waiting(r) /\ request[r].group # NoGroup
CanDispatch(r) == request[r].at \in DispatchFrom
Give(r, e) == request' = [request EXCEPT ![r] = [at |-> "progress", executor |-> e, group |-> NoGroup]]
Address(r, g) == request' = [request EXCEPT ![r].group = g]

-----------------------------------------------------------------------------
(* People.                                                                  *)

CreateRequest ==
    /\ \E r \in Numbers :
        /\ request[r].at = "absent"
        /\ \A s \in Numbers \ Legacy : s < r => request[s].at # "absent"
        /\ request' = [request EXCEPT ![r].at = "new"]
        /\ dispatch' = [dispatch EXCEPT ![r] = Due]
    /\ UNCHANGED <<onDuty, mode, cursor, cooldown, tick, faults>>

Claim(r, e) ==
    /\ CanPromote(r) /\ e \in onDuty /\ request[r].group \in Skills[e]
    /\ Give(r, e)
    /\ UNCHANGED <<onDuty, mode, dispatch, cursor, cooldown, tick, faults>>

ManagerAssign(r, e) ==
    /\ request[r].at \in {"new", "progress"} /\ request[r].executor # e
    /\ Give(r, e)
    /\ UNCHANGED <<onDuty, mode, dispatch, cursor, cooldown, tick, faults>>

ManagerGroup(r, g) ==
    /\ request[r].at = "new" /\ request[r].group # g
    /\ Address(r, g)
    /\ UNCHANGED <<onDuty, mode, dispatch, cursor, cooldown, tick, faults>>

\* Completed or cancelled.
CloseRequest(r) ==
    /\ request[r].at \in {"new", "progress"}
    /\ request' = [request EXCEPT ![r].at = "closed"]
    /\ UNCHANGED <<onDuty, mode, dispatch, cursor, cooldown, tick, faults>>

ShiftChange(e) ==
    /\ onDuty' = IF e \in onDuty THEN onDuty \ {e} ELSE onDuty \cup {e}
    /\ UNCHANGED <<request, mode, dispatch, cursor, cooldown, tick, faults>>

SwitchMode ==
    /\ mode' \in {"off", "resting", "on"} \ {mode}
    /\ UNCHANGED <<request, onDuty, dispatch, cursor, cooldown, tick, faults>>

-----------------------------------------------------------------------------
(* Dispatch after creation: the choice, then the command.  A creator that   *)
(* dies in between leaves the request to the tick.                          *)

DispatchPick(r) ==
    /\ dispatch[r] = Due
    /\ dispatch' = [dispatch EXCEPT ![r] =
                       IF mode # "off" THEN Picked(Select(SpecOf[r], onDuty, Loads)) ELSE Done]
    /\ UNCHANGED <<request, onDuty, mode, cursor, cooldown, tick, faults>>

\* A command that is not allowed any more is logged and forgotten.
DispatchApply(r) ==
    /\ dispatch[r].at = "picked"
    /\ dispatch' = [dispatch EXCEPT ![r] = Done]
    /\ IF ~CanDispatch(r) THEN UNCHANGED request
       ELSE IF dispatch[r].to = None THEN Address(r, SpecOf[r]) ELSE Give(r, dispatch[r].to)
    /\ UNCHANGED <<onDuty, mode, cursor, cooldown, tick, faults>>

DispatchLost(r) ==
    /\ faults < MaxFaults /\ dispatch[r] # Done
    /\ faults' = faults + 1
    /\ dispatch' = [dispatch EXCEPT ![r] = Done]
    /\ UNCHANGED <<request, onDuty, mode, cursor, cooldown, tick>>

-----------------------------------------------------------------------------
(* The tick.                                                                *)

Aged == [r \in Numbers |-> Max({0, cooldown[r] - 1})]

\* The switch, the share of the second queue and who is on duty are read once.
TickStart ==
    /\ tick = NoTick
    /\ cooldown' = Aged
    /\ tick' = IF mode # "on" THEN NoTick
               ELSE [NoTick EXCEPT !.queue = "main", !.duty = onDuty,
                       !.load = Loads, !.start = Loads,
                       !.reserve = IF Queue("residual") = {} THEN 0 ELSE ResidualShare]
    /\ UNCHANGED <<request, onDuty, mode, dispatch, cursor, faults>>

Slots == IF tick.queue = "main" THEN Limit - tick.reserve ELSE tick.reserve

\* What an item asks for, as read with its queue.
Item(q, r) == [number |-> r, spec |-> IF q = "main" THEN request[r].group ELSE SpecOf[r]]

Load ==
    /\ tick.queue # "none" /\ ~tick.loaded
    /\ LET batch == Batch(tick.queue, Slots)
       IN  tick' = [tick EXCEPT !.loaded = TRUE,
                      !.todo = [i \in DOMAIN batch |-> Item(tick.queue, batch[i])],
                      !.last = IF batch = <<>> THEN None ELSE Last(batch)]
    /\ UNCHANGED <<request, onDuty, mode, dispatch, cursor, cooldown, faults>>

\* _bump_load
Bump(e) == [tick.load EXCEPT ![e] = @ + 1]

Served(e) == [tick EXCEPT !.todo = Tail(@), !.load = Bump(e), !.given[e] = @ + 1]
Passed == [tick EXCEPT !.todo = Tail(@)]
Cool(r) == cooldown' = [cooldown EXCEPT ![r] = Cooldown]

\* SYSTEM_AUTO_PROMOTE; a request someone else has taken is skipped.
ProcessMain(r, e) ==
    IF e = None THEN tick' = Passed /\ Cool(r) /\ UNCHANGED request
    ELSE /\ UNCHANGED cooldown
         /\ IF CanPromote(r) THEN Give(r, e) /\ tick' = Served(e)
            ELSE tick' = Passed /\ UNCHANGED request

\* SYSTEM_DISPATCH_ASSIGN, or ASSIGN_GROUP for want of an executor.
ProcessResidual(r, e) ==
    IF e = None
    THEN /\ tick' = Passed /\ Cool(r)
         /\ IF CanDispatch(r) THEN Address(r, SpecOf[r]) ELSE UNCHANGED request
    ELSE /\ UNCHANGED cooldown
         /\ IF CanDispatch(r) THEN Give(r, e) /\ tick' = Served(e)
            ELSE tick' = Passed /\ UNCHANGED request

Process ==
    /\ tick.loaded /\ tick.todo # <<>>
    /\ LET item == Head(tick.todo)
           e == Select(item.spec, tick.duty, tick.load)
       IN  IF tick.queue = "main" THEN ProcessMain(item.number, e)
           ELSE ProcessResidual(item.number, e)
    /\ UNCHANGED <<onDuty, mode, dispatch, cursor, faults>>

\* Mutant: the cursor stays where it was.
CursorKept == cursor
\* The last request taken, whatever became of it.
CursorMoved == IF tick.last = None THEN cursor ELSE [cursor EXCEPT ![tick.queue] = tick.last]

QueueDone ==
    /\ tick.loaded /\ tick.todo = <<>>
    /\ cursor' = CursorMoved
    /\ tick' = IF tick.queue = "main" /\ tick.reserve > 0
               THEN [tick EXCEPT !.queue = "residual", !.loaded = FALSE, !.last = None]
               ELSE NoTick
    /\ UNCHANGED <<request, onDuty, mode, dispatch, cooldown, faults>>

\* The database fails in mid-tick: the cursor of the queue does not move.
TickFails ==
    /\ faults < MaxFaults /\ tick # NoTick
    /\ faults' = faults + 1 /\ tick' = NoTick
    /\ UNCHANGED <<request, onDuty, mode, dispatch, cursor, cooldown>>

\* Cursors and cooldowns live in the memory of the process.
Restart ==
    /\ faults < MaxFaults
    /\ faults' = faults + 1 /\ tick' = NoTick
    /\ cursor' = [q \in DOMAIN cursor |-> None]
    /\ cooldown' = [r \in Numbers |-> 0]
    /\ UNCHANGED <<request, onDuty, mode, dispatch>>

-----------------------------------------------------------------------------
Tick == TickStart \/ Load \/ Process \/ QueueDone

Automation ==
    \/ CreateRequest \/ Tick
    \/ \E r \in Numbers : DispatchPick(r) \/ DispatchApply(r)
    \/ \E e \in Executors : ShiftChange(e)

Failures == TickFails \/ Restart \/ \E r \in Numbers : DispatchLost(r)

Claims == \E r \in Numbers, e \in Executors : Claim(r, e)
Managers == \E r \in Numbers, e \in Executors : ManagerAssign(r, e)
Groups == \E r \in Numbers, g \in Specs : ManagerGroup(r, g)
Closings == \E r \in Numbers : CloseRequest(r)

DispatchNext == Automation \/ Failures \/ Claims \/ Managers \/ Groups \/ Closings \/ SwitchMode

DispatchSpec == DispatchInit /\ [][DispatchNext]_dispatchVars
\* The scheduler runs the tick every two minutes, one at a time.
DispatchFairness == WF_dispatchVars(Tick)

FairDispatchSpec == DispatchSpec /\ DispatchFairness

-----------------------------------------------------------------------------
DispatchTypeOK ==
    /\ request \in [Numbers -> [at : {"absent", "new", "progress", "closed"},
                                 executor : Executors \cup {None},
                                 group : Specs \cup {NoGroup}]]
    /\ onDuty \subseteq Executors /\ mode \in {"off", "resting", "on"}
    /\ dispatch \in [Numbers -> [at : {"done", "due", "picked"}, to : Executors \cup {None}]]
    /\ cursor \in [{"main", "residual"} -> Numbers \cup {None}]
    /\ cooldown \in [Numbers -> 0..Cooldown]
    /\ faults \in 0..MaxFaults
    /\ tick.todo \in Seq([number : Numbers, spec : Specs \cup {NoGroup}])
    /\ tick.queue = "none" => tick = NoTick
    /\ Len(tick.todo) <= Slots

\* Automation touches only requests that wait for an executor: whoever has
\* taken or closed a request since it was picked, the command changes nothing.
NeverDisplaced ==
    [][\A r \in Numbers :
            <<tick, dispatch>>' # <<tick, dispatch>> /\ request[r].at # "absent" /\ ~Waiting(r)
                => request'[r] = request[r]]_dispatchVars

\* What a tick has given counts for the next choice: whoever it gave something has in the
\* end at most one request more than another on duty who can do as much (_bump_load).
SpreadsEvenly ==
    \A e, f \in tick.duty :
        Skills[e] \subseteq Skills[f] /\ tick.given[e] > 0
            => tick.start[e] + tick.given[e] <= tick.start[f] + tick.given[f] + 1

\* A pass never takes a request twice, although it goes round, and both passes of a tick
\* together give no more than its limit (max_requests_per_run).
WithinLimit ==
    /\ \A i, j \in DOMAIN tick.todo : tick.todo[i].number = tick.todo[j].number => i = j
    /\ SumFunction(tick.given) + Len(tick.todo) <= Limit

CanBeServed(r) == mode = "on" /\ Fit(IF request[r].group = NoGroup THEN SpecOf[r]
                                  ELSE request[r].group, onDuty) # {}

\* No unreachable tail: no request waits for ever while automation is on and
\* someone who can do it stays on duty.
NoTail == \A r \in Numbers : []<>~(Waiting(r) /\ CanBeServed(r))

=============================================================================
