--------------------------- MODULE BarrierCommands ---------------------------
(***************************************************************************)
(* Delivery of barrier commands to the edge controllers.  A command is a   *)
(* row of barrier_commands, leased once by its controller's poll and       *)
(* acknowledged by compare-and-set on the lease token.  The answer to a    *)
(* camera event hands the command over too (the fast path), again at every *)
(* repetition of the event.  The edge opens the relay and remembers, per   *)
(* command, that it did.                                                   *)
(***************************************************************************)
EXTENDS Naturals, Sequences, FiniteSets

CONSTANTS
    Controllers,
    Commands,
    Owner,          \* the controller of each command
    Decided,        \* commands of a decision; the others open by hand or code
    Persistent,     \* does the edge keep its memory over a restart?
    LostLease,      \* may the answer to a poll be lost?
    ReplyBound,     \* bound: answers to camera events that carry a command
    LeaseBound      \* bound: leases of one command

BarrierAssumption ==
    /\ Commands # {} /\ Owner \in [Commands -> Controllers]
    /\ Decided \subseteq Commands
    /\ {Persistent, LostLease} \subseteq BOOLEAN
    /\ ReplyBound \in Nat /\ LeaseBound \in Nat

VARIABLES
    cmd,        \* the barrier_commands table
    queue,      \* commands by created_at
    clock,      \* where now is in the life of a command
    overdue,    \* commands whose lease_expires_at has passed
    replies,    \* camera events repeated so far, per command
    edge,       \* what the consumer of a controller is doing
    store,      \* its ProcessedStore
    acks,       \* acknowledgements sent: late or repeated ones arrive again
    opens,      \* openings of the barrier, per command
    lapses      \* times the edge lost what it knew of a command

vars == <<cmd, queue, clock, overdue, replies, edge, store, acks, opens, lapses>>
table == <<cmd, queue>>

Result == {"opened", "failed", "skipped"}
Row == [status : {"absent", "pending", "leased", "acked"}, lease : 0..1, result : Result \cup {"none"}]
Activity == [at : {"idle", "fast", "leased", "moved", "answer"}, cmd : Commands,
             lease : Nat, result : Result \cup {"none"}]

Idle(k) == edge[k].at = "idle"
Rest(k) == [edge EXCEPT ![k] = [@ EXCEPT !.at = "idle", !.lease = 0, !.result = "none"]]

Init ==
    /\ cmd = [c \in Commands |-> [status |-> "absent", lease |-> 0, result |-> "none"]]
    /\ queue = <<>>
    /\ clock = [c \in Commands |-> "fresh"]
    /\ overdue = {}
    /\ replies = [c \in Commands |-> 0]
    /\ edge = [k \in Controllers |-> [at |-> "idle", cmd |-> CHOOSE c \in Commands : TRUE,
                                       lease |-> 0, result |-> "none"]]
    /\ store = [c \in Commands |-> "none"]
    /\ acks = {}
    /\ opens = [c \in Commands |-> 0] /\ lapses = opens

-----------------------------------------------------------------------------
\* Backend.

\* One command per decision; openings by hand are independent of each other.
Create(c) ==
    /\ cmd[c].status = "absent"
    /\ cmd' = [cmd EXCEPT ![c].status = "pending"]
    /\ queue' = Append(queue, c)
    /\ UNCHANGED <<clock, overdue, replies, edge, store, acks, opens, lapses>>

\* "near": less than a lease is left before expires_at.
Later(t) == IF t = "fresh" THEN "near" ELSE "expired"
TimePasses(c) ==
    /\ cmd[c].status # "absent" /\ clock[c] # "expired"
    /\ clock' = [clock EXCEPT ![c] = Later(@)]
    /\ UNCHANGED <<table, overdue, replies, edge, store, acks, opens, lapses>>

LeaseRunsOut(c) ==
    /\ cmd[c].status = "leased" /\ c \notin overdue
    /\ overdue' = overdue \cup {c}
    /\ UNCHANGED <<table, clock, replies, edge, store, acks, opens, lapses>>

\* Mutant: leased commands are leased again.
LeasableAgain(k, c) == Owner[c] = k /\ cmd[c].status \in {"pending", "leased"} /\ clock[c] = "fresh"

\* _try_lease: no command that would expire during its lease.
Leasable(k, c) == Owner[c] = k /\ cmd[c].status = "pending" /\ clock[c] = "fresh"

OldestLeasable(k, i) ==
    /\ i \in DOMAIN queue /\ Leasable(k, queue[i])
    /\ \A j \in 1..(i - 1) : ~Leasable(k, queue[j])

\* GET commands/next; got: the answer reaches the edge.
Lease(k, got) ==
    /\ Idle(k)
    /\ got \/ LostLease
    /\ \E i \in DOMAIN queue :
          LET c == queue[i] IN
          /\ OldestLeasable(k, i)
          /\ cmd[c].lease < LeaseBound
          /\ cmd' = [cmd EXCEPT ![c].status = "leased", ![c].lease = @ + 1]
          /\ edge' = IF got THEN [edge EXCEPT ![k] = [at |-> "leased", cmd |-> c,
                                                      lease |-> cmd[c].lease + 1, result |-> "none"]]
                     ELSE edge
    /\ UNCHANGED <<queue, clock, overdue, replies, store, acks, opens, lapses>>

\* ack_command; any other acknowledgement changes nothing: a repetition gets
\* the stored result, a foreign lease a conflict.
Accepts(a) == cmd[a.cmd].status = "leased" /\ cmd[a.cmd].lease = a.lease

AckArrives(a) ==
    /\ a \in acks /\ Accepts(a)
    /\ cmd' = [cmd EXCEPT ![a.cmd] = [status |-> "acked", lease |-> a.lease, result |-> a.result]]
    /\ overdue' = overdue \ {a.cmd}
    /\ UNCHANGED <<queue, clock, replies, edge, store, acks, opens, lapses>>

-----------------------------------------------------------------------------
\* Edge.

\* The answer to a camera event, or to its repetition, carries the command of
\* its decision, whatever has become of it.
FastPath(c) ==
    LET k == Owner[c] IN
    /\ c \in Decided /\ cmd[c].status # "absent" /\ replies[c] < ReplyBound
    /\ Idle(k)
    /\ replies' = [replies EXCEPT ![c] = @ + 1]
    /\ edge' = [edge EXCEPT ![k] = [at |-> "fast", cmd |-> c, lease |-> 0, result |-> "none"]]
    /\ UNCHANGED <<table, clock, overdue, store, acks, opens, lapses>>

\* Mutant: the memory is not asked.
NeverKnown(c) == FALSE

Known(c) == store[c] # "none"

\* Has the edge a command to process, and is it one to skip?
Skips(k) == edge[k].at = "leased" /\ clock[edge[k].cmd] = "expired"

\* With a lease the consumer goes on to acknowledge, without one it is done.
Conclude(k, result) ==
    edge' = IF edge[k].lease = 0 THEN Rest(k)
            ELSE [edge EXCEPT ![k].at = "answer", ![k].result = result]

\* pull_once, an expired command: not opened, acknowledged as skipped.
Skip(k) ==
    /\ Skips(k)
    /\ edge' = [edge EXCEPT ![k].at = "answer", ![k].result = "skipped"]
    /\ UNCHANGED <<table, clock, overdue, replies, store, acks, opens, lapses>>

\* _open_once, a command it remembers.
Repeat(k) ==
    LET c == edge[k].cmd IN
    /\ edge[k].at \in {"fast", "leased"} /\ ~Skips(k) /\ Known(c)
    /\ Conclude(k, store[c])
    /\ UNCHANGED <<table, clock, overdue, replies, store, acks, opens, lapses>>

\* _open_once, a new command: the relay opens, or says that it did not.
Open(k, result) ==
    LET c == edge[k].cmd IN
    /\ edge[k].at \in {"fast", "leased"} /\ ~Skips(k) /\ ~Known(c)
    /\ opens' = IF result = "opened" THEN [opens EXCEPT ![c] = @ + 1] ELSE opens
    /\ edge' = [edge EXCEPT ![k].at = "moved", ![k].result = result]
    /\ UNCHANGED <<table, clock, overdue, replies, store, acks, lapses>>

\* Mutant: only openings are remembered, and told as such.
RememberedAsOpened(k) == "opened"

Remembered(k) == edge[k].result

Remember(k) ==
    /\ edge[k].at = "moved"
    /\ store' = [store EXCEPT ![edge[k].cmd] = Remembered(k)]
    /\ Conclude(k, Remembered(k))
    /\ UNCHANGED <<table, clock, overdue, replies, acks, opens, lapses>>

\* POST ack; the answer changes nothing for the consumer.
SendAck(k) ==
    /\ edge[k].at = "answer"
    /\ acks' = acks \cup {[cmd |-> edge[k].cmd, lease |-> edge[k].lease, result |-> edge[k].result]}
    /\ edge' = Rest(k)
    /\ UNCHANGED <<table, clock, overdue, replies, store, opens, lapses>>

\* What a restart loses: an opening not yet recorded, and the records if they are only
\* in memory.
Lost(k) ==
    {c \in Commands : /\ Owner[c] = k
                      /\ \/ edge[k].at = "moved" /\ edge[k].cmd = c /\ edge[k].result = "opened"
                         \/ store[c] # "none" /\ ~Persistent}

\* The process restarts, or a call to the relay or the backend raises.
Restart(k) ==
    /\ ~Idle(k) \/ ~Persistent
    /\ lapses' = [c \in Commands |-> IF c \in Lost(k) THEN lapses[c] + 1 ELSE lapses[c]]
    /\ edge' = Rest(k)
    /\ store' = IF Persistent THEN store
                ELSE [c \in Commands |-> IF Owner[c] = k THEN "none" ELSE store[c]]
    /\ <<edge', store'>> # <<edge, store>>
    /\ UNCHANGED <<table, clock, overdue, replies, acks, opens>>

Progress(k) ==
    \/ Lease(k, TRUE) \/ Skip(k) \/ Repeat(k)
    \/ \E result \in {"opened", "failed"} : Open(k, result)
    \/ Remember(k) \/ SendAck(k)

Next ==
    \/ \E c \in Commands : Create(c) \/ TimePasses(c) \/ LeaseRunsOut(c) \/ FastPath(c)
    \/ \E k \in Controllers : Progress(k) \/ Lease(k, FALSE) \/ Restart(k)
    \/ \E a \in acks : AckArrives(a)

Spec == Init /\ [][Next]_vars

-----------------------------------------------------------------------------
\* No command is leased twice.
TypeOK ==
    /\ cmd \in [Commands -> Row]
    /\ queue \in Seq(Commands)
    /\ clock \in [Commands -> {"fresh", "near", "expired"}]
    /\ overdue \subseteq Commands
    /\ replies \in [Commands -> 0..ReplyBound]
    /\ edge \in [Controllers -> Activity]
    /\ store \in [Commands -> {"none", "opened", "failed"}]
    /\ acks \subseteq [cmd : Commands, lease : Nat, result : Result]
    /\ opens \in [Commands -> Nat] /\ lapses \in [Commands -> Nat]

\* However a command arrives, and however often, it opens the barrier once, and once
\* more for every time the edge lost what it knew of it.
RelayOnce == \A c \in Commands : opens[c] <= 1 + lapses[c]

\* The result on record is what the relay did: "opened" of no closed barrier,
\* "failed" of none that this command has opened, unless that was lost.
AckIsTrue ==
    \A c \in Commands :
        /\ cmd[c].result = "opened" => opens[c] > 0
        /\ cmd[c].result = "failed" => opens[c] <= lapses[c]

=============================================================================
