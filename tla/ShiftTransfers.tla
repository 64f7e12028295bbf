--------------------------- MODULE ShiftTransfers ---------------------------
(***************************************************************************)
(* Shifts, who owns them, and the offers to hand them over: the dashboard  *)
(* and the executors' web app (api/shifts), the bot                        *)
(* (services/shift_transfer_service.py) and the scheduler that expires     *)
(* offers.  An operation is one READ COMMITTED transaction of two steps:   *)
(* it reads and checks, taking the locks its code takes, and it writes by  *)
(* id what it decided.  The web core locks rows and, per executor, an      *)
(* advisory lock; the bot core locks the row of the offer only.  Shifts    *)
(* have an end: those open at the end skip the overlap check on purpose.   *)
(***************************************************************************)
EXTENDS Naturals, FiniteSets

CONSTANTS
    Threads, Scheduler,   \* threads of bot and web; the expiry job
    Executors, Nobody,
    Shifts, Offers,       \* bound: ids of shifts and of shift_transfers rows
    Slots,                \* windows of time: two shifts overlap iff they have one slot
    ShiftOps              \* operations in use

ShiftAssumption ==
    Scheduler \notin Threads /\ Nobody \notin Executors

VARIABLES
    shift,     \* shifts: owner (user_id), status, slot (start_time, end_time)
    offer,     \* shift_transfers: shift, from, to, status
    txs        \* the transaction of each process, with the locks it holds

shiftVars == <<shift, offer, txs>>

OnDuty == {"planned", "active"}
Open == {"pending", "assigned"}
ShiftStatus == OnDuty \cup {"paused", "completed", "cancelled"}
OfferStatus == Open \cup {"completed", "rejected", "cancelled", "expired"}

NoTx == [op |-> "idle", locks |-> {}]
NoEntry == [status |-> "none"]
Gone == [status |-> "gone"]
Exists(row) == row.status \notin {"none", "gone"}

ShiftInit ==
    /\ shift = [s \in Shifts |-> NoEntry]
    /\ offer = [o \in Offers |-> NoEntry]
    /\ txs = [w \in Threads \cup {Scheduler} |-> NoTx]

\* A row, or the advisory lock of an executor, is locked by a transaction until it ends.
Free(w, things) == \A v \in DOMAIN txs \ {w} : txs[v].locks \cap things = {}

Begin(w, t) ==
    /\ txs[w] = NoTx /\ t.op \in ShiftOps
    /\ Free(w, t.locks)
    /\ txs' = [txs EXCEPT ![w] = t]
    /\ UNCHANGED <<shift, offer>>

\* The write of rows: it waits for the locks of others, and fails on rows that are gone.
Doing(w, op, rows) == txs[w].op = op /\ Free(w, rows)

EndTx(w) == txs' = [txs EXCEPT ![w] = NoTx]

\* Two windows of one executor, both still to be worked.
Busy(u, slot, but) ==
    \E t \in Shifts \ but :
        Exists(shift[t]) /\ shift[t].owner = u /\ shift[t].status \in OnDuty /\ shift[t].slot = slot

-----------------------------------------------------------------------------
CreateLocks(u) == {u}

\* POST /shifts (active) and from a template (planned).
BeginCreate(w, u, slot, status) ==
    /\ ~Busy(u, slot, {})
    /\ Begin(w, [op |-> "create", who |-> u, slot |-> slot, status |-> status, locks |-> CreateLocks(u)])

Create(w, s) ==
    /\ Doing(w, "create", {}) /\ shift[s] = NoEntry
    /\ shift' = [shift EXCEPT ![s] = [owner |-> txs[w].who, status |-> txs[w].status, slot |-> txs[w].slot]]
    /\ EndTx(w) /\ UNCHANGED offer

\* PATCH of the status: off duty ...
Patches == {<<"planned", "cancelled">>, <<"active", "paused">>, <<"active", "cancelled">>, <<"paused", "cancelled">>}

BeginPatch(w, s, status) ==
    /\ <<shift[s].status, status>> \in Patches
    /\ Begin(w, [op |-> "patch", shift |-> s, status |-> status, locks |-> {}])

\* ... and on duty, which looks at no other shift.
BeginActivate(w, s) ==
    /\ shift[s].status \in {"planned", "paused"}
    /\ Begin(w, [op |-> "activate", shift |-> s, status |-> "active", locks |-> {}])

\* The end of a shift, by its executor or by a manager.
BeginEnd(w, s) ==
    /\ shift[s].status \in {"active", "paused"}
    /\ Begin(w, [op |-> "end", shift |-> s, status |-> "completed", locks |-> {}])

SetShiftStatus(w) ==
    LET s == txs[w].shift IN
    /\ \E op \in {"patch", "activate", "end"} : Doing(w, op, {s})
    /\ Exists(shift[s])
    /\ shift' = [shift EXCEPT ![s].status = txs[w].status]
    /\ EndTx(w) /\ UNCHANGED offer

\* PATCH of the times: the lock is that of the owner read before.
BeginMove(w, s, slot) ==
    /\ shift[s].status \in OnDuty \cup {"paused"}
    /\ ~Busy(shift[s].owner, slot, {s})
    /\ Begin(w, [op |-> "move", shift |-> s, slot |-> slot, locks |-> {shift[s].owner}])

Move(w) ==
    LET s == txs[w].shift IN
    /\ Doing(w, "move", {s}) /\ Exists(shift[s])
    /\ shift' = [shift EXCEPT ![s].slot = txs[w].slot]
    /\ EndTx(w) /\ UNCHANGED offer

BeginDelete(w, s) ==
    /\ shift[s].status = "planned"
    /\ Begin(w, [op |-> "delete", shift |-> s, locks |-> {}])

OffersOf(s) == {o \in Offers : Exists(offer[o]) /\ offer[o].shift = s}

\* The ORM deletes the offers of the shift with it.
Delete(w) ==
    LET s == txs[w].shift IN
    /\ Doing(w, "delete", {s} \cup OffersOf(s)) /\ Exists(shift[s])
    /\ shift' = [shift EXCEPT ![s] = Gone]
    /\ offer' = [o \in Offers |-> IF o \in OffersOf(s) THEN Gone ELSE offer[o]]
    /\ EndTx(w)

-----------------------------------------------------------------------------
WebOfferLocks(s) == {s}

Row(s, from, to, status) == [shift |-> s, from |-> from, to |-> to, status |-> status]

Insert(o, row) == offer[o] = NoEntry /\ offer' = [offer EXCEPT ![o] = row]

\* create_transfer and create_transfer_web.
BeginOffer(w, s, op) ==
    /\ shift[s].status \in OnDuty
    /\ \A o \in OffersOf(s) : offer[o].status \notin Open
    /\ Begin(w, [op |-> op, shift |-> s, who |-> shift[s].owner,
                 locks |-> IF op = "webOffer" THEN WebOfferLocks(s) ELSE {}])

Offer(w, o) ==
    /\ \E op \in {"webOffer", "botOffer"} : Doing(w, op, {})
    /\ Exists(shift[txs[w].shift])
    /\ Insert(o, Row(txs[w].shift, txs[w].who, Nobody, "pending"))
    /\ EndTx(w) /\ UNCHANGED shift

\* _validate_reassign_target, for executors approved and trained.
Acceptable(s, u) ==
    /\ shift[s].status \in OnDuty
    /\ shift[s].owner # u
    /\ ~Busy(u, shift[s].slot, {s})

\* Mutant: the row of an offer is not locked by those who answer it.
NoAnswerLocks(o) == {}
AnswerLocks(o) == {o}

\* assign_transfer of the bot validates the recipient, approve_transfer does not.
BeginAssign(w, o, u, op) ==
    /\ offer[o].status = "pending"
    /\ op = "botAssign" => u # offer[o].from /\ Acceptable(offer[o].shift, u)
    /\ Begin(w, [op |-> op, offer |-> o, who |-> u, locks |-> AnswerLocks(o)])

Assign(w) ==
    LET o == txs[w].offer IN
    /\ \E op \in {"webAssign", "botAssign"} : Doing(w, op, {o})
    /\ Exists(offer[o])
    /\ offer' = [offer EXCEPT ![o].status = "assigned", ![o].to = txs[w].who]
    /\ EndTx(w) /\ UNCHANGED shift

\* Refusal by the recipient or a manager; cancellation by a manager.
BeginRefuse(w, o, status) ==
    /\ <<offer[o].status, status>> \in
         {<<"assigned", "rejected">>, <<"pending", "cancelled">>, <<"assigned", "cancelled">>}
    /\ Begin(w, [op |-> "refuse", offer |-> o, status |-> status, locks |-> AnswerLocks(o)])

Refuse(w) ==
    LET o == txs[w].offer IN
    /\ Doing(w, "refuse", {o}) /\ Exists(offer[o])
    /\ offer' = [offer EXCEPT ![o].status = txs[w].status]
    /\ EndTx(w) /\ UNCHANGED shift

-----------------------------------------------------------------------------
ShiftOnly(s, u) == {s}
MoveLocks(s, u) == {s, u}

\* reassign_shift_web, and reassign_shift behind the manager's button in the bot.
BeginReassign(w, s, u, op) ==
    /\ Acceptable(s, u)
    /\ Begin(w, [op |-> op, shift |-> s, from |-> shift[s].owner, who |-> u,
                 locks |-> IF op = "webReassign" THEN MoveLocks(s, u) ELSE {}])

\* The offer row records the move.
Reassign(w, o) ==
    LET s == txs[w].shift IN
    /\ \E op \in {"webReassign", "botReassign"} : Doing(w, op, {s})
    /\ Exists(shift[s])
    /\ shift' = [shift EXCEPT ![s].owner = txs[w].who]
    /\ Insert(o, Row(s, txs[w].from, txs[w].who, "completed"))
    /\ EndTx(w)

\* accept_transfer checks all of it again, accept_transfer_web all but "another owner".
BeginAccept(w, o, op) ==
    LET s == offer[o].shift
        u == offer[o].to
    IN /\ offer[o].status = "assigned"
       /\ \/ Acceptable(s, u)
          \/ op = "webAccept" /\ shift[s].status \in OnDuty /\ ~Busy(u, shift[s].slot, {s})
       /\ Begin(w, [op |-> op, offer |-> o, shift |-> s, who |-> u,
                    locks |-> AnswerLocks(o) \cup IF op = "webAccept" THEN MoveLocks(s, u) ELSE {}])

Accept(w) ==
    LET s == txs[w].shift
        o == txs[w].offer
    IN /\ \E op \in {"webAccept", "botAccept"} : Doing(w, op, {s, o})
       /\ Exists(shift[s]) /\ Exists(offer[o])
       /\ shift' = [shift EXCEPT ![s].owner = txs[w].who]
       /\ offer' = [offer EXCEPT ![o].status = "completed"]
       /\ EndTx(w)

AbortTx(w) ==
    /\ txs[w] # NoTx
    /\ EndTx(w) /\ UNCHANGED <<shift, offer>>

-----------------------------------------------------------------------------
Answerable(o) == offer[o].status \in Open

\* process_expired_transfers reads the open offers that are old enough.
Scan(os) ==
    /\ os # {} /\ \A o \in os : Answerable(o)
    /\ Begin(Scheduler, [op |-> "expire", todo |-> os, locks |-> {}])

\* Its updates go row by row and are committed together.
Stamp(o) ==
    /\ txs[Scheduler].op = "expire" /\ o \in txs[Scheduler].todo \ txs[Scheduler].locks
    /\ Exists(offer[o]) /\ Free(Scheduler, {o})
    /\ txs' = [txs EXCEPT ![Scheduler].locks = @ \cup {o}]
    /\ UNCHANGED <<shift, offer>>

Expire ==
    /\ txs[Scheduler].op = "expire" /\ txs[Scheduler].locks = txs[Scheduler].todo
    /\ offer' = [o \in Offers |-> IF o \in txs[Scheduler].todo
                                  THEN [offer[o] EXCEPT !.status = "expired"] ELSE offer[o]]
    /\ EndTx(Scheduler) /\ UNCHANGED shift

\* A row deleted meanwhile fails the batch.
AbortScan ==
    /\ txs[Scheduler].op = "expire" /\ \E o \in txs[Scheduler].todo : ~Exists(offer[o])
    /\ EndTx(Scheduler) /\ UNCHANGED <<shift, offer>>

-----------------------------------------------------------------------------
Finish(w) ==
    \/ SetShiftStatus(w) \/ Move(w) \/ Delete(w) \/ Assign(w) \/ Refuse(w) \/ Accept(w) \/ AbortTx(w)
    \/ \E s \in Shifts : Create(w, s)
    \/ \E o \in Offers : Offer(w, o) \/ Reassign(w, o)

OnShift(w, s) ==
    \/ \E status \in ShiftStatus : BeginPatch(w, s, status)
    \/ \E slot \in Slots : BeginMove(w, s, slot)
    \/ BeginActivate(w, s) \/ BeginEnd(w, s) \/ BeginDelete(w, s)
    \/ \E op \in {"webOffer", "botOffer"} : BeginOffer(w, s, op)
    \/ \E u \in Executors, op \in {"webReassign", "botReassign"} : BeginReassign(w, s, u, op)

OnOffer(w, o) ==
    \/ \E u \in Executors, op \in {"webAssign", "botAssign"} : BeginAssign(w, o, u, op)
    \/ \E status \in OfferStatus : BeginRefuse(w, o, status)
    \/ \E op \in {"webAccept", "botAccept"} : BeginAccept(w, o, op)

SchedulerStep ==
    \/ \E os \in SUBSET Offers : Scan(os)
    \/ \E o \in Offers : Stamp(o)
    \/ Expire \/ AbortScan

ShiftNext ==
    \/ \E w \in Threads :
          \/ \E u \in Executors, slot \in Slots, status \in OnDuty : BeginCreate(w, u, slot, status)
          \/ \E s \in Shifts : OnShift(w, s)
          \/ \E o \in Offers : OnOffer(w, o)
          \/ Finish(w)
    \/ SchedulerStep

ShiftSpec == ShiftInit /\ [][ShiftNext]_shiftVars

-----------------------------------------------------------------------------
\* Rows are well formed, locks are exclusive, and an offer has its shift.
ShiftTypeOK ==
    /\ \A s \in Shifts : shift[s] \in [owner : Executors, status : ShiftStatus, slot : Slots] \cup {NoEntry, Gone}
    /\ \A o \in Offers : Exists(offer[o]) =>
          /\ offer[o] \in [shift : Shifts, from : Executors, to : Executors \cup {Nobody}, status : OfferStatus]
          /\ Exists(shift[offer[o].shift])
    /\ \A v, w \in DOMAIN txs : v # w => txs[v].locks \cap txs[w].locks = {}

\* A shift is on offer at most once (create_transfer and its web mirror check
\* that no offer is open).
OneOpenOffer == \A s \in Shifts : Cardinality({o \in OffersOf(s) : offer[o].status \in Open}) <= 1

\* No executor has two shifts to work at one time (the overlap checks).
NoDoubleBooking ==
    \A s \in Shifts : Exists(shift[s]) /\ shift[s].status \in OnDuty
        => ~Busy(shift[s].owner, shift[s].slot, {s})

\* The two together.
BookedOnce == NoDoubleBooking /\ OneOpenOffer

=============================================================================
