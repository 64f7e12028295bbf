------------------------- MODULE ResidentApartments -------------------------
(***************************************************************************)
(* The apartments of one resident: user_apartments rows with a moderation  *)
(* status and the flag of the main apartment.  The section "Residents"     *)
(* (services/residents/core.py) locks the row of the user, reads and       *)
(* changes bindings, reads them all again and leaves one of the approved   *)
(* ones main.  The older ways in (the bot and the moderation of addresses) *)
(* read and write without that lock.  A transaction here is what it read   *)
(* (view) and, on commit, the columns it changed: SQLAlchemy writes no     *)
(* other.                                                                  *)
(***************************************************************************)
EXTENDS Naturals, FiniteSets

CONSTANTS
    Apartments,
    Workers, NoOne,    \* sessions; nobody holds the lock
    Ops,               \* the operations in use
    MaxTime            \* bound: transactions that insert a binding

Locked == {"attach", "attachMain", "approve", "reject", "makeMain", "dropMain", "remove", "verify"}
Unlocked == {"request", "plainApprove", "plainReject", "botMain", "botVerify", "deactivate"}

ApartmentsAssumption ==
    /\ NoOne \notin Workers \cup Apartments
    /\ Ops \subseteq Locked \cup Unlocked
    /\ MaxTime \in Nat

VARIABLES
    row,        \* the binding of each apartment
    active,     \* apartments in use
    verified,   \* users.verification_status
    lock,       \* who holds the row of the user
    work,       \* the transaction of each session
    time        \* now(): it moves on when a transaction that inserts starts

vars == <<row, active, verified, lock, work, time>>

Statuses == {"none", "pending", "approved", "rejected"}
\* since is requested_at, the time at which the inserting transaction started.
NoRow == [status |-> "none", main |-> FALSE, since |-> 0]
Bindings == [Apartments -> [status : Statuses, main : BOOLEAN, since : 0..MaxTime]]
Axis == {"pending", "requested", "verified", "rejected"}
Idle == [op |-> "idle"]

Approved(rows) == {a \in Apartments : rows[a].status = "approved"}
Main(rows) == {a \in Approved(rows) : rows[a].main}
SetStatus(rows, a, s) == [rows EXCEPT ![a].status = s]
SetMain(rows, a, flag) == [rows EXCEPT ![a].main = flag]

Init ==
    /\ row = [a \in Apartments |-> NoRow]
    /\ active = Apartments
    /\ verified = "pending"
    /\ lock = NoOne
    /\ work = [w \in Workers |-> Idle]
    /\ time = 0

-----------------------------------------------------------------------------
Oldest(rows, S) == {a \in S : \A b \in S : rows[a].since <= rows[b].since}

\* Who becomes main among the candidates: the one asked for, else the oldest that is main
\* already, else the oldest.
Winners(rows, keep, among) ==
    CASE keep \in among -> {keep}
      [] keep \notin among /\ Main(rows) \cap among # {} -> Oldest(rows, Main(rows) \cap among)
      [] OTHER -> Oldest(rows, among)

\* Mutant: nothing is done when some approved binding is main already.
EnsuredWhenNone(rows, keep, exclude) ==
    IF Main(rows) # {} THEN {rows}
    ELSE {[a \in Apartments |-> [rows[a] EXCEPT !.main = (a = winner)]] :
              winner \in Winners(rows, keep, Approved(rows))}

\* _ensure_single_primary: what it may make of the bindings.
Ensured(rows, keep, exclude) ==
    LET among == Approved(rows) \ {exclude}
        With(winner) == [a \in Apartments |-> [rows[a] EXCEPT !.main = (a = winner)]]
    IN  IF among = {} THEN {With(NoOne)} ELSE {With(a) : a \in Winners(rows, keep, among)}

-----------------------------------------------------------------------------

\* The conditions under which an operation goes on, as read at its start.
Reviewable(op, a) == row[a].status = "pending"

Allowed(op, a) ==
    CASE op = "request" -> a \in active /\ row[a].status = "none"
      [] op \in {"attach", "attachMain"} -> a \in active /\ row[a].status \in {"none", "rejected"}
      [] op \in {"approve", "reject", "plainApprove", "plainReject"} -> Reviewable(op, a)
      [] op \in {"makeMain", "botMain"} -> row[a].status = "approved"
      [] op = "dropMain" -> row[a].status # "none" /\ (row[a].main => Approved(row) \ {a} # {})
      [] op = "remove" -> row[a].status # "none"
      [] op = "verify" -> verified \in {"pending", "requested"}
      [] op = "botVerify" -> TRUE
      [] op = "deactivate" -> a \in active /\ row[a].status # "approved"

\* The bindings an operation itself writes to, as it finds them at its start.
Touched(op, a) ==
    CASE op \in {"verify", "botVerify"} -> {b \in Apartments : row[b].status = "pending"}
      [] op = "makeMain" -> {}
      [] OTHER -> {a}

\* The bindings that were found pending are approved.
PendingApproved(rows, found) ==
    [a \in Apartments |-> IF a \in found THEN [rows[a] EXCEPT !.status = "approved"] ELSE rows[a]]

\* attach_apartment opens a rejected binding again or inserts one, not main.
Attached(rows, a, now) ==
    IF rows[a].status = "none"
    THEN [rows EXCEPT ![a] = [status |-> "approved", main |-> FALSE, since |-> now]]
    ELSE SetStatus(rows, a, "approved")

\* What the transaction has in memory when it commits: t is what it does, to which
\* apartment, which bindings it read and which of them it writes to, and since when.
Results(t) ==
    LET op == t.op  a == t.a  view == t.view IN
    CASE op = "request" -> {[view EXCEPT ![a] = [status |-> "pending", main |-> TRUE, since |-> t.now]]}
      [] op = "attach" -> Ensured(Attached(view, a, t.now), NoOne, NoOne)
      [] op = "attachMain" -> Ensured(Attached(view, a, t.now), a, NoOne)
      [] op = "approve" -> Ensured(SetStatus(view, a, "approved"), NoOne, NoOne)
      [] op = "reject" -> Ensured(SetStatus(view, a, "rejected"), NoOne, NoOne)
      [] op = "makeMain" -> Ensured(view, a, NoOne)
      [] op = "dropMain" -> Ensured(SetMain(view, a, FALSE), NoOne, a)
      [] op = "remove" -> Ensured([view EXCEPT ![a] = NoRow], NoOne, NoOne)
      [] op = "verify" -> Ensured(PendingApproved(view, t.on), NoOne, NoOne)
      [] op = "plainApprove" -> {SetStatus(view, a, "approved")}
      [] op = "plainReject" -> {SetStatus(view, a, "rejected")}
      [] op = "botMain" -> {SetMain(view, a, TRUE)}
      [] op = "botVerify" -> {PendingApproved(view, t.on)}
      [] op = "deactivate" -> {view}

\* Only the columns that differ from what was read are written.
Column(now, before, after) == IF after # before THEN after ELSE now
Written(now, view, new) ==
    [a \in Apartments |->
        [status |-> Column(now[a].status, view[a].status, new[a].status),
         main |-> Column(now[a].main, view[a].main, new[a].main),
         since |-> Column(now[a].since, view[a].since, new[a].since)]]

\* A row to update is gone, or a row to insert is there: the statement fails.
Fails(now, view, new) ==
    \E a \in Apartments :
        /\ new[a] # view[a]
        /\ \/ view[a].status = "none" /\ now[a].status # "none"
           \/ view[a].status # "none" /\ now[a].status = "none"

-----------------------------------------------------------------------------
\* Mutant: the row of the user is read without FOR UPDATE.
LockNotTaken(w, op) == lock' = lock

\* _lock_resident
TakeLock(w, op) ==
    IF op \in Locked THEN lock = NoOne /\ lock' = w ELSE lock' = lock

Inserts(op, a) == op \in {"request", "attach", "attachMain"} /\ row[a].status = "none"

\* A transaction of op on a that has read what there is: it writes to the bindings on, and
\* has read again if it must.
Transaction(op, a, on, again, now) ==
    [op |-> op, a |-> a, view |-> row, on |-> on, again |-> again, now |-> now]

\* A transaction starts: it takes its lock, reads, and checks what it read.
Start(w, op, a) ==
    /\ work[w].op = "idle"
    /\ op \in Ops \ {"botVerify"}
    /\ TakeLock(w, op)
    /\ Allowed(op, a)
    /\ time' = IF Inserts(op, a) THEN time + 1 ELSE time
    /\ time' <= MaxTime
    /\ work' = [work EXCEPT ![w] = Transaction(op, a, Touched(op, a), op \notin Locked, time')]
    /\ UNCHANGED <<row, active, verified>>

\* Under the lock the transaction sends its own change, which must still find the rows it
\* updates and none where it inserts, and reads the bindings again (populate_existing)
\* before it decides which is main.
Reread(w) ==
    LET t == work[w] IN
    /\ t.op \in Locked /\ ~t.again
    /\ \A a \in t.on : row[a].status = "none" <=> t.view[a].status = "none"
    /\ work' = [work EXCEPT ![w] = Transaction(t.op, t.a, t.on, TRUE, t.now)]
    /\ UNCHANGED <<row, active, verified, lock, time>>

\* The bot verifies in one commit and approves the bindings in the next.
StartBotVerify(w, a) ==
    /\ work[w].op = "idle"
    /\ "botVerify" \in Ops
    /\ verified' = "verified"
    /\ work' = [work EXCEPT ![w] = Transaction("botVerify", a, Touched("botVerify", a), TRUE, time)]
    /\ UNCHANGED <<row, active, lock, time>>

End(w) ==
    /\ work' = [work EXCEPT ![w] = Idle]
    /\ lock' = IF lock = w THEN NoOne ELSE lock
    /\ UNCHANGED time

\* _set_primary_apartment: the others are reset by a statement of its own, on the rows as
\* they are now; the flag of the chosen one is written only if it was read as not set.
Base(w) ==
    IF work[w].op = "botMain"
    THEN [a \in Apartments |-> [row[a] EXCEPT !.main = @ /\ a = work[w].a]]
    ELSE row

Commit(w) ==
    LET t == work[w] IN
    /\ t.op # "idle" /\ t.again
    /\ \E new \in Results(t) :
        /\ ~Fails(row, t.view, new)
        /\ row' = Written(Base(w), t.view, new)
    /\ active' = IF t.op = "deactivate" THEN active \ {t.a} ELSE active
    /\ verified' = IF t.op = "verify" THEN "verified" ELSE verified
    /\ End(w)

\* The statement fails, the database breaks a deadlock, the process dies: nothing is kept.
Abort(w) ==
    /\ work[w].op # "idle"
    /\ End(w)
    /\ UNCHANGED <<row, active, verified>>

\* request_documents opens the verification again.
AskDocuments ==
    /\ lock = NoOne
    /\ verified' = "requested"
    /\ UNCHANGED <<row, active, lock, work, time>>

\* reject_verification closes it.
RefuseVerification ==
    /\ lock = NoOne
    /\ verified \in {"pending", "requested"}
    /\ verified' = "rejected"
    /\ UNCHANGED <<row, active, lock, work, time>>

Reactivate(a) ==
    /\ a \notin active
    /\ active' = active \cup {a}
    /\ UNCHANGED <<row, verified, lock, work, time>>

Next ==
    \/ \E w \in Workers : Reread(w) \/ Commit(w) \/ Abort(w)
    \/ \E w \in Workers, a \in Apartments :
          StartBotVerify(w, a) \/ \E op \in Ops : Start(w, op, a)
    \/ \E a \in Apartments : Reactivate(a)
    \/ AskDocuments \/ RefuseVerification

Spec == Init /\ [][Next]_vars

-----------------------------------------------------------------------------
Works == [op : Ops, a : Apartments, view : Bindings, on : SUBSET Apartments, again : BOOLEAN,
          now : 0..MaxTime]

\* Each variable keeps to its kind, and the lock is held by a session at work on an
\* operation that locks.
TypeOK ==
    /\ row \in Bindings
    /\ active \subseteq Apartments
    /\ verified \in Axis
    /\ time \in 0..MaxTime
    /\ work \in [Workers -> {Idle} \cup Works]
    /\ lock \in Workers \cup {NoOne}
    /\ \A w \in Workers : lock = w <=> work[w].op \in Locked

\* _ensure_single_primary: a resident with approved apartments has one main apartment.
OneMain == Approved(row) # {} => Cardinality(Main(row)) = 1
=============================================================================
