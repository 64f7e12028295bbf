----------------------- MODULE ResidentApartmentsProofs -----------------------
(***************************************************************************)
(* Theorems about the apartments of a resident, for any apartments and any *)
(* sessions: types, and the one main apartment as long as only the section *)
(* Residents and the residents' own requests change the bindings.          *)
(***************************************************************************)
EXTENDS ResidentApartments, FiniteSetTheorems, TLAPS

\* The bindings rows may be left with: one approved main apartment, if any is approved.
OneIn(rows) == Approved(rows) # {} => \E a \in Main(rows) : Main(rows) = {a}

LEMMA WinnersTyped == \A rows, keep, among : Winners(rows, keep, among) \subseteq among
BY DEF Winners, Oldest

\* What _ensure_single_primary leaves of rows.
LEMMA EnsuredOne ==
  ASSUME ApartmentsAssumption, NEW rows \in Bindings, NEW keep, NEW exclude,
         NEW new \in Ensured(rows, keep, exclude)
  PROVE  /\ new \in Bindings
         /\ \A a \in Apartments : new[a].status = rows[a].status
         /\ \A a \in Apartments : rows[a].status = "none" /\ rows[a] = NoRow => new[a] = NoRow
         /\ (Approved(rows) \ {exclude} # {} \/ Approved(rows) = {}) => OneIn(new)
<1> DEFINE among == Approved(rows) \ {exclude}
<1>1. PICK winner :
        /\ new = [a \in Apartments |-> [rows[a] EXCEPT !.main = (a = winner)]]
        /\ winner \in among \/ (among = {} /\ winner = NoOne)
  BY WinnersTyped DEF Ensured
<1>2. \A a \in Apartments : rows[a] \in [status : Statuses, main : BOOLEAN, since : 0..MaxTime]
  BY DEF Bindings
<1>3. \A a \in Apartments : /\ new[a] \in [status : Statuses, main : BOOLEAN, since : 0..MaxTime]
                            /\ new[a].status = rows[a].status /\ new[a].since = rows[a].since
                            /\ new[a].main = (a = winner)
  BY <1>1, <1>2
<1>4. new \in Bindings
  BY <1>1, <1>3 DEF Bindings
<1>5. ASSUME NEW a \in Apartments, rows[a] = NoRow PROVE new[a] = NoRow
  <2>1. a # winner
    BY <1>1, <1>5 DEF Approved, NoRow, ApartmentsAssumption
  <2>2. new[a].status = "none" /\ new[a].since = 0 /\ new[a].main = FALSE
    BY <1>3, <1>5, <2>1 DEF NoRow
  <2>3. QED
    BY <1>3, <2>2 DEF NoRow
<1>6. Approved(new) = Approved(rows) /\ Main(new) = {a \in Approved(rows) : a = winner}
  BY <1>3 DEF Approved, Main
<1>7. ASSUME Approved(rows) \ {exclude} # {} \/ Approved(rows) = {} PROVE OneIn(new)
  BY <1>1, <1>6, <1>7 DEF OneIn
<1>8. QED
  BY <1>3, <1>4, <1>5, <1>7

-----------------------------------------------------------------------------
LEMMA BindingsMade ==
  ASSUME ApartmentsAssumption, NEW view \in Bindings, NEW a \in Apartments, NEW now \in 0..MaxTime
  PROVE  /\ \A st \in Statuses : SetStatus(view, a, st) \in Bindings
         /\ \A flag \in BOOLEAN : SetMain(view, a, flag) \in Bindings
         /\ Attached(view, a, now) \in Bindings
         /\ \A found \in SUBSET Apartments : PendingApproved(view, found) \in Bindings
         /\ [view EXCEPT ![a] = NoRow] \in Bindings
         /\ [view EXCEPT ![a] = [status |-> "pending", main |-> TRUE, since |-> now]] \in Bindings
<1>0. /\ MaxTime \in Nat /\ view[a] \in [status : Statuses, main : BOOLEAN, since : 0..MaxTime]
      /\ \A b \in Apartments : view[b] \in [status : Statuses, main : BOOLEAN, since : 0..MaxTime]
  BY DEF ApartmentsAssumption, Bindings
<1>1. \A st \in Statuses : SetStatus(view, a, st) \in Bindings
  BY <1>0 DEF SetStatus, Bindings
<1>2. \A flag \in BOOLEAN : SetMain(view, a, flag) \in Bindings
  BY <1>0 DEF SetMain, Bindings
<1>3. Attached(view, a, now) \in Bindings
  BY <1>0, <1>1 DEF Attached, Bindings, Statuses
<1>4. \A found \in SUBSET Apartments : PendingApproved(view, found) \in Bindings
  BY <1>0 DEF PendingApproved, Bindings, Statuses
<1>5. /\ [view EXCEPT ![a] = NoRow] \in Bindings
      /\ [view EXCEPT ![a] = [status |-> "pending", main |-> TRUE, since |-> now]] \in Bindings
  BY <1>0 DEF NoRow, Bindings, Statuses
<1>6. QED
  BY <1>1, <1>2, <1>3, <1>4, <1>5

LEMMA HomesResultsTyped ==
  ASSUME ApartmentsAssumption, NEW t \in Works, NEW new \in Results(t)
  PROVE  new \in Bindings
<1>0. t.op \in Ops /\ t.a \in Apartments /\ t.view \in Bindings /\ t.on \in SUBSET Apartments /\ t.now \in 0..MaxTime
  BY DEF Works
<1>1. CASE t.op = "request"
  <2>1. new = [t.view EXCEPT ![t.a] = [status |-> "pending", main |-> TRUE, since |-> t.now]]
    BY <1>1 DEF Results
  <2>2. QED
    BY <1>0, <2>1, BindingsMade
<1>2. CASE t.op \in {"attach", "attachMain"}
  <2>1. \E keep : new \in Ensured(Attached(t.view, t.a, t.now), keep, NoOne)
    BY <1>2 DEF Results
  <2>2. QED
    BY <1>0, <2>1, BindingsMade, EnsuredOne
<1>3. CASE t.op \in {"approve", "reject"}
  <2>1. \E st \in Statuses : new \in Ensured(SetStatus(t.view, t.a, st), NoOne, NoOne)
    BY <1>3 DEF Results, Statuses
  <2>2. QED
    BY <1>0, <2>1, BindingsMade, EnsuredOne
<1>4. CASE t.op \in {"makeMain", "dropMain", "remove", "verify"}
  <2>1. \E rows \in Bindings : \E keep, exclude : new \in Ensured(rows, keep, exclude)
    BY <1>0, <1>4, BindingsMade DEF Results
  <2>2. QED
    BY <2>1, EnsuredOne
<1>5. CASE t.op \in {"plainApprove", "plainReject", "botMain", "botVerify", "deactivate"}
  BY <1>0, <1>5, BindingsMade DEF Results, Statuses
<1>6. QED
  BY <1>0, <1>1, <1>2, <1>3, <1>4, <1>5 DEF ApartmentsAssumption, Locked, Unlocked

LEMMA HomesWrittenTyped ==
  ASSUME NEW now \in Bindings, NEW view \in Bindings, NEW new \in Bindings
  PROVE  Written(now, view, new) \in Bindings
BY DEF Written, Column, Bindings

LEMMA ApartmentsInit == ASSUME ApartmentsAssumption, Init PROVE TypeOK
<1>1. MaxTime \in Nat /\ NoOne \notin Workers /\ "idle" \notin Locked
  BY DEF ApartmentsAssumption, Locked
<1>2. row \in Bindings
  BY <1>1 DEF Init, Bindings, NoRow, Statuses
<1>3. \A w \in Workers : work[w].op = "idle"
  BY DEF Init, Idle
<1>4. QED
  BY <1>1, <1>2, <1>3 DEF Init, TypeOK, Axis

LEMMA HomesEndTyped ==
  ASSUME ApartmentsAssumption, TypeOK, NEW w \in Workers, End(w)
  PROVE  /\ work' \in [Workers -> {Idle} \cup Works] /\ lock' \in Workers \cup {NoOne}
         /\ time' \in 0..MaxTime
         /\ \A v \in Workers : lock' = v <=> work'[v].op \in Locked
         /\ work'[w] = Idle /\ \A v \in Workers \ {w} : work'[v] = work[v]
<1>1. NoOne \notin Workers /\ Idle.op \notin Locked
  BY DEF ApartmentsAssumption, Idle, Locked
<1>2. work'[w] = Idle /\ \A v \in Workers \ {w} : work'[v] = work[v]
  BY DEF End, TypeOK
<1>3. \A v \in Workers : lock' = v <=> work'[v].op \in Locked
  BY <1>1, <1>2 DEF End, TypeOK
<1>4. QED
  BY <1>2, <1>3 DEF End, TypeOK

LEMMA TouchedTyped == ASSUME NEW op, NEW a \in Apartments PROVE Touched(op, a) \subseteq Apartments
BY DEF Touched

LEMMA RereadTyped ==
  ASSUME ApartmentsAssumption, TypeOK, NEW w \in Workers, Reread(w)
  PROVE  /\ TypeOK'
         /\ work[w] \in Works /\ work[w].op \in Locked
         /\ work'[w] = [op |-> work[w].op, a |-> work[w].a, view |-> row, on |-> work[w].on,
                        again |-> TRUE, now |-> work[w].now]
         /\ \A v \in Workers \ {w} : work'[v] = work[v]
<1> DEFINE t == [op |-> work[w].op, a |-> work[w].a, view |-> row, on |-> work[w].on,
                 again |-> TRUE, now |-> work[w].now]
<1>1. work[w] \in Works /\ UNCHANGED <<row, active, verified, lock, time>>
  BY DEF Reread, TypeOK, Idle, Locked
<1>2. work' = [work EXCEPT ![w] = t]
  BY <1>1 DEF Reread, Transaction
<1>3. t \in Works /\ t.op = work[w].op
  BY <1>1 DEF Works, TypeOK
<1> HIDE DEF t
<1>4. \A v \in Workers : work'[v] = IF v = w THEN t ELSE work[v]
  BY <1>2 DEF TypeOK
<1>5. \A v \in Workers : lock' = v <=> work'[v].op \in Locked
  BY <1>1, <1>3, <1>4 DEF TypeOK
<1>6. TypeOK'
  BY <1>1, <1>2, <1>3, <1>5 DEF TypeOK
<1>7. QED
  BY <1>1, <1>4, <1>6 DEF t, Reread

LEMMA StartTyped ==
  ASSUME ApartmentsAssumption, TypeOK, NEW w \in Workers, NEW op \in Ops, NEW a \in Apartments, Start(w, op, a)
  PROVE  /\ TypeOK'
         /\ work'[w] = Transaction(op, a, Touched(op, a), op \notin Locked, time')
         /\ \A v \in Workers \ {w} : work'[v] = work[v]
<1> DEFINE t == Transaction(op, a, Touched(op, a), op \notin Locked, time')
<1>1. time' \in 0..MaxTime
  BY DEF Start, TypeOK, ApartmentsAssumption
<1>2. t \in Works /\ t.op = op
  BY <1>1, TouchedTyped DEF Transaction, Works, TypeOK
<1>3. work' = [work EXCEPT ![w] = t] /\ UNCHANGED <<row, active, verified>> /\ work[w].op = "idle"
      /\ TakeLock(w, op)
  BY DEF Start
<1> HIDE DEF t
<1>4. NoOne \notin Workers /\ "idle" \notin Locked
  BY DEF ApartmentsAssumption, Locked
<1>5. \A v \in Workers : work'[v] = IF v = w THEN t ELSE work[v]
  BY <1>3 DEF TypeOK
<1>6. \A v \in Workers : lock' = v <=> work'[v].op \in Locked
  BY <1>2, <1>3, <1>4, <1>5 DEF TypeOK, TakeLock
<1>7. lock' \in Workers \cup {NoOne}
  BY <1>3 DEF TypeOK, TakeLock
<1>8. TypeOK'
  BY <1>1, <1>2, <1>3, <1>6, <1>7 DEF TypeOK
<1>9. QED
  BY <1>5, <1>8 DEF t

LEMMA ApartmentsStep == ASSUME ApartmentsAssumption, TypeOK, [Next]_vars PROVE TypeOK'
<1>1. ASSUME NEW w \in Workers, Commit(w) PROVE TypeOK'
  <2>1. work[w] \in Works
    BY <1>1 DEF Commit, TypeOK, Idle
  <2>2. PICK new \in Results(work[w]) : row' = Written(Base(w), work[w].view, new)
    BY <1>1 DEF Commit
  <2>3. new \in Bindings /\ work[w].view \in Bindings
    BY <2>1, <2>2, HomesResultsTyped DEF Works
  <2>4. Base(w) \in Bindings
    BY DEF Base, TypeOK, Bindings
  <2>5. row' \in Bindings
    BY <2>2, <2>3, <2>4, HomesWrittenTyped
  <2>6. active' \subseteq Apartments /\ verified' \in Axis
    BY <1>1 DEF Commit, TypeOK, Axis
  <2>7. End(w)
    BY <1>1 DEF Commit
  <2>8. QED
    BY <2>5, <2>6, <2>7, HomesEndTyped DEF TypeOK
<1>2. ASSUME NEW w \in Workers, Abort(w) PROVE TypeOK'
  BY <1>2, HomesEndTyped DEF Abort, TypeOK
<1>3. ASSUME NEW w \in Workers, NEW a \in Apartments, StartBotVerify(w, a) PROVE TypeOK'
  <2> DEFINE t == Transaction("botVerify", a, Touched("botVerify", a), TRUE, time)
  <2>1. t \in Works /\ t.op \notin Locked
    BY <1>3, TouchedTyped DEF StartBotVerify, Transaction, Works, TypeOK, Locked
  <2>2. work' = [work EXCEPT ![w] = t] /\ verified' = "verified" /\ UNCHANGED <<row, active, lock, time>>
        /\ work[w].op \notin Locked
    BY <1>3 DEF StartBotVerify, Locked
  <2> HIDE DEF t
  <2>3. QED
    BY <2>1, <2>2 DEF TypeOK, Axis
<1>4. ASSUME NEW w \in Workers, NEW op \in Ops, NEW a \in Apartments, Start(w, op, a) PROVE TypeOK'
  BY <1>4, StartTyped
<1>8. ASSUME NEW w \in Workers, Reread(w) PROVE TypeOK'
  BY <1>8, RereadTyped
<1>5. ASSUME NEW a \in Apartments, Reactivate(a) PROVE TypeOK'
  BY <1>5 DEF Reactivate, TypeOK
<1>6. CASE AskDocuments \/ RefuseVerification \/ UNCHANGED vars
  BY <1>6 DEF AskDocuments, RefuseVerification, vars, TypeOK, Axis
<1>7. QED
  BY <1>1, <1>2, <1>3, <1>4, <1>5, <1>6, <1>8 DEF Next

\* Bindings, transactions and the lock keep to their kinds, whatever operations are in use.
THEOREM ApartmentsTypeCorrect == ApartmentsAssumption => (Spec => []TypeOK)
<1> SUFFICES ASSUME ApartmentsAssumption PROVE Spec => []TypeOK
    OBVIOUS
<1>1. Init => TypeOK
  BY ApartmentsInit
<1>2. TypeOK /\ [Next]_vars => TypeOK'
  BY ApartmentsStep
<1>3. QED
  BY <1>1, <1>2, PTL DEF Spec

-----------------------------------------------------------------------------
(***************************************************************************)
(* One main apartment.  Only a session that holds the row of the user has  *)
(* a view that decides, and under the lock nothing but a new request can   *)
(* have moved since it was read: what the session commits is what          *)
(* _ensure_single_primary made of rows that are still the rows.            *)
(***************************************************************************)
OnlyTheLockAndRequests == Ops \subseteq Locked \cup {"request"}

Clean(rows) == \A a \in Apartments : rows[a].status = "none" => rows[a] = NoRow

\* dropMain was allowed: another approved apartment takes over, if a was main.
Droppable(t) ==
    t.op = "dropMain" => /\ t.view[t.a].status # "none"
                         /\ t.view[t.a].main => Approved(t.view) \ {t.a} # {}

\* The view of a session that holds the lock is the rows, but for new requests.
Fresh(view) ==
    \A a \in Apartments : IF view[a].status = "none" THEN row[a].status \in {"none", "pending"}
                                                   ELSE row[a] = view[a]

\* The bindings an approved verification approves are bindings.
FoundThere(t) == t.op = "verify" => \A b \in t.on : t.view[b].status # "none"

LockedView(t) == OneIn(t.view) /\ Clean(t.view) /\ Fresh(t.view) /\ Droppable(t) /\ FoundThere(t)

MainInv ==
    /\ TypeOK
    /\ OneIn(row) /\ Clean(row)
    /\ \A w \in Workers : work[w].op \in Locked => LockedView(work[w])
    /\ \A w \in Workers : work[w].op = "request" => work[w].view[work[w].a].status = "none"

LEMMA EnsuredClean ==
  ASSUME ApartmentsAssumption, NEW rows \in Bindings, NEW keep, NEW exclude,
         NEW new \in Ensured(rows, keep, exclude), Clean(rows)
  PROVE  Clean(new)
BY EnsuredOne DEF Clean

LEMMA ResultsOne ==
  ASSUME ApartmentsAssumption, NEW t \in Works, t.op \in Locked, NEW new \in Results(t),
         OneIn(t.view), Clean(t.view), Droppable(t), FoundThere(t)
  PROVE  OneIn(new) /\ Clean(new)
<1>0. t.op \in Ops /\ t.a \in Apartments /\ t.view \in Bindings /\ t.on \in SUBSET Apartments /\ t.now \in 0..MaxTime
  BY DEF Works
<1>1. \A b \in Apartments : t.view[b] \in [status : Statuses, main : BOOLEAN, since : 0..MaxTime]
  BY <1>0 DEF Bindings
<1>2. ASSUME NEW rows \in Bindings, NEW keep, new \in Ensured(rows, keep, NoOne), Clean(rows)
      PROVE  OneIn(new) /\ Clean(new)
  <2>1. Approved(rows) \ {NoOne} = Approved(rows)
    BY DEF Approved, ApartmentsAssumption
  <2>2. QED
    BY <1>2, <2>1, EnsuredOne, EnsuredClean
<1>3. CASE t.op \in {"attach", "attachMain"}
  <2>1. PICK keep : new \in Ensured(Attached(t.view, t.a, t.now), keep, NoOne)
    BY <1>3 DEF Results
  <2>2. Attached(t.view, t.a, t.now) \in Bindings
    BY <1>0, BindingsMade
  <2>3. Clean(Attached(t.view, t.a, t.now))
    BY <1>0, <1>1 DEF Attached, SetStatus, Clean, Bindings
  <2>4. QED
    BY <1>2, <2>1, <2>2, <2>3
<1>4. CASE t.op \in {"approve", "reject"}
  <2>1. PICK st \in {"approved", "rejected"} : new \in Ensured(SetStatus(t.view, t.a, st), NoOne, NoOne)
    BY <1>4 DEF Results
  <2>2. SetStatus(t.view, t.a, st) \in Bindings
    BY <1>0, BindingsMade DEF Statuses
  <2>3. Clean(SetStatus(t.view, t.a, st))
    BY <1>0, <1>1 DEF SetStatus, Clean, Bindings
  <2>4. QED
    BY <1>2, <2>1, <2>2, <2>3
<1>5. CASE t.op = "makeMain"
  BY <1>0, <1>2, <1>5 DEF Results
<1>6. CASE t.op = "remove"
  <2>1. [t.view EXCEPT ![t.a] = NoRow] \in Bindings
    BY <1>0, BindingsMade
  <2>2. Clean([t.view EXCEPT ![t.a] = NoRow])
    BY <1>0 DEF Clean, Bindings
  <2>3. QED
    BY <1>2, <1>6, <2>1, <2>2 DEF Results
<1>7. CASE t.op = "verify"
  <2>1. PendingApproved(t.view, t.on) \in Bindings
    BY <1>0, BindingsMade
  <2>2. Clean(PendingApproved(t.view, t.on))
    BY <1>0, <1>1, <1>7 DEF PendingApproved, Clean, FoundThere, Bindings
  <2>3. QED
    BY <1>2, <1>7, <2>1, <2>2 DEF Results
<1>8. CASE t.op = "dropMain"
  <2> DEFINE rows == SetMain(t.view, t.a, FALSE)
  <2>1. rows \in Bindings /\ new \in Ensured(rows, NoOne, t.a)
    BY <1>0, <1>8, BindingsMade DEF Results
  <2>2. \A b \in Apartments : /\ rows[b].status = t.view[b].status /\ rows[b].since = t.view[b].since
                             /\ rows[b] = IF b = t.a THEN [t.view[b] EXCEPT !.main = FALSE] ELSE t.view[b]
    BY <1>0, <1>1 DEF SetMain, Bindings
  <2> HIDE DEF rows
  <2>3. Clean(rows)
    <3> SUFFICES ASSUME NEW b \in Apartments, rows[b].status = "none" PROVE rows[b] = NoRow
      BY DEF Clean
    <3>1. t.view[b] = NoRow
      BY <2>2 DEF Clean
    <3>2. rows[b].status = "none" /\ rows[b].main = FALSE /\ rows[b].since = 0
      BY <1>1, <2>2, <3>1 DEF NoRow
    <3>3. rows[b] \in [status : Statuses, main : BOOLEAN, since : 0..MaxTime]
      BY <2>1 DEF Bindings
    <3>4. QED
      BY <3>2, <3>3 DEF NoRow
  <2>4. Approved(rows) = Approved(t.view)
    <3>1. \A b \in Apartments : rows[b].status = t.view[b].status
      BY <2>2
    <3>2. QED
      BY <3>1 DEF Approved
  <2>5. CASE Approved(t.view) \ {t.a} # {}
    BY <2>1, <2>3, <2>4, <2>5, EnsuredOne, EnsuredClean
  <2>6. CASE Approved(t.view) \ {t.a} = {}
    <3>1. ~ t.view[t.a].main
      BY <1>8, <2>6 DEF Droppable
    <3>2. Main(t.view) = {}
      BY <2>6, <3>1 DEF Main
    <3>3. Approved(t.view) = {}
      BY <3>2 DEF OneIn
    <3>4. QED
      BY <2>1, <2>3, <2>4, <3>3, EnsuredOne, EnsuredClean
  <2>7. QED
    BY <2>5, <2>6
<1>9. QED
  BY <1>3, <1>4, <1>5, <1>6, <1>7, <1>8 DEF Locked

\* What a session that held the lock leaves in the rows.
LEMMA LockedCommit ==
  ASSUME ApartmentsAssumption, NEW now \in Bindings, NEW view \in Bindings, NEW new \in Bindings,
         Clean(now), Clean(view), Clean(new), OneIn(new), ~ Fails(now, view, new),
         \A a \in Apartments : IF view[a].status = "none" THEN now[a].status \in {"none", "pending"}
                                                         ELSE now[a] = view[a]
  PROVE  OneIn(Written(now, view, new)) /\ Clean(Written(now, view, new))
<1> DEFINE after == Written(now, view, new)
<1>1. ASSUME NEW a \in Apartments
      PROVE  after[a] = new[a] \/ (after[a] = now[a] /\ new[a].status = "none" /\ now[a].status = "pending")
  <2>0. /\ now[a] \in [status : Statuses, main : BOOLEAN, since : 0..MaxTime]
        /\ new[a] \in [status : Statuses, main : BOOLEAN, since : 0..MaxTime]
        /\ after[a] = [status |-> Column(now[a].status, view[a].status, new[a].status),
                       main |-> Column(now[a].main, view[a].main, new[a].main),
                       since |-> Column(now[a].since, view[a].since, new[a].since)]
    BY DEF Written, Bindings
  <2>1. CASE now[a] = view[a]
    BY <2>0, <2>1 DEF Column
  <2>2. CASE now[a] # view[a]
    <3>1. view[a] = NoRow /\ view[a].status = "none" /\ now[a].status \in {"none", "pending"}
      BY <2>2 DEF Clean
    <3>2. now[a].status = "pending"
      BY <2>2, <3>1 DEF Clean
    <3>3. new[a] = view[a]
      BY <3>1, <3>2 DEF Fails
    <3>4. after[a] = now[a]
      BY <2>0, <3>3 DEF Column
    <3>5. QED
      BY <3>1, <3>2, <3>3, <3>4
  <2>3. QED
    BY <2>1, <2>2
<1> HIDE DEF after
<1>2. Approved(after) = Approved(new) /\ Main(after) = Main(new)
  BY <1>1 DEF Approved, Main
<1>3. OneIn(after)
  BY <1>2 DEF OneIn
<1>4. Clean(after)
  BY <1>1 DEF Clean
<1>5. QED
  BY <1>3, <1>4 DEF after

\* A resident's request only makes a binding pending.
LEMMA RequestCommit ==
  ASSUME ApartmentsAssumption, NEW t \in Works, t.op = "request", NEW now \in Bindings,
         NEW new \in Results(t), ~ Fails(now, t.view, new),
         t.view[t.a].status = "none"
  PROVE  /\ now[t.a].status = "none" /\ Written(now, t.view, new)[t.a].status = "pending"
         /\ \A b \in Apartments \ {t.a} : Written(now, t.view, new)[b] = now[b]
<1>0. t.a \in Apartments /\ t.view \in Bindings /\ t.on \in SUBSET Apartments /\ t.now \in 0..MaxTime
  BY DEF Works
<1>1. new = [t.view EXCEPT ![t.a] = [status |-> "pending", main |-> TRUE, since |-> t.now]]
  BY DEF Results
<1>2. new[t.a].status = "pending" /\ \A b \in Apartments \ {t.a} : new[b] = t.view[b]
  BY <1>0, <1>1 DEF Bindings
<1>3. now[t.a].status = "none"
  BY <1>0, <1>2 DEF Fails
<1>4. Written(now, t.view, new)[t.a].status = "pending"
  BY <1>0, <1>2 DEF Written, Column
<1>5. ASSUME NEW b \in Apartments \ {t.a} PROVE Written(now, t.view, new)[b] = now[b]
  <2>1. now[b] \in [status : Statuses, main : BOOLEAN, since : 0..MaxTime]
    BY DEF Bindings
  <2>2. Written(now, t.view, new)[b] = [status |-> now[b].status, main |-> now[b].main, since |-> now[b].since]
    BY <1>2 DEF Written, Column
  <2>3. QED
    BY <2>1, <2>2
<1>6. QED
  BY <1>3, <1>4, <1>5

LEMMA MainInit == ASSUME ApartmentsAssumption, Init PROVE MainInv
<1>1. TypeOK
  BY ApartmentsInit
<1>2. OneIn(row) /\ Clean(row)
  BY DEF Init, OneIn, Clean, Approved, NoRow
<1>3. \A w \in Workers : work[w].op = "idle"
  BY DEF Init, Idle
<1>4. QED
  BY <1>1, <1>2, <1>3 DEF MainInv, Locked

LEMMA MainStep ==
  ASSUME ApartmentsAssumption, OnlyTheLockAndRequests, MainInv, [Next]_vars
  PROVE  MainInv'
<1>0. TypeOK /\ TypeOK'
  BY ApartmentsStep DEF MainInv
<1>1. Idle.op = "idle" /\ "idle" \notin Locked /\ "request" \notin Locked
  BY DEF Idle, Locked
<1>2. ASSUME NEW w \in Workers, Commit(w) PROVE MainInv'
  <2> DEFINE t == work[w]
  <2>1. t \in Works /\ t.view \in Bindings /\ t.a \in Apartments /\ t.op \in Locked \cup {"request"}
    BY <1>0, <1>2 DEF Commit, TypeOK, Idle, Works, OnlyTheLockAndRequests
  <2>2. Base(w) = row
    BY <2>1 DEF Base, Locked
  <2>3. PICK new \in Results(t) : ~ Fails(row, t.view, new) /\ row' = Written(row, t.view, new)
    BY <1>2, <2>2 DEF Commit
  <2>4. work'[w] = Idle /\ \A v \in Workers \ {w} : work'[v] = work[v]
    BY <1>0, <1>2, HomesEndTyped DEF Commit
  <2>5. row \in Bindings /\ new \in Bindings
    BY <1>0, <2>1, <2>3, HomesResultsTyped DEF TypeOK
  <2>6. \A v \in Workers : work'[v].op = "request" => work'[v].view[work'[v].a].status = "none"
    BY <1>1, <2>4 DEF MainInv
  <2>7. CASE t.op \in Locked
    <3>1. OneIn(t.view) /\ Clean(t.view) /\ Fresh(t.view) /\ Droppable(t) /\ FoundThere(t)
      BY <2>7 DEF MainInv, LockedView
    <3>2. OneIn(new) /\ Clean(new)
      BY <2>1, <2>3, <2>7, <3>1, ResultsOne
    <3>3. OneIn(row') /\ Clean(row')
      BY <2>1, <2>3, <2>5, <3>1, <3>2, LockedCommit DEF Fresh, MainInv
    <3>4. \A v \in Workers : work'[v].op \notin Locked
      BY <1>0, <1>1, <2>4, <2>7 DEF TypeOK
    <3>5. QED
      BY <1>0, <2>6, <3>3, <3>4 DEF MainInv, OneIn, Clean, Approved, Main
  <2>8. CASE t.op = "request"
    <3>1. t.view[t.a].status = "none"
      BY <2>8 DEF MainInv
    <3>2. /\ row[t.a].status = "none" /\ row'[t.a].status = "pending"
          /\ \A b \in Apartments \ {t.a} : row'[b] = row[b]
      BY <2>1, <2>3, <2>5, <2>8, <3>1, RequestCommit
    <3>3. Approved(row') = Approved(row) /\ Main(row') = Main(row)
      BY <3>2 DEF Approved, Main
    <3>4. OneIn(row') /\ Clean(row')
      BY <3>2, <3>3 DEF MainInv, OneIn, Clean
    <3>5. ASSUME NEW v \in Workers, work'[v].op \in Locked
          PROVE  /\ OneIn(work'[v].view) /\ Clean(work'[v].view) /\ Droppable(work'[v])
                 /\ FoundThere(work'[v])
                 /\ \A a \in Apartments :
                       IF work'[v].view[a].status = "none" THEN row'[a].status \in {"none", "pending"}
                                                           ELSE row'[a] = work'[v].view[a]
      <4>1. work'[v] = work[v] /\ work[v].op \in Locked
        BY <1>1, <2>4, <3>5
      <4>2. OneIn(work[v].view) /\ Clean(work[v].view) /\ Fresh(work[v].view) /\ Droppable(work[v])
            /\ FoundThere(work[v])
        BY <4>1 DEF MainInv, LockedView
      <4>3. ASSUME NEW a \in Apartments
            PROVE  IF work[v].view[a].status = "none" THEN row'[a].status \in {"none", "pending"}
                                                      ELSE row'[a] = work[v].view[a]
        BY <3>2, <4>2 DEF Fresh
      <4>4. QED
        BY <4>1, <4>2, <4>3
    <3>6. QED
      BY <1>0, <2>6, <3>4, <3>5 DEF MainInv, LockedView, Fresh, OneIn, Clean, Approved, Main, Droppable, FoundThere
  <2>9. QED
    BY <2>1, <2>7, <2>8
<1>3. ASSUME UNCHANGED row, \A v \in Workers : work'[v] = work[v] \/ work'[v] = Idle PROVE MainInv'
  BY <1>0, <1>1, <1>3 DEF MainInv, LockedView, Fresh, OneIn, Clean, Approved, Main, Droppable, FoundThere
<1>4. ASSUME NEW w \in Workers, Abort(w) PROVE MainInv'
  BY <1>0, <1>3, <1>4, HomesEndTyped DEF Abort
<1>5. ASSUME NEW w \in Workers, NEW a \in Apartments, StartBotVerify(w, a) PROVE MainInv'
  BY <1>5 DEF StartBotVerify, OnlyTheLockAndRequests, Locked
<1>6. ASSUME NEW w \in Workers, NEW op \in Ops, NEW a \in Apartments, Start(w, op, a) PROVE MainInv'
  <2>1. /\ work'[w] = Transaction(op, a, Touched(op, a), op \notin Locked, time')
        /\ \A v \in Workers \ {w} : work'[v] = work[v]
    BY <1>0, <1>6, StartTyped
  <2>2. UNCHANGED row /\ Allowed(op, a)
    BY <1>6 DEF Start
  <2>3. op = "request" => row[a].status = "none"
    BY <2>2 DEF Allowed
  <2>4. op = "dropMain" => row[a].status # "none" /\ (row[a].main => Approved(row) \ {a} # {})
    BY <2>2 DEF Allowed
  <2>5. Fresh(row)
    BY DEF Fresh
  <2>9. FoundThere(work'[w])
    BY <2>1 DEF FoundThere, Transaction, Touched
  <2>6. LockedView(work'[w]) /\ \A v \in Workers \ {w} : work'[v].op \in Locked => LockedView(work'[v])
    BY <2>1, <2>4, <2>5, <2>9 DEF MainInv, LockedView, Droppable, Transaction
  <2>7. \A v \in Workers : work'[v].op \in Locked => LockedView(work[v])' 
    BY <2>2, <2>6 DEF LockedView, Fresh, OneIn, Clean, Approved, Main, Droppable, FoundThere
  <2>8. QED
    BY <1>0, <2>1, <2>2, <2>3, <2>7 DEF MainInv, OneIn, Clean, Approved, Main, Transaction
<1>10. ASSUME NEW w \in Workers, Reread(w) PROVE MainInv'
  <2> DEFINE t == work'[w]
  <2>1. /\ work[w] \in Works /\ work[w].op \in Locked
        /\ t = [op |-> work[w].op, a |-> work[w].a, view |-> row, on |-> work[w].on,
                again |-> TRUE, now |-> work[w].now]
        /\ \A v \in Workers \ {w} : work'[v] = work[v]
    BY <1>0, <1>10, RereadTyped
  <2>2. LockedView(work[w]) /\ UNCHANGED row
    BY <1>10, <2>1 DEF MainInv, Reread
  <2>3. \A b \in work[w].on : row[b].status = "none" <=> work[w].view[b].status = "none"
    BY <1>10 DEF Reread
  <2>4. FoundThere(t)
    BY <2>1, <2>2, <2>3 DEF FoundThere, LockedView
  <2>5. Droppable(t)
    <3>1. Approved(work[w].view) \subseteq Approved(row)
      BY <2>2 DEF LockedView, Fresh, Approved
    <3>2. CASE work[w].view[work[w].a].status # "none"
      <4>1. row[work[w].a] = work[w].view[work[w].a]
        BY <2>1, <2>2, <3>2 DEF LockedView, Fresh, Works
      <4>2. QED
        BY <2>1, <2>2, <3>1, <4>1 DEF LockedView, Droppable
    <3>3. QED
      BY <2>1, <2>2, <3>2 DEF LockedView, Droppable
  <2>6. Fresh(row) /\ OneIn(row) /\ Clean(row)
    BY DEF Fresh, MainInv
  <2>7. LockedView(t)
    BY <2>1, <2>4, <2>5, <2>6 DEF LockedView
  <2> HIDE DEF t
  <2>8. \A v \in Workers : work'[v].op \in Locked => LockedView(work'[v])
    BY <2>1, <2>7 DEF MainInv, t
  <2>9. QED
    BY <1>0, <1>1, <2>1, <2>2, <2>8 DEF MainInv, LockedView, Fresh, OneIn, Clean, Approved, Main, Droppable, FoundThere, t
<1>7. ASSUME NEW a \in Apartments, Reactivate(a) PROVE MainInv'
  BY <1>3, <1>7 DEF Reactivate
<1>8. CASE AskDocuments \/ RefuseVerification \/ UNCHANGED vars
  BY <1>3, <1>8 DEF AskDocuments, RefuseVerification, vars
<1>9. QED
  BY <1>2, <1>4, <1>5, <1>6, <1>7, <1>8, <1>10 DEF Next

LEMMA MainInvImplies == ASSUME MainInv PROVE OneMain
<1>1. CASE Approved(row) # {}
  <2>1. PICK a \in Main(row) : Main(row) = {a}
    BY <1>1 DEF MainInv, OneIn
  <2>2. Cardinality(Main(row)) = 1
    BY <2>1, FS_Singleton
  <2>3. QED
    BY <2>2 DEF OneMain
<1>2. QED
  BY <1>1 DEF OneMain

\* _ensure_single_primary: a resident with approved apartments has exactly one main
\* apartment, for any number of sessions, as long as bindings change only under the lock of
\* the resident (the section "Residents") or by the resident's own request.
THEOREM ApartmentsKeepOneMain ==
  ApartmentsAssumption /\ OnlyTheLockAndRequests => (Spec => []OneMain)
<1> SUFFICES ASSUME ApartmentsAssumption, OnlyTheLockAndRequests PROVE Spec => []OneMain
    OBVIOUS
<1>1. Init => MainInv
  BY MainInit
<1>2. MainInv /\ [Next]_vars => MainInv'
  BY MainStep
<1>3. MainInv => OneMain
  BY MainInvImplies
<1>4. QED
  BY <1>1, <1>2, <1>3, PTL DEF Spec
=============================================================================
