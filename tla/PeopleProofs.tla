---------------------------- MODULE PeopleProofs ----------------------------
(***************************************************************************)
(* Theorems about accounts and invitations (Accounts) and about shifts and *)
(* the offers to hand them over (ShiftTransfers), which share no state.    *)
(*                                                                         *)
(* Accounts.  One session at most joins with an invitation, because the    *)
(* nonce it inserts is unique; until the commit nobody has the role from   *)
(* it, and the nonce is the session's own or, when the account of a        *)
(* newcomer has been committed with it, used up (OneJoins).  So a nonce    *)
(* that is used up has given its role, is about to, or is that of a        *)
(* newcomer whose second transaction broke off.                            *)
(*                                                                         *)
(* Shifts.  What a transaction has read is still so when it writes         *)
(* (Views): the locks it holds name every row and executor its check was   *)
(* about, and nobody else holds them (Holdings).  That is what the web     *)
(* core's locks are for, and it fails for the operations that check        *)
(* without a lock, so that the theorem is about ShiftOps \subseteq Locking.*)
(*                                                                         *)
(* Last, the scenarios of MCPeople: their behaviours are behaviours of     *)
(* accounts, of apartments and of shifts, which share no state.            *)
(***************************************************************************)
EXTENDS MCPeople, ResidentApartmentsProofs, FiniteSetTheorems, TLAPS

Joins == {"join", "created"}
AccountsJob ==
    {NoTask}
        \cup [op : Plain, u : Users, arg : Roles, copy : Accounts, stands : BOOLEAN]
        \cup [op : {"edit"}, u : Users, arg : SUBSET Roles, copy : Accounts, stands : BOOLEAN]
        \cup [op : {"form"} \cup Joins, u : Users, arg : Invites, copy : Accounts, stands : BOOLEAN]

AccountsTyping == AccountsTypeOK /\ session \in [Sessions -> AccountsJob]

\* One session at most joins with an invitation; from before it has inserted the nonce and
\* until it gives the role nobody has the role from it.
OneJoins ==
    /\ \A i \in Invites, x \in Users : <<i, x>> \in granted => nonce[i] = "used"
    /\ \A i \in Invites, w \in Sessions : Joining(w, i) =>
        /\ nonce[i] = IF session[w].op = "join" THEN w ELSE "used"
        /\ \A v \in Sessions : Joining(v, i) => v = w
        /\ \A x \in Users : <<i, x>> \notin granted

KeptInv == AccountsTyping /\ OneJoins /\ GrantedOnce /\ UsedOrBroken
-----------------------------------------------------------------------------
\* What each kind of task holds.
LEMMA AccountsTaskFields ==
  ASSUME NEW t \in AccountsJob
  PROVE  /\ t.op \in {"idle", "edit", "form"} \cup Joins \cup Plain
         /\ t.op = "idle" => t = NoTask
         /\ t.op \in Plain => t.arg \in Roles
         /\ t.op = "edit" => t.arg \in SUBSET Roles
         /\ t.op \in {"form"} \cup Joins => t.arg \in Invites
         /\ t.op # "idle" => t.u \in Users /\ t.copy \in Accounts
BY DEF AccountsJob, NoTask, Joins, Plain

\* A task that has begun is one.
LEMMA BegunTyped ==
  ASSUME NEW op, NEW u \in Users, NEW arg, NEW copy \in Accounts,
         \/ op \in Plain /\ arg \in Roles
         \/ op = "edit" /\ arg \in SUBSET Roles
         \/ op \in {"form"} \cup Joins /\ arg \in Invites
  PROVE  /\ Begun(op, u, arg, copy) \in AccountsJob
         /\ Begun(op, u, arg, copy).op = op /\ Begun(op, u, arg, copy).arg = arg
BY DEF Begun, AccountsJob

LEMMA IdleTyped ==
  NoTask \in AccountsJob /\ NoTask.op = "idle" /\ NoTask.op \notin Joins /\ NoAccount \in Accounts
  /\ Newcomer \in Accounts
BY DEF AccountsJob, NoTask, Joins, NoAccount, Newcomer, Accounts, Roles

\* Every operation makes an account of an account.
LEMMA GrantTyped ==
  ASSUME NEW c \in Accounts, NEW r \in Roles
  PROVE  WithActive(c, r) \in Accounts /\ Enforced(c, r) \in Accounts
BY DEF WithActive, Enforced, Accounts

\* So does a join ...
LEMMA JoinedTyped ==
  ASSUME NEW c \in Accounts, NEW r \in Roles
  PROVE  Joined(c, r) \in Accounts
<1> DEFINE fresh == c.status = "pending" /\ c.roles \ Capabilities = {"applicant"}
           roles == (c.roles \cup {r}) \ (IF r \in Staff /\ fresh THEN {"applicant"} ELSE {})
           next == [c EXCEPT !.roles = roles]
           last == WithActive(Enforced(next, r), r)
<1>1. roles \in SUBSET Roles
  BY DEF Accounts
<1> HIDE DEF roles
<1>2. next \in Accounts
  BY <1>1 DEF Accounts
<1> HIDE DEF next
<1>3. Enforced(next, r) \in Accounts
  BY <1>2, GrantTyped
<1>4. last \in Accounts
  BY <1>3, GrantTyped
<1>5. Joined(c, r) = [last EXCEPT !.status = "pending"]
  BY DEF Joined, roles, next
<1> HIDE DEF last
<1>6. QED
  BY <1>4, <1>5 DEF Accounts

\* ... and so do the operations that read a copy and write it back.
LEMMA ResultsTyped ==
  ASSUME NEW op \in Plain, NEW c \in Accounts, NEW r \in Roles, NEW new \in Outcomes(op, c, r)
  PROVE  new \in Accounts
<1>1. CASE op \in {"approve", "block", "unblock", "switch"}
  BY <1>1 DEF Outcomes, Accounts
<1>2. CASE op \in {"verify", "refuse", "decline", "delete"}
  BY <1>2 DEF Outcomes, Accounts
<1>3. CASE op \in {"meterOn", "meterOff", "register"}
  <2>1. CASE op = "meterOn"
    BY <2>1 DEF Outcomes, Accounts, Capabilities, Roles
  <2>2. CASE op = "meterOff"
    BY <2>2 DEF Outcomes, Accounts
  <2>3. CASE op = "register"
    <3>1. c.roles \cup {"applicant"} \in SUBSET Roles /\ "applicant" \in Roles
      BY DEF Accounts, Roles
    <3>2. new = [c EXCEPT !.roles = c.roles \cup {"applicant"}, !.active = "applicant"]
      BY <2>3 DEF Outcomes
    <3>3. QED
      BY <3>1, <3>2 DEF Accounts
  <2>4. QED
    BY <1>3, <2>1, <2>2, <2>3
<1>4. CASE op = "assign"
  <2>1. [c EXCEPT !.roles = @ \cup {r}] \in Accounts
    BY DEF Accounts
  <2>2. Grant(c, r) \in Accounts
    BY <2>1, GrantTyped DEF Grant
  <2>3. new = Grant(c, r)
    BY <1>4 DEF Outcomes
  <2>4. QED
    BY <2>2, <2>3
<1>5. CASE op = "remove"
  <2>1. PICK first \in IF c.active # r THEN {c.active}
                       ELSE IF c.roles \ {r} = {} THEN {"applicant"} ELSE c.roles \ {r} :
          new = [c EXCEPT !.roles = c.roles \ {r}, !.active = first]
    BY <1>5 DEF Outcomes, Removed
  <2>2. first \in Roles /\ c.roles \ {r} \in SUBSET Roles
    BY DEF Accounts, Roles
  <2>3. QED
    BY <2>1, <2>2 DEF Accounts
<1>6. CASE op = "activate"
  <2>1. new = Activated(c)
    BY <1>6 DEF Outcomes
  <2>2. PICK role \in Roles, level \in {"pending", "verified", "rejected"} :
          Activated(c) = [c EXCEPT !.status = "approved", !.verified = level, !.active = role]
    BY DEF Activated, Accounts, Staff, Roles
  <2>3. QED
    BY <2>1, <2>2 DEF Accounts
<1>7. CASE op = "admin"
  <2> DEFINE entry == [c EXCEPT !.status = "approved", !.roles = {"manager"}, !.active = "manager"]
  <2>1. new = Enforced(entry, "manager") /\ "manager" \in Roles
    BY <1>7 DEF Outcomes, Roles
  <2>2. entry \in Accounts
    BY <2>1 DEF Accounts
  <2>3. QED
    BY <2>1, <2>2, GrantTyped
<1>8. CASE op = "erase"
  BY <1>8, IdleTyped DEF Outcomes
<1>9. QED
  BY <1>1, <1>2, <1>3, <1>4, <1>5, <1>6, <1>7, <1>8 DEF Plain

\* What a commit leaves of a row is a row.
LEMMA WrittenTyped ==
  ASSUME NEW now \in Accounts, NEW copy \in Accounts, NEW new \in Accounts
  PROVE  WrittenRow(now, copy, new) \in Accounts
<1>1. DOMAIN now = {"status", "roles", "active", "verified"}
  BY DEF Accounts
<1>2. WrittenRow(now, copy, new) =
        [f \in {"status", "roles", "active", "verified"} |-> IF new[f] # copy[f] THEN new[f] ELSE now[f]]
  BY <1>1 DEF WrittenRow, NewValue
<1>3. QED
  BY <1>2 DEF Accounts
-----------------------------------------------------------------------------
\* A session that joins with nothing goes on to a task that joins with nothing.
LEMMA TaskBegins ==
  ASSUME AccountsAssumption, KeptInv, NEW w \in Sessions, NEW t \in AccountsJob,
         session[w].op \notin Joins, t.op \notin Joins,
         session' = [session EXCEPT ![w] = t], account' \in [Users -> Accounts], UNCHANGED <<nonce, granted, broken>>
  PROVE  KeptInv'
<1> USE DEF KeptInv
<1>1. /\ session' \in [Sessions -> AccountsJob] /\ session'[w] = t
      /\ \A v \in Sessions : v # w => session'[v] = session[v]
  BY DEF AccountsTyping
<1>2. \A v \in Sessions, i \in Invites :
        (Joining(v, i)' <=> Joining(v, i)) /\ (Joining(v, i) => session'[v].op = session[v].op)
  BY <1>1 DEF Joining, Joins
<1>3. AccountsTyping'
  BY <1>1, <1>2 DEF AccountsTyping, AccountsTypeOK
<1>4. OneJoins'
  BY <1>2 DEF OneJoins
<1>5. UsedOrBroken'
  BY <1>2 DEF UsedOrBroken, Gives
<1>6. QED
  BY <1>3, <1>4, <1>5 DEF GrantedOnce

\* Another row of an account; the sessions go on.
LEMMA RowChanges ==
  ASSUME AccountsAssumption, KeptInv, account' \in [Users -> Accounts], UNCHANGED <<nonce, granted, broken, session>>
  PROVE  KeptInv'
<1>1. \A v \in Sessions, i \in Invites : Joining(v, i)' <=> Joining(v, i)
  BY DEF Joining
<1>2. QED
  BY <1>1 DEF KeptInv, AccountsTyping, AccountsTypeOK, OneJoins, UsedOrBroken, Gives, GrantedOnce

\* An operation that only reads its copy joins with nothing; nor does the screen of roles of
\* an employee, or the form of an invitation, which takes no nonce yet.
LEMMA BeginningKeeps ==
  ASSUME AccountsAssumption, KeptInv, NEW w \in Sessions, NEW u \in Users,
         \/ \E op \in AccountOps, r \in Roles : Read(w, op, u, r)
         \/ \E set \in SUBSET Roles : OpenRoles(w, u, set)
         \/ \E i \in Invites : OpenForm(w, u, i)
  PROVE  KeptInv'
<1>1. account \in [Users -> Accounts] /\ NoAccount \in Accounts
  BY IdleTyped DEF KeptInv, AccountsTyping, AccountsTypeOK
<1>2. ASSUME NEW op, NEW arg, NEW copy \in Accounts,
             \/ op \in Plain /\ arg \in Roles
             \/ op = "edit" /\ arg \in SUBSET Roles
             \/ op = "form" /\ arg \in Invites,
             session[w].op = "idle", UNCHANGED <<account, nonce, granted, broken>>,
             session' = [session EXCEPT ![w] = Begun(op, u, arg, copy)]
      PROVE  KeptInv'
  <2>1. PICK t \in AccountsJob : t.op = op /\ t = Begun(op, u, arg, copy)
    BY <1>2, BegunTyped
  <2>2. t.op \notin Joins /\ session[w].op \notin Joins
    BY <1>2, <2>1 DEF Joins, Plain
  <2>3. QED
    BY <1>1, <1>2, <2>1, <2>2, TaskBegins
<1>3. CASE \E op \in AccountOps, r \in Roles : Read(w, op, u, r)
  <2>1. PICK op \in Plain, r \in Roles : Read(w, op, u, r)
    BY <1>3 DEF Read
  <2>2. account[u] \in Accounts
    BY <1>1
  <2>3. QED
    BY <1>2, <2>1, <2>2 DEF Read
<1>4. CASE \E set \in SUBSET Roles : OpenRoles(w, u, set)
  <2>1. PICK set \in SUBSET Roles : OpenRoles(w, u, set)
    BY <1>4
  <2>2. /\ session[w].op = "idle" /\ UNCHANGED <<account, nonce, granted, broken>>
        /\ session' = [session EXCEPT ![w] = Begun("edit", u, set, NoAccount)]
    BY <2>1 DEF OpenRoles, Opened
  <2>3. QED
    BY <1>1, <1>2, <2>2
<1>5. CASE \E i \in Invites : OpenForm(w, u, i)
  <2>1. PICK i \in Invites : OpenForm(w, u, i)
    BY <1>5
  <2>2. /\ session[w].op = "idle" /\ UNCHANGED <<account, nonce, granted, broken>>
        /\ session' = [session EXCEPT ![w] = Begun("form", u, i, NoAccount)]
    BY <2>1 DEF OpenForm, Opened
  <2>3. QED
    BY <1>1, <1>2, <2>2
<1>6. QED
  BY <1>3, <1>4, <1>5

\* The write of the columns that differ from the copy: no nonce, no grant.
LEMMA WriteKeeps ==
  ASSUME AccountsAssumption, KeptInv, NEW w \in Sessions, Write(w)
  PROVE  KeptInv'
<1>1. PICK t \in AccountsJob : t = session[w] /\ t.op \in Plain
  BY DEF Write, KeptInv, AccountsTyping
<1>2. t.u \in Users /\ t.copy \in Accounts /\ t.arg \in Roles /\ t.op # "idle" /\ t.op \notin Joins
  BY <1>1, AccountsTaskFields DEF Plain, Joins
<1>3. PICK new \in Outcomes(t.op, t.copy, t.arg) :
        account' = [account EXCEPT ![t.u] = WrittenRow(account[t.u], t.copy, new)]
  BY <1>1 DEF Write
<1>4. new \in Accounts
  BY <1>1, <1>2, <1>3, ResultsTyped
<1>5. account \in [Users -> Accounts]
  BY DEF KeptInv, AccountsTyping, AccountsTypeOK
<1>6. account' \in [Users -> Accounts]
  BY <1>2, <1>3, <1>4, <1>5, WrittenTyped
<1>7. session' = [session EXCEPT ![w] = NoTask] /\ UNCHANGED <<nonce, granted, broken>>
  BY DEF Write
<1>8. QED
  BY <1>1, <1>2, <1>6, <1>7, IdleTyped, TaskBegins

\* The roles of an employee are saved under the lock of the row.
LEMMA SaveRolesKeeps ==
  ASSUME AccountsAssumption, KeptInv, NEW w \in Sessions, SaveRoles(w)
  PROVE  KeptInv'
<1>1. PICK t \in AccountsJob : t = session[w] /\ t.op = "edit"
  BY DEF SaveRoles, KeptInv, AccountsTyping
<1>2. t.u \in Users /\ t.arg \in SUBSET Roles /\ t.op \notin Joins
  BY <1>1, AccountsTaskFields DEF Joins
<1>3. PICK first \in t.arg :
        account' = [account EXCEPT ![t.u] = WithActive([account[t.u] EXCEPT !.roles = t.arg], first)]
  BY <1>1 DEF SaveRoles
<1>4. account \in [Users -> Accounts]
  BY DEF KeptInv, AccountsTyping, AccountsTypeOK
<1> DEFINE entry == [account[t.u] EXCEPT !.roles = t.arg]
<1>5. entry \in Accounts /\ first \in Roles
  BY <1>2, <1>3, <1>4 DEF Accounts
<1>6. WithActive(entry, first) \in Accounts
  BY <1>5, GrantTyped
<1>7. account' \in [Users -> Accounts]
  BY <1>2, <1>3, <1>4, <1>6
<1>8. session' = [session EXCEPT ![w] = NoTask] /\ UNCHANGED <<nonce, granted, broken>>
  BY DEF SaveRoles
<1>9. QED
  BY <1>1, <1>2, <1>7, <1>8, IdleTyped, TaskBegins

\* A newcomer gets an account; the operations on residents write a row they hold.
LEMMA RowsKeep ==
  ASSUME AccountsAssumption, KeptInv, NEW u \in Users,
         Arrive(u) \/ \E from, to : to \in {"approved", "blocked"} /\ ResidentStatus(u, from, to)
  PROVE  KeptInv'
<1>1. account' \in [Users -> Accounts] /\ UNCHANGED <<nonce, granted, broken, session>>
  BY IdleTyped DEF Arrive, ResidentStatus, KeptInv, AccountsTyping, AccountsTypeOK, Accounts
<1>2. QED
  BY <1>1, RowChanges

\* The row of a user goes: whoever joins for that user goes on to no role.
LEMMA EraseKeeps ==
  ASSUME AccountsAssumption, KeptInv, NEW w \in Sessions, Erase(w)
  PROVE  KeptInv'
<1> USE DEF KeptInv
<1>1. PICK t \in AccountsJob : t = session[w] /\ t.op = "erase"
  BY DEF Erase, AccountsTyping
<1>2. account' \in [Users -> Accounts] /\ UNCHANGED <<nonce, granted, broken>>
  BY IdleTyped DEF Erase, AccountsTyping, AccountsTypeOK
<1>3. ASSUME NEW v \in Sessions
      PROVE  session'[v] \in AccountsJob /\ (v = w => session'[v].op \notin Joins)
             /\ (v # w => session'[v].op = session[v].op /\ (session[v].op \in Joins => session'[v].arg = session[v].arg))
  <2>1. session'[v] = IF v = w THEN NoTask
                      ELSE IF session[v].op # "idle" /\ session[v].u = session[w].u
                      THEN [session[v] EXCEPT !.stands = FALSE] ELSE session[v]
    BY DEF Erase
  <2>2. session[v] \in AccountsJob
    BY DEF AccountsTyping
  <2>3. CASE session[v] = NoTask
    BY <2>1, <2>3, IdleTyped
  <2>4. CASE session[v] # NoTask
    <3>1. PICK s \in AccountsJob : s = session[v]
      BY <2>2
    <3>2. [s EXCEPT !.stands = FALSE] \in AccountsJob /\ [s EXCEPT !.stands = FALSE].op = s.op
          /\ (s.op \in Joins => [s EXCEPT !.stands = FALSE].arg = s.arg)
      BY <2>4, <3>1 DEF AccountsJob
    <3>3. QED
      BY <2>1, <2>2, <3>1, <3>2, IdleTyped
  <2>5. QED
    BY <2>3, <2>4
<1>4. session' \in [Sessions -> AccountsJob]
  BY <1>3 DEF Erase
<1>5. \A v \in Sessions, i \in Invites :
        (Joining(v, i)' <=> Joining(v, i)) /\ (Joining(v, i) => session'[v].op = session[v].op)
  BY <1>1, <1>3 DEF Joining, Joins
<1>6. AccountsTyping'
  BY <1>2, <1>4, <1>5 DEF AccountsTyping, AccountsTypeOK
<1>7. OneJoins'
  BY <1>2, <1>5 DEF OneJoins
<1>8. UsedOrBroken'
  BY <1>2, <1>5 DEF UsedOrBroken, Gives
<1>9. QED
  BY <1>2, <1>6, <1>7, <1>8 DEF GrantedOnce
-----------------------------------------------------------------------------
\* The nonce was free: nobody joins with it, nobody has its role.
LEMMA UseNonceKeeps ==
  ASSUME AccountsAssumption, KeptInv, NEW w \in Sessions, NEW u \in Users, NEW i \in Invites, UseNonce(w, u, i)
  PROVE  KeptInv'
<1> USE DEF KeptInv
<1>1. PICK t \in AccountsJob : t.op = "join" /\ t.arg = i /\ t = Begun("join", u, i, account[u])
  <2>1. PICK copy \in Accounts : copy = account[u] /\ "join" \in Joins
    BY DEF AccountsTyping, AccountsTypeOK, Joins
  <2>2. QED
    BY <2>1, BegunTyped
<1>2. /\ session' = [session EXCEPT ![w] = t] /\ nonce' = [nonce EXCEPT ![i] = w]
      /\ nonce[i] = "free" /\ session[w].op \in {"idle", "form"} /\ UNCHANGED <<account, granted, broken>>
  BY <1>1 DEF UseNonce, NonceFree, NonceHeld
<1>3. /\ session' \in [Sessions -> AccountsJob] /\ session'[w] = t
      /\ \A v \in Sessions : v # w => session'[v] = session[v]
  BY <1>1, <1>2 DEF AccountsTyping
<1>4. /\ nonce' \in [Invites -> {"free", "used"} \cup Sessions] /\ nonce'[i] = w
      /\ \A k \in Invites : k # i => nonce'[k] = nonce[k]
  BY <1>2 DEF AccountsTyping, AccountsTypeOK
<1>5. \A v \in Sessions, k \in Invites : Joining(v, k)' <=> (v = w /\ k = i) \/ (v # w /\ Joining(v, k))
  BY <1>1, <1>3 DEF Joining
<1>6. \A k \in Invites : ~Joining(w, k)
  BY <1>2 DEF Joining
<1>7. /\ \A v \in Sessions : ~Joining(v, i)
      /\ \A x \in Users : <<i, x>> \notin granted
  BY <1>2 DEF OneJoins, AccountsAssumption
<1>8. AccountsTyping'
  BY <1>2, <1>3, <1>4, <1>5, <1>6 DEF AccountsTyping, AccountsTypeOK
<1>9. OneJoins'
  BY <1>1, <1>2, <1>3, <1>4, <1>5, <1>6, <1>7 DEF OneJoins
<1>10. UsedOrBroken'
  BY <1>2, <1>4, <1>5, <1>6 DEF UsedOrBroken, Gives, AccountsAssumption
<1>11. QED
  BY <1>2, <1>8, <1>9, <1>10 DEF GrantedOnce

\* The account of somebody who joins: it is committed with the nonce, before the role.
LEMMA CreateUserKeeps ==
  ASSUME AccountsAssumption, KeptInv, NEW w \in Sessions, CreateUser(w)
  PROVE  KeptInv'
<1> USE DEF KeptInv
<1>1. PICK t \in AccountsJob : t = session[w] /\ t.op = "join"
  BY DEF CreateUser, AccountsTyping
<1>2. t.u \in Users /\ t.arg \in Invites
  BY <1>1, AccountsTaskFields DEF Joins, Plain
<1>3. PICK now \in AccountsJob :
        now.op = "created" /\ now.arg = t.arg /\ now = Begun("created", t.u, t.arg, Newcomer)
  BY <1>2, BegunTyped, IdleTyped DEF Joins
<1>4. /\ account' \in [Users -> Accounts] /\ nonce' = [nonce EXCEPT ![t.arg] = "used"]
      /\ session' = [session EXCEPT ![w] = now] /\ UNCHANGED <<granted, broken>>
  BY <1>1, <1>3, IdleTyped DEF CreateUser, AccountsTyping, AccountsTypeOK
<1>5. /\ session' \in [Sessions -> AccountsJob] /\ session'[w] = now
      /\ \A v \in Sessions : v # w => session'[v] = session[v]
  BY <1>3, <1>4 DEF AccountsTyping
<1>6. \A v \in Sessions, k \in Invites : Joining(v, k)' <=> Joining(v, k)
  BY <1>1, <1>3, <1>5 DEF Joining
<1>7. /\ nonce' \in [Invites -> {"free", "used"} \cup Sessions] /\ nonce'[t.arg] = "used"
      /\ \A k \in Invites : k # t.arg => nonce'[k] = nonce[k]
  BY <1>2, <1>4 DEF AccountsTyping, AccountsTypeOK
<1>8. \A k \in Invites : Joining(w, k) <=> k = t.arg
  BY <1>1 DEF Joining
<1>9. AccountsTyping'
  BY <1>2, <1>4, <1>5, <1>6, <1>7 DEF AccountsTyping, AccountsTypeOK, AccountsAssumption
<1>10. OneJoins'
  BY <1>2, <1>3, <1>4, <1>5, <1>6, <1>7, <1>8 DEF OneJoins
<1>11. UsedOrBroken'
  BY <1>2, <1>4, <1>6, <1>7, <1>8 DEF UsedOrBroken, Gives
<1>12. QED
  BY <1>4, <1>9, <1>10, <1>11 DEF GrantedOnce

\* The join gives the role and ends with the nonce used up.
LEMMA JoinKeeps ==
  ASSUME AccountsAssumption, KeptInv, NEW w \in Sessions, Join(w)
  PROVE  KeptInv'
<1> USE DEF KeptInv
<1>1. PICK t \in AccountsJob : t = session[w] /\ t.op \in Joins
  BY DEF Join, AccountsTyping, Joins
<1>2. t.u \in Users /\ t.arg \in Invites /\ t.copy \in Accounts /\ RoleOf[t.arg] \in Roles
  BY <1>1, AccountsTaskFields DEF Joins, AccountsAssumption
<1> DEFINE new == Joined(t.copy, RoleOf[t.arg])
<1>3. new \in Accounts
  BY <1>2, JoinedTyped
<1>4. /\ account' = [account EXCEPT ![t.u] = WrittenRow(account[t.u], t.copy, new)]
      /\ nonce' = [nonce EXCEPT ![t.arg] = "used"]
      /\ session' = [session EXCEPT ![w] = NoTask] /\ granted' = granted \cup {<<t.arg, t.u>>} /\ UNCHANGED broken
  BY <1>1 DEF Join
<1> HIDE DEF new
<1>5. account \in [Users -> Accounts]
  BY DEF AccountsTyping, AccountsTypeOK
<1>6. account' \in [Users -> Accounts]
  <2>1. WrittenRow(account[t.u], t.copy, new) \in Accounts
    BY <1>2, <1>3, <1>5, WrittenTyped
  <2>2. QED
    BY <1>2, <1>4, <1>5, <2>1
<1>7. /\ session' \in [Sessions -> AccountsJob] /\ session'[w] = NoTask
      /\ \A v \in Sessions : v # w => session'[v] = session[v]
  BY <1>4, IdleTyped DEF AccountsTyping
<1>8. \A v \in Sessions, k \in Invites : Joining(v, k)' <=> v # w /\ Joining(v, k)
  BY <1>7, IdleTyped DEF Joining, Joins
<1>9. /\ nonce' \in [Invites -> {"free", "used"} \cup Sessions] /\ nonce'[t.arg] = "used"
      /\ \A k \in Invites : k # t.arg => nonce'[k] = nonce[k]
  BY <1>2, <1>4 DEF AccountsTyping, AccountsTypeOK
<1>10. \A k \in Invites : Joining(w, k) <=> k = t.arg
  BY <1>1 DEF Joining, Joins
<1>11. AccountsTyping'
  BY <1>2, <1>4, <1>6, <1>7, <1>8, <1>9, <1>10 DEF AccountsTyping, AccountsTypeOK, AccountsAssumption
<1>12. \A k \in Invites, x \in Users : <<k, x>> \in granted' <=> <<k, x>> \in granted \/ (k = t.arg /\ x = t.u)
  BY <1>4
<1>13. OneJoins'
  BY <1>2, <1>7, <1>8, <1>9, <1>10, <1>12 DEF OneJoins
<1>14. GrantedOnce'
  BY <1>2, <1>10, <1>12 DEF OneJoins, GrantedOnce
<1>15. UsedOrBroken'
  <2>1. Gives(t.arg)'
    BY <1>2, <1>12 DEF Gives
  <2>2. ASSUME NEW k \in Invites, k # t.arg, nonce'[k] = "used" PROVE Gives(k)' \/ k \in broken'
    <3>1. Gives(k) \/ k \in broken
      BY <1>9, <2>2 DEF UsedOrBroken
    <3>2. CASE \E v \in Sessions : Joining(v, k)
      BY <1>8, <1>10, <2>2, <3>2 DEF Gives
    <3>3. QED
      BY <1>4, <1>12, <3>1, <3>2 DEF Gives
  <2>3. QED
    BY <2>1, <2>2 DEF UsedOrBroken
<1>16. QED
  BY <1>11, <1>13, <1>14, <1>15

\* A rollback frees the nonce that was not committed; that of a newcomer was.
LEMMA RollbackKeeps ==
  ASSUME AccountsAssumption, KeptInv, NEW w \in Sessions, Rollback(w)
  PROVE  KeptInv'
<1> USE DEF KeptInv
<1>1. /\ nonce' = [i \in Invites |-> IF nonce[i] = w THEN "free" ELSE nonce[i]]
      /\ session' = [session EXCEPT ![w] = NoTask] /\ UNCHANGED <<account, granted>>
      /\ broken' = broken \cup (IF session[w].op = "created" THEN {session[w].arg} ELSE {})
  BY DEF Rollback, Freed
<1>2. /\ session' \in [Sessions -> AccountsJob] /\ session'[w] = NoTask
      /\ \A v \in Sessions : v # w => session'[v] = session[v]
  BY <1>1, IdleTyped DEF AccountsTyping
<1>3. \A v \in Sessions, k \in Invites : Joining(v, k)' <=> v # w /\ Joining(v, k)
  BY <1>2, IdleTyped DEF Joining, Joins
<1>4. nonce' \in [Invites -> {"free", "used"} \cup Sessions]
  BY <1>1 DEF AccountsTyping, AccountsTypeOK
<1>5. broken' \subseteq Invites
  <2>1. session[w] \in AccountsJob
    BY DEF AccountsTyping
  <2>2. QED
    BY <1>1, <2>1, AccountsTaskFields DEF AccountsTyping, AccountsTypeOK, Joins
<1>6. AccountsTyping'
  BY <1>1, <1>2, <1>3, <1>4, <1>5 DEF AccountsTyping, AccountsTypeOK, AccountsAssumption
<1>7. OneJoins'
  BY <1>1, <1>2, <1>3 DEF OneJoins, AccountsAssumption, AccountsTyping, AccountsTypeOK
<1>8. ASSUME NEW i \in Invites, nonce'[i] = "used" PROVE Gives(i)' \/ i \in broken'
  <2>1. nonce[i] = "used" /\ (Gives(i) \/ i \in broken)
    BY <1>1, <1>8 DEF UsedOrBroken
  <2>2. CASE i \in broken
    BY <1>1, <2>2
  <2>3. CASE \E x \in Users : <<i, x>> \in granted
    BY <1>1, <2>3 DEF Gives
  <2>4. ASSUME NEW v \in Sessions, Joining(v, i) PROVE Gives(i)' \/ i \in broken'
    <3>1. CASE v # w
      BY <1>3, <2>4, <3>1 DEF Gives
    <3>2. CASE v = w
      <4>1. session[w].op = "created" /\ session[w].arg = i
        BY <2>1, <2>4, <3>2 DEF Joining, OneJoins, AccountsAssumption
      <4>2. QED
        BY <1>1, <4>1
    <3>3. QED
      BY <3>1, <3>2
  <2>5. QED
    BY <2>1, <2>2, <2>3, <2>4 DEF Gives
<1>9. UsedOrBroken'
  BY <1>8 DEF UsedOrBroken
<1>10. QED
  BY <1>1, <1>6, <1>7, <1>9 DEF GrantedOnce
-----------------------------------------------------------------------------
\* At the start nothing is used and nothing was given.
LEMMA AccountsAtStart == ASSUME AccountsAssumption, AccountsInit PROVE KeptInv
<1>1. \A w \in Sessions, i \in Invites : ~Joining(w, i)
  BY IdleTyped DEF AccountsInit, Joining, Joins
<1>2. AccountsTyping
  BY <1>1, IdleTyped DEF AccountsInit, AccountsTyping, AccountsTypeOK, AccountsAssumption
<1>3. OneJoins /\ GrantedOnce /\ UsedOrBroken
  BY <1>1 DEF AccountsInit, OneJoins, GrantedOnce, UsedOrBroken
<1>4. QED
  BY <1>2, <1>3 DEF KeptInv

\* Every step keeps the invariant, one action at a time.
LEMMA AccountsStep ==
  ASSUME AccountsAssumption, KeptInv, [AccountsNext]_accountVars
  PROVE  KeptInv'
<1>1. CASE UNCHANGED accountVars
  <2>1. UNCHANGED <<nonce, granted, broken, session, account>>
    BY <1>1 DEF accountVars
  <2>2. QED
    BY <2>1, RowChanges DEF KeptInv, AccountsTyping, AccountsTypeOK
<1>2. ASSUME NEW u \in Users,
             \/ Arrive(u) \/ ResidentStatus(u, {"pending"}, "approved")
             \/ ResidentStatus(u, {"pending", "approved"}, "blocked") \/ ResidentStatus(u, {"blocked"}, "approved")
      PROVE  KeptInv'
  BY <1>2, RowsKeep
<1>3. ASSUME NEW w \in Sessions, Write(w) \/ Erase(w) \/ SaveRoles(w) \/ CreateUser(w) \/ Join(w) \/ Rollback(w)
      PROVE  KeptInv'
  BY <1>3, WriteKeeps, EraseKeeps, SaveRolesKeeps, CreateUserKeeps, JoinKeeps, RollbackKeeps
<1>4. ASSUME NEW w \in Sessions, NEW u \in Users,
             \/ \E op \in AccountOps, r \in Roles : Read(w, op, u, r)
             \/ \E set \in SUBSET Roles : OpenRoles(w, u, set)
             \/ \E i \in Invites : OpenForm(w, u, i) \/ UseNonce(w, u, i)
      PROVE  KeptInv'
  <2>1. CASE \E i \in Invites : UseNonce(w, u, i)
    BY <2>1, UseNonceKeeps
  <2>2. CASE ~\E i \in Invites : UseNonce(w, u, i)
    BY <1>4, <2>2, BeginningKeeps
  <2>3. QED
    BY <2>1, <2>2
<1>5. QED
  BY <1>1, <1>2, <1>3, <1>4 DEF AccountsNext

\* Each variable of the accounts keeps to its kind, and a nonce is held by the session that
\* joins with it, for any users, invitations, sessions and operations in use.
THEOREM AccountsTypeCorrect == AccountsAssumption => (AccountsSpec => []AccountsTypeOK)
<1> SUFFICES ASSUME AccountsAssumption PROVE AccountsSpec => []AccountsTypeOK
    OBVIOUS
<1>1. KeptInv => AccountsTypeOK
  BY DEF KeptInv, AccountsTyping
<1>2. QED
  BY <1>1, AccountsAtStart, AccountsStep, PTL DEF AccountsSpec

\* An invitation gives its role to one account, whatever fails on the way and however many
\* sessions try it.
THEOREM InvitationGrantedOnce == AccountsAssumption => (AccountsSpec => []GrantedOnce)
<1> SUFFICES ASSUME AccountsAssumption PROVE AccountsSpec => []GrantedOnce
    OBVIOUS
<1>1. KeptInv => GrantedOnce
  BY DEF KeptInv
<1>2. QED
  BY <1>1, AccountsAtStart, AccountsStep, PTL DEF AccountsSpec

\* _use_nonce_atomically, process_invite_join_sync: an invitation gives its role to one
\* account, and is used up with the role given or still good, unless a newcomer's joining
\* breaks off between the account and the role.
THEOREM AccountsKeepInvitations == AccountsAssumption => (AccountsSpec => []InvitationsKept)
<1> SUFFICES ASSUME AccountsAssumption PROVE AccountsSpec => []InvitationsKept
    OBVIOUS
<1>1. KeptInv => InvitationsKept
  BY DEF KeptInv, InvitationsKept
<1>2. QED
  BY <1>1, AccountsAtStart, AccountsStep, PTL DEF AccountsSpec
-----------------------------------------------------------------------------
Procs == Threads \cup {Scheduler}
Things == Executors \cup Shifts \cup Offers

ShiftRow == [owner : Executors, status : ShiftStatus, slot : Slots]
OfferRow == [shift : Shifts, from : Executors, to : Executors \cup {Nobody}, status : OfferStatus]

\* What a transaction has decided, with the locks it holds.
Task ==
    {NoTx} \cup [op : {"create"}, who : Executors, slot : Slots, status : OnDuty, locks : SUBSET Things]
        \cup [op : {"patch", "end"}, shift : Shifts, status : ShiftStatus \ OnDuty, locks : SUBSET Things]
        \cup [op : {"activate"}, shift : Shifts, status : {"active"}, locks : SUBSET Things]
        \cup [op : {"move"}, shift : Shifts, slot : Slots, locks : SUBSET Things]
        \cup [op : {"delete"}, shift : Shifts, locks : SUBSET Things]
        \cup [op : {"webOffer", "botOffer"}, shift : Shifts, who : Executors, locks : SUBSET Things]
        \cup [op : {"webAssign", "botAssign"}, offer : Offers, who : Executors, locks : SUBSET Things]
        \cup [op : {"refuse"}, offer : Offers, status : OfferStatus \ Open, locks : SUBSET Things]
        \cup [op : {"webReassign", "botReassign"}, shift : Shifts, from : Executors, who : Executors,
              locks : SUBSET Things]
        \cup [op : {"webAccept", "botAccept"}, offer : Offers, shift : Shifts, who : Executors, locks : SUBSET Things]
        \cup [op : {"expire"}, todo : SUBSET Offers, locks : SUBSET Things]

\* An offer has its shift, and one that was assigned its recipient.
Rows ==
    /\ shift \in [Shifts -> ShiftRow \cup {NoEntry, Gone}]
    /\ offer \in [Offers -> OfferRow \cup {NoEntry, Gone}]
    /\ \A o \in Offers : Exists(offer[o]) =>
          Exists(shift[offer[o].shift]) /\ (offer[o].status = "assigned" => offer[o].to \in Executors)

\* Nobody holds what another holds; the rows the scheduler has stamped stay.
Holdings ==
    /\ txs \in [Procs -> Task]
    /\ \A v, w \in Procs : v # w => txs[v].locks \cap txs[w].locks = {}
    /\ \A v \in Procs : txs[v].op = "expire" <=> (v = Scheduler /\ txs[v] # NoTx)
    /\ txs[Scheduler].op = "expire" =>
          /\ txs[Scheduler].locks \subseteq txs[Scheduler].todo
          /\ \A o \in txs[Scheduler].locks : Exists(offer[o])

Typing == Rows /\ Holdings
-----------------------------------------------------------------------------
\* What each kind of task holds.
LEMMA TaskFields ==
  ASSUME NEW t \in Task
  PROVE  /\ t.locks \in SUBSET Things
         /\ t.op = "idle" <=> t = NoTx
         /\ t.op \in {"idle", "create", "patch", "activate", "end", "move", "delete", "webOffer", "botOffer", "webAssign",
                      "botAssign", "refuse", "webReassign", "botReassign", "webAccept", "botAccept", "expire"}
         /\ t.op = "create" => t.who \in Executors /\ t.slot \in Slots /\ t.status \in OnDuty
         /\ t.op \in {"patch", "activate", "end"} => t.shift \in Shifts /\ t.status \in ShiftStatus
         /\ t.op \in {"patch", "end"} => t.status \notin OnDuty
         /\ t.op = "move" => t.shift \in Shifts /\ t.slot \in Slots
         /\ t.op = "delete" => t.shift \in Shifts
         /\ t.op \in {"webOffer", "botOffer"} => t.shift \in Shifts /\ t.who \in Executors
         /\ t.op \in {"webAssign", "botAssign"} => t.offer \in Offers /\ t.who \in Executors
         /\ t.op = "refuse" => t.offer \in Offers /\ t.status \in OfferStatus \ Open
         /\ t.op \in {"webReassign", "botReassign"} =>
               t.shift \in Shifts /\ t.from \in Executors /\ t.who \in Executors
         /\ t.op \in {"webAccept", "botAccept"} => t.offer \in Offers /\ t.shift \in Shifts /\ t.who \in Executors
         /\ t.op = "expire" => t.todo \in SUBSET Offers
BY DEF Task, NoTx, ShiftStatus, OnDuty

\* A row that exists has all its columns.
LEMMA RowsThere ==
  ASSUME Rows
  PROVE  /\ \A s \in Shifts : Exists(shift[s]) <=> shift[s] \in ShiftRow
         /\ \A s \in Shifts : shift[s].status \in OnDuty \cup {"paused"} => shift[s] \in ShiftRow
         /\ \A o \in Offers : Exists(offer[o]) <=> offer[o] \in OfferRow
         /\ \A o \in Offers : offer[o].status \in Open => offer[o] \in OfferRow
<1>1. \A x \in ShiftRow \cup {NoEntry, Gone} : (Exists(x) <=> x \in ShiftRow) /\ (x.status \in OnDuty \cup {"paused"} => x \in ShiftRow)
  BY DEF ShiftRow, NoEntry, Gone, Exists, ShiftStatus, OnDuty
<1>2. \A x \in OfferRow \cup {NoEntry, Gone} : (Exists(x) <=> x \in OfferRow) /\ (x.status \in Open => x \in OfferRow)
  BY DEF OfferRow, NoEntry, Gone, Exists, OfferStatus, Open
<1>3. QED
  BY <1>1, <1>2 DEF Rows

\* A transaction that has decided holds what nobody else holds, and writes nothing yet.
LEMMA BeginTyped ==
  ASSUME ShiftAssumption, Typing, NEW w \in Procs, NEW t \in Task, t # NoTx, Begin(w, t),
         t.op = "expire" <=> w = Scheduler, w = Scheduler => t.locks = {}
  PROVE  Typing'
<1> USE DEF Typing
<1>1. /\ txs' = [txs EXCEPT ![w] = t] /\ UNCHANGED <<shift, offer>>
      /\ \A v \in Procs \ {w} : txs[v].locks \cap t.locks = {}
  BY DEF Begin, Free, Holdings
<1>2. /\ txs' \in [Procs -> Task] /\ txs'[w] = t
      /\ \A v \in Procs : v # w => txs'[v] = txs[v]
  BY <1>1 DEF Holdings
<1>3. Rows'
  BY <1>1 DEF Rows
<1>4. \A v, u \in Procs : v # u => txs'[v].locks \cap txs'[u].locks = {}
  BY <1>1, <1>2 DEF Holdings
<1>5. \A v \in Procs : txs'[v].op = "expire" <=> (v = Scheduler /\ txs'[v] # NoTx)
  BY <1>2 DEF Holdings
<1>6. Scheduler \in Procs
  BY DEF Procs
<1>7. txs'[Scheduler].op = "expire" =>
          /\ txs'[Scheduler].locks \subseteq txs'[Scheduler].todo
          /\ \A o \in txs'[Scheduler].locks : Exists(offer'[o])
  BY <1>1, <1>2, <1>6 DEF Holdings
<1>8. QED
  BY <1>2, <1>3, <1>4, <1>5, <1>7 DEF Holdings

\* A transaction ends, and what the scheduler has stamped is still there.
LEMMA EndTyped ==
  ASSUME ShiftAssumption, Typing, NEW w \in Procs, EndTx(w), Rows',
         \A o \in Offers : Exists(offer[o]) => Exists(offer'[o]) \/ w = Scheduler \/ o \notin txs[Scheduler].locks
  PROVE  Typing'
<1> USE DEF Typing
<1>1. NoTx \in Task /\ NoTx.op = "idle" /\ NoTx.locks = {}
  BY DEF Task, NoTx
<1>2. /\ txs' \in [Procs -> Task] /\ txs'[w] = NoTx
      /\ \A v \in Procs : v # w => txs'[v] = txs[v]
  BY <1>1 DEF Holdings, EndTx
<1>3. \A v, u \in Procs : v # u => txs'[v].locks \cap txs'[u].locks = {}
  BY <1>1, <1>2 DEF Holdings
<1>4. \A v \in Procs : txs'[v].op = "expire" <=> (v = Scheduler /\ txs'[v] # NoTx)
  BY <1>1, <1>2 DEF Holdings
<1>5. Scheduler \in Procs
  BY DEF Procs
<1>6. txs[Scheduler].op = "expire" => txs[Scheduler].locks \subseteq Offers
  BY <1>5, TaskFields DEF Holdings
<1>7. txs'[Scheduler].op = "expire" =>
          /\ txs'[Scheduler].locks \subseteq txs'[Scheduler].todo
          /\ \A o \in txs'[Scheduler].locks : Exists(offer'[o])
  BY <1>1, <1>2, <1>5, <1>6 DEF Holdings
<1>8. QED
  BY <1>2, <1>3, <1>4, <1>7 DEF Holdings
-----------------------------------------------------------------------------
\* The transactions begin: those about a shift ...
LEMMA OnShiftTyped ==
  ASSUME ShiftAssumption, Typing, NEW w \in Threads, NEW s \in Shifts, OnShift(w, s)
  PROVE  Typing'
<1> USE DEF Typing
<1>1. w \in Procs /\ w # Scheduler /\ {} \in SUBSET Things /\ {s} \in SUBSET Things
  BY DEF ShiftAssumption, Procs, Things
<1>2. ASSUME NEW status \in ShiftStatus, BeginPatch(w, s, status) PROVE Typing'
  <2> DEFINE t == [op |-> "patch", shift |-> s, status |-> status, locks |-> {}]
  <2>1. t \in Task /\ t # NoTx /\ t.op # "expire"
    BY <1>1, <1>2 DEF Task, NoTx, BeginPatch, Patches, OnDuty
  <2>2. Begin(w, t)
    BY <1>2 DEF BeginPatch
  <2> HIDE DEF t
  <2>3. QED
    BY <1>1, <2>1, <2>2, BeginTyped
<1>3. CASE BeginActivate(w, s)
  <2> DEFINE t == [op |-> "activate", shift |-> s, status |-> "active", locks |-> {}]
  <2>1. t \in Task /\ t # NoTx /\ t.op # "expire"
    BY <1>1 DEF Task, NoTx, ShiftStatus, OnDuty
  <2>2. Begin(w, t)
    BY <1>3 DEF BeginActivate
  <2> HIDE DEF t
  <2>3. QED
    BY <1>1, <2>1, <2>2, BeginTyped
<1>4. CASE BeginEnd(w, s)
  <2> DEFINE t == [op |-> "end", shift |-> s, status |-> "completed", locks |-> {}]
  <2>1. t \in Task /\ t # NoTx /\ t.op # "expire"
    BY <1>1 DEF Task, NoTx, ShiftStatus, OnDuty
  <2>2. Begin(w, t)
    BY <1>4 DEF BeginEnd
  <2> HIDE DEF t
  <2>3. QED
    BY <1>1, <2>1, <2>2, BeginTyped
<1>5. ASSUME NEW slot \in Slots, BeginMove(w, s, slot) PROVE Typing'
  <2> DEFINE t == [op |-> "move", shift |-> s, slot |-> slot, locks |-> {shift[s].owner}]
  <2>1. shift[s].owner \in Executors
    BY <1>5, RowsThere DEF BeginMove, ShiftRow
  <2>2. t \in Task /\ t # NoTx /\ t.op # "expire"
    BY <2>1 DEF Task, NoTx, Things
  <2>3. Begin(w, t)
    BY <1>5 DEF BeginMove
  <2> HIDE DEF t
  <2>4. QED
    BY <1>1, <2>2, <2>3, BeginTyped
<1>6. CASE BeginDelete(w, s)
  <2> DEFINE t == [op |-> "delete", shift |-> s, locks |-> {}]
  <2>1. t \in Task /\ t # NoTx /\ t.op # "expire"
    BY <1>1 DEF Task, NoTx
  <2>2. Begin(w, t)
    BY <1>6 DEF BeginDelete
  <2> HIDE DEF t
  <2>3. QED
    BY <1>1, <2>1, <2>2, BeginTyped
<1>7. ASSUME NEW op \in {"webOffer", "botOffer"}, BeginOffer(w, s, op) PROVE Typing'
  <2> DEFINE locks == IF op = "webOffer" THEN WebOfferLocks(s) ELSE {}
             t == [op |-> op, shift |-> s, who |-> shift[s].owner, locks |-> locks]
  <2>1. shift[s].owner \in Executors
    BY <1>7, RowsThere DEF BeginOffer, ShiftRow
  <2>2. locks \in SUBSET Things
    BY <1>1 DEF WebOfferLocks
  <2>3. Begin(w, t)
    BY <1>7 DEF BeginOffer
  <2> HIDE DEF locks
  <2>4. t \in Task /\ t # NoTx /\ t.op # "expire"
    BY <2>1, <2>2 DEF Task, NoTx
  <2> HIDE DEF t
  <2>5. QED
    BY <1>1, <2>3, <2>4, BeginTyped
<1>8. ASSUME NEW u \in Executors, NEW op \in {"webReassign", "botReassign"}, BeginReassign(w, s, u, op) PROVE Typing'
  <2> DEFINE locks == IF op = "webReassign" THEN MoveLocks(s, u) ELSE {}
             t == [op |-> op, shift |-> s, from |-> shift[s].owner, who |-> u, locks |-> locks]
  <2>1. shift[s].owner \in Executors
    BY <1>8, RowsThere DEF BeginReassign, Acceptable, ShiftRow
  <2>2. locks \in SUBSET Things
    BY DEF MoveLocks, Things
  <2>3. Begin(w, t)
    BY <1>8 DEF BeginReassign
  <2> HIDE DEF locks
  <2>4. t \in Task /\ t # NoTx /\ t.op # "expire"
    BY <2>1, <2>2 DEF Task, NoTx
  <2> HIDE DEF t
  <2>5. QED
    BY <1>1, <2>3, <2>4, BeginTyped
<1>9. QED
  BY <1>2, <1>3, <1>4, <1>5, <1>6, <1>7, <1>8 DEF OnShift

\* ... those that answer an offer ...
LEMMA OnOfferTyped ==
  ASSUME ShiftAssumption, Typing, NEW w \in Threads, NEW o \in Offers, OnOffer(w, o)
  PROVE  Typing'
<1> USE DEF Typing
<1>1. w \in Procs /\ w # Scheduler /\ AnswerLocks(o) \in SUBSET Things
  BY DEF ShiftAssumption, Procs, Things, AnswerLocks
<1>2. ASSUME NEW u \in Executors, NEW op \in {"webAssign", "botAssign"}, BeginAssign(w, o, u, op) PROVE Typing'
  <2> DEFINE t == [op |-> op, offer |-> o, who |-> u, locks |-> AnswerLocks(o)]
  <2>1. t \in Task /\ t # NoTx /\ t.op # "expire"
    BY <1>1 DEF Task, NoTx
  <2>2. Begin(w, t)
    BY <1>2 DEF BeginAssign
  <2> HIDE DEF t
  <2>3. QED
    BY <1>1, <2>1, <2>2, BeginTyped
<1>3. ASSUME NEW status \in OfferStatus, BeginRefuse(w, o, status) PROVE Typing'
  <2> DEFINE t == [op |-> "refuse", offer |-> o, status |-> status, locks |-> AnswerLocks(o)]
  <2>1. t \in Task /\ t # NoTx /\ t.op # "expire"
    BY <1>1, <1>3 DEF Task, NoTx, BeginRefuse, Open
  <2>2. Begin(w, t)
    BY <1>3 DEF BeginRefuse
  <2> HIDE DEF t
  <2>3. QED
    BY <1>1, <2>1, <2>2, BeginTyped
<1>4. ASSUME NEW op \in {"webAccept", "botAccept"}, BeginAccept(w, o, op) PROVE Typing'
  <2> DEFINE s == offer[o].shift
             u == offer[o].to
             locks == AnswerLocks(o) \cup IF op = "webAccept" THEN MoveLocks(s, u) ELSE {}
             t == [op |-> op, offer |-> o, shift |-> s, who |-> u, locks |-> locks]
  <2>1. s \in Shifts /\ u \in Executors
    BY <1>4, RowsThere DEF BeginAccept, OfferRow, Rows, Open
  <2>2. locks \in SUBSET Things
    BY <1>1, <2>1 DEF MoveLocks, Things
  <2>3. Begin(w, t)
    BY <1>4 DEF BeginAccept
  <2> HIDE DEF locks, s, u
  <2>4. t \in Task /\ t # NoTx /\ t.op # "expire"
    BY <2>1, <2>2 DEF Task, NoTx
  <2> HIDE DEF t
  <2>5. QED
    BY <1>1, <2>3, <2>4, BeginTyped
<1>5. QED
  BY <1>2, <1>3, <1>4 DEF OnOffer

\* ... and those that create a shift.
LEMMA BeginCreateTyped ==
  ASSUME ShiftAssumption, Typing, NEW w \in Threads, NEW u \in Executors, NEW slot \in Slots, NEW status \in OnDuty,
         BeginCreate(w, u, slot, status)
  PROVE  Typing'
<1> DEFINE t == [op |-> "create", who |-> u, slot |-> slot, status |-> status, locks |-> CreateLocks(u)]
<1>1. w \in Procs /\ w # Scheduler /\ CreateLocks(u) \in SUBSET Things
  BY DEF ShiftAssumption, Procs, Things, CreateLocks
<1>2. t \in Task /\ t # NoTx /\ t.op # "expire"
  BY <1>1 DEF Task, NoTx
<1>3. Begin(w, t)
  BY DEF BeginCreate
<1> HIDE DEF t
<1>4. QED
  BY <1>1, <1>2, <1>3, BeginTyped

\* The expiry job marks rows it has stamped and found.
LEMMA SchedulerTyped ==
  ASSUME ShiftAssumption, Typing, SchedulerStep
  PROVE  Typing'
<1> USE DEF Typing
<1>1. Scheduler \in Procs
  BY DEF Procs
<1>2. ASSUME NEW os \in SUBSET Offers, Scan(os) PROVE Typing'
  <2> DEFINE t == [op |-> "expire", todo |-> os, locks |-> {}]
  <2>1. t \in Task /\ t # NoTx /\ t.op = "expire" /\ t.locks = {}
    BY DEF Task, NoTx
  <2>2. Begin(Scheduler, t)
    BY <1>2 DEF Scan
  <2> HIDE DEF t
  <2>3. QED
    BY <1>1, <2>1, <2>2, BeginTyped
<1>3. ASSUME NEW o \in Offers, Stamp(o) PROVE Typing'
  <2>1. PICK t \in Task : t = txs[Scheduler]
    BY <1>1 DEF Holdings
  <2> DEFINE now == [t EXCEPT !.locks = t.locks \cup {o}]
  <2>2. /\ t \in [op : {"expire"}, todo : SUBSET Offers, locks : SUBSET Things] /\ o \in t.todo /\ Exists(offer[o])
        /\ \A v \in Procs \ {Scheduler} : txs[v].locks \cap {o} = {}
        /\ txs' = [txs EXCEPT ![Scheduler] = now] /\ UNCHANGED <<shift, offer>>
    BY <1>1, <1>3, <2>1 DEF Stamp, Free, Holdings, Task, NoTx
  <2>3. now \in Task /\ now.op = "expire" /\ now # NoTx /\ now.todo = t.todo /\ now.locks = t.locks \cup {o}
    BY <2>2 DEF Task, NoTx, Things
  <2> HIDE DEF now
  <2>4. /\ txs' \in [Procs -> Task] /\ txs'[Scheduler] = now
        /\ \A v \in Procs : v # Scheduler => txs'[v] = txs[v]
    BY <1>1, <2>2, <2>3 DEF Holdings
  <2>5. \A v, u \in Procs : v # u => txs'[v].locks \cap txs'[u].locks = {}
    <3>1. \A v \in Procs \ {Scheduler} : txs'[v].locks \cap now.locks = {}
      BY <2>1, <2>2, <2>3, <2>4, <1>1 DEF Holdings
    <3>2. QED
      BY <2>4, <3>1 DEF Holdings
  <2>6. \A v \in Procs : txs'[v].op = "expire" <=> (v = Scheduler /\ txs'[v] # NoTx)
    BY <2>3, <2>4 DEF Holdings
  <2>7. /\ txs'[Scheduler].locks \subseteq txs'[Scheduler].todo
        /\ \A p \in txs'[Scheduler].locks : Exists(offer'[p])
    BY <2>1, <2>2, <2>3, <2>4 DEF Holdings
  <2>8. Rows'
    BY <2>2 DEF Rows
  <2>9. QED
    BY <2>4, <2>5, <2>6, <2>7, <2>8 DEF Holdings
<1>4. CASE Expire
  <2>1. PICK t \in Task : t = txs[Scheduler]
    BY <1>1 DEF Holdings
  <2>2. /\ EndTx(Scheduler) /\ shift' = shift
        /\ offer' = [o \in Offers |-> IF o \in t.todo THEN [offer[o] EXCEPT !.status = "expired"] ELSE offer[o]]
        /\ \A o \in t.todo : Exists(offer[o])
    BY <1>4, <2>1 DEF Expire, Holdings
  <2>3. \A o \in Offers : o \in t.todo =>
           /\ [offer[o] EXCEPT !.status = "expired"] \in OfferRow
           /\ [offer[o] EXCEPT !.status = "expired"].shift = offer[o].shift
           /\ [offer[o] EXCEPT !.status = "expired"].status = "expired"
    BY <2>2, RowsThere DEF OfferRow, OfferStatus
  <2>4. Rows'
    BY <2>2, <2>3 DEF Rows
  <2>5. QED
    BY <1>1, <2>2, <2>4, EndTyped
<1>5. CASE AbortScan
  BY <1>1, <1>5, EndTyped DEF AbortScan, Rows
<1>6. QED
  BY <1>2, <1>3, <1>4, <1>5 DEF SchedulerStep

\* ... and end.
LEMMA FinishTyped ==
  ASSUME ShiftAssumption, Typing, NEW w \in Threads, Finish(w)
  PROVE  Typing'
<1> USE DEF Typing
<1>1. PICK t \in Task : t = txs[w]
  BY DEF Holdings, Procs
<1>2. w \in Procs /\ w # Scheduler /\ Scheduler \in Procs
  BY DEF ShiftAssumption, Procs
<1>3. ASSUME NEW s \in Shifts, NEW entry \in ShiftRow, Exists(shift[s]) \/ shift[s] = NoEntry,
             shift' = [shift EXCEPT ![s] = entry], UNCHANGED offer
      PROVE  Rows'
  <2>1. /\ shift' \in [Shifts -> ShiftRow \cup {NoEntry, Gone}]
        /\ \A x \in Shifts : x # s => shift'[x] = shift[x]
        /\ shift'[s] = entry /\ Exists(entry)
    BY <1>3 DEF Rows, ShiftRow, ShiftStatus, OnDuty, Exists
  <2>2. \A o \in Offers : Exists(offer[o]) => offer[o].shift \in Shifts
    BY RowsThere DEF OfferRow
  <2>3. \A x \in Shifts : Exists(shift[x]) => Exists(shift'[x])
    BY <2>1
  <2>4. QED
    BY <1>3, <2>1, <2>2, <2>3 DEF Rows
<1>4. ASSUME NEW o \in Offers, NEW entry \in OfferRow, UNCHANGED shift \/ \E s \in Shifts : \E x \in ShiftRow :
                Exists(shift[s]) /\ shift' = [shift EXCEPT ![s] = x],
             offer' = [offer EXCEPT ![o] = entry], Exists(shift[entry.shift]), entry.status = "assigned" => entry.to \in Executors
      PROVE  Rows' /\ \A p \in Offers : Exists(offer[p]) => Exists(offer'[p])
  <2>1. /\ shift' \in [Shifts -> ShiftRow \cup {NoEntry, Gone}]
        /\ \A s \in Shifts : Exists(shift[s]) => Exists(shift'[s])
    <3>1. CASE UNCHANGED shift
      BY <3>1 DEF Rows
    <3>2. ASSUME NEW s \in Shifts, NEW x \in ShiftRow, shift' = [shift EXCEPT ![s] = x]
          PROVE  /\ shift' \in [Shifts -> ShiftRow \cup {NoEntry, Gone}]
                 /\ \A y \in Shifts : Exists(shift[y]) => Exists(shift'[y])
      <4>1. Exists(x)
        BY DEF ShiftRow, ShiftStatus, OnDuty, Exists
      <4>2. shift' \in [Shifts -> ShiftRow \cup {NoEntry, Gone}] /\ shift'[s] = x /\ \A y \in Shifts : y # s => shift'[y] = shift[y]
        BY <3>2 DEF Rows
      <4>3. QED
        BY <4>1, <4>2
    <3>3. QED
      BY <1>4, <3>1, <3>2
  <2>2. /\ offer' \in [Offers -> OfferRow \cup {NoEntry, Gone}] /\ offer'[o] = entry
        /\ \A p \in Offers : p # o => offer'[p] = offer[p]
    BY <1>4 DEF Rows
  <2>3. Exists(entry) /\ entry.shift \in Shifts
    BY DEF OfferRow, OfferStatus, Open, Exists
  <2>4. \A p \in Offers : Exists(offer'[p]) =>
           Exists(shift'[offer'[p].shift]) /\ (offer'[p].status = "assigned" => offer'[p].to \in Executors)
    <3>1. \A p \in Offers : Exists(offer[p]) => offer[p].shift \in Shifts
      BY RowsThere DEF OfferRow
    <3>2. QED
      BY <1>4, <2>1, <2>2, <2>3, <3>1 DEF Rows
  <2>5. QED
    BY <2>1, <2>2, <2>3, <2>4 DEF Rows
<1>5. CASE SetShiftStatus(w)
  <2>1. t.op \in {"patch", "activate", "end"} /\ t.shift \in Shifts /\ t.status \in ShiftStatus
    BY <1>1, <1>5, TaskFields DEF SetShiftStatus, Doing
  <2>2. /\ Exists(shift[t.shift]) /\ shift' = [shift EXCEPT ![t.shift] = [shift[t.shift] EXCEPT !.status = t.status]]
        /\ EndTx(w) /\ UNCHANGED offer
    BY <1>1, <1>5 DEF SetShiftStatus
  <2>3. [shift[t.shift] EXCEPT !.status = t.status] \in ShiftRow
    BY <2>1, <2>2, RowsThere DEF ShiftRow
  <2>4. QED
    BY <1>2, <1>3, <2>1, <2>2, <2>3, EndTyped
<1>6. CASE Move(w)
  <2>1. t.op = "move" /\ t.shift \in Shifts /\ t.slot \in Slots
    BY <1>1, <1>6, TaskFields DEF Move, Doing
  <2>2. /\ Exists(shift[t.shift]) /\ shift' = [shift EXCEPT ![t.shift] = [shift[t.shift] EXCEPT !.slot = t.slot]]
        /\ EndTx(w) /\ UNCHANGED offer
    BY <1>1, <1>6 DEF Move
  <2>3. [shift[t.shift] EXCEPT !.slot = t.slot] \in ShiftRow
    BY <2>1, <2>2, RowsThere DEF ShiftRow
  <2>4. QED
    BY <1>2, <1>3, <2>1, <2>2, <2>3, EndTyped
<1>7. CASE Delete(w)
  <2>1. t.op = "delete" /\ t.shift \in Shifts
    BY <1>1, <1>7, TaskFields DEF Delete, Doing
  <2>2. /\ shift' = [shift EXCEPT ![t.shift] = Gone] /\ EndTx(w)
        /\ offer' = [o \in Offers |-> IF o \in OffersOf(t.shift) THEN Gone ELSE offer[o]]
        /\ \A v \in Procs \ {w} : txs[v].locks \cap ({t.shift} \cup OffersOf(t.shift)) = {}
    BY <1>1, <1>7 DEF Delete, Doing, Free, Holdings
  <2>3. Rows'
    <3>1. shift' \in [Shifts -> ShiftRow \cup {NoEntry, Gone}] /\ offer' \in [Offers -> OfferRow \cup {NoEntry, Gone}]
      BY <2>1, <2>2 DEF Rows
    <3>2. \A o \in Offers : Exists(offer'[o]) => offer'[o] = offer[o] /\ offer[o].shift # t.shift
      BY <2>2 DEF OffersOf, Exists, Gone
    <3>3. \A o \in Offers : Exists(offer[o]) => offer[o].shift \in Shifts
      BY RowsThere DEF OfferRow
    <3>4. QED
      BY <2>1, <2>2, <3>1, <3>2, <3>3 DEF Rows
  <2>4. \A o \in Offers : Exists(offer[o]) => Exists(offer'[o]) \/ o \notin txs[Scheduler].locks
    BY <1>2, <2>2
  <2>5. QED
    BY <1>2, <2>2, <2>3, <2>4, EndTyped
<1>8. ASSUME NEW s \in Shifts, Create(w, s) PROVE Typing'
  <2>1. t.who \in Executors /\ t.slot \in Slots /\ t.status \in OnDuty
    BY <1>1, <1>8, TaskFields DEF Create, Doing
  <2>2. /\ shift[s] = NoEntry /\ shift' = [shift EXCEPT ![s] = [owner |-> t.who, status |-> t.status, slot |-> t.slot]]
        /\ EndTx(w) /\ UNCHANGED offer
    BY <1>1, <1>8 DEF Create
  <2>3. [owner |-> t.who, status |-> t.status, slot |-> t.slot] \in ShiftRow
    BY <2>1 DEF ShiftRow, ShiftStatus
  <2>4. QED
    BY <1>2, <1>3, <2>2, <2>3, EndTyped
<1>9. ASSUME NEW o \in Offers, Offer(w, o) PROVE Typing'
  <2> DEFINE entry == Row(t.shift, t.who, Nobody, "pending")
  <2>1. t.shift \in Shifts /\ t.who \in Executors
    BY <1>1, <1>9, TaskFields DEF Offer, Doing
  <2>2. /\ Exists(shift[t.shift]) /\ offer' = [offer EXCEPT ![o] = entry] /\ EndTx(w) /\ UNCHANGED shift
    BY <1>1, <1>9 DEF Offer, Insert
  <2>3. entry \in OfferRow /\ entry.shift = t.shift /\ entry.status # "assigned"
    BY <2>1 DEF OfferRow, Row, OfferStatus, Open
  <2> HIDE DEF entry
  <2>4. QED
    BY <1>2, <1>4, <2>2, <2>3, EndTyped
<1>10. CASE Assign(w)
  <2> DEFINE entry == [offer[t.offer] EXCEPT !.status = "assigned", !.to = t.who]
  <2>1. t.offer \in Offers /\ t.who \in Executors
    BY <1>1, <1>10, TaskFields DEF Assign, Doing
  <2>2. Exists(offer[t.offer]) /\ offer' = [offer EXCEPT ![t.offer] = entry] /\ EndTx(w) /\ UNCHANGED shift
    BY <1>1, <1>10 DEF Assign
  <2>3. offer[t.offer] \in OfferRow /\ Exists(shift[offer[t.offer].shift])
    BY <2>1, <2>2, RowsThere DEF Rows
  <2>4. entry \in OfferRow /\ entry.shift = offer[t.offer].shift /\ entry.to \in Executors
    BY <2>1, <2>3 DEF OfferRow, OfferStatus, Open
  <2> HIDE DEF entry
  <2>5. QED
    BY <1>2, <1>4, <2>1, <2>2, <2>3, <2>4, EndTyped
<1>11. CASE Refuse(w)
  <2> DEFINE entry == [offer[t.offer] EXCEPT !.status = t.status]
  <2>1. t.offer \in Offers /\ t.status \in OfferStatus \ Open
    BY <1>1, <1>11, TaskFields DEF Refuse, Doing
  <2>2. Exists(offer[t.offer]) /\ offer' = [offer EXCEPT ![t.offer] = entry] /\ EndTx(w) /\ UNCHANGED shift
    BY <1>1, <1>11 DEF Refuse
  <2>3. offer[t.offer] \in OfferRow /\ Exists(shift[offer[t.offer].shift])
    BY <2>1, <2>2, RowsThere DEF Rows
  <2>4. entry \in OfferRow /\ entry.shift = offer[t.offer].shift /\ entry.status # "assigned"
    BY <2>1, <2>3 DEF OfferRow, OfferStatus, Open
  <2> HIDE DEF entry
  <2>5. QED
    BY <1>2, <1>4, <2>1, <2>2, <2>3, <2>4, EndTyped
<1>12. ASSUME NEW o \in Offers, Reassign(w, o) PROVE Typing'
  <2> DEFINE entry == Row(t.shift, t.from, t.who, "completed")
  <2>1. t.shift \in Shifts /\ t.who \in Executors /\ t.from \in Executors
    BY <1>1, <1>12, TaskFields DEF Reassign, Doing
  <2>2. /\ Exists(shift[t.shift]) /\ shift' = [shift EXCEPT ![t.shift] = [shift[t.shift] EXCEPT !.owner = t.who]]
        /\ offer' = [offer EXCEPT ![o] = entry] /\ EndTx(w)
    BY <1>1, <1>12 DEF Reassign, Insert
  <2>3. [shift[t.shift] EXCEPT !.owner = t.who] \in ShiftRow
    BY <2>1, <2>2, RowsThere DEF ShiftRow
  <2>4. entry \in OfferRow /\ entry.shift = t.shift /\ entry.status # "assigned"
    BY <2>1 DEF OfferRow, Row, OfferStatus, Open
  <2> HIDE DEF entry
  <2>5. \E s \in Shifts : \E x \in ShiftRow : Exists(shift[s]) /\ shift' = [shift EXCEPT ![s] = x]
    BY <2>1, <2>2, <2>3
  <2>6. Rows' /\ \A p \in Offers : Exists(offer[p]) => Exists(offer'[p])
    BY <1>4, <2>2, <2>4, <2>5
  <2>7. QED
    BY <1>2, <2>2, <2>6, EndTyped
<1>13. CASE Accept(w)
  <2> DEFINE entry == [offer[t.offer] EXCEPT !.status = "completed"]
  <2>1. t.shift \in Shifts /\ t.who \in Executors /\ t.offer \in Offers
    BY <1>1, <1>13, TaskFields DEF Accept, Doing
  <2>2. /\ Exists(shift[t.shift]) /\ shift' = [shift EXCEPT ![t.shift] = [shift[t.shift] EXCEPT !.owner = t.who]]
        /\ Exists(offer[t.offer]) /\ offer' = [offer EXCEPT ![t.offer] = entry] /\ EndTx(w)
    BY <1>1, <1>13 DEF Accept
  <2>3. [shift[t.shift] EXCEPT !.owner = t.who] \in ShiftRow
    BY <2>1, <2>2, RowsThere DEF ShiftRow
  <2>4. offer[t.offer] \in OfferRow /\ Exists(shift[offer[t.offer].shift])
    BY <2>1, <2>2, RowsThere DEF Rows
  <2>5. entry \in OfferRow /\ entry.shift = offer[t.offer].shift /\ entry.status = "completed"
    BY <2>1, <2>4 DEF OfferRow, OfferStatus
  <2> HIDE DEF entry
  <2>6. \E s \in Shifts : \E x \in ShiftRow : Exists(shift[s]) /\ shift' = [shift EXCEPT ![s] = x]
    BY <2>1, <2>2, <2>3
  <2>7. Rows' /\ \A p \in Offers : Exists(offer[p]) => Exists(offer'[p])
    BY <1>4, <2>1, <2>2, <2>4, <2>5, <2>6
  <2>8. QED
    BY <1>2, <2>2, <2>7, EndTyped
<1>14. CASE AbortTx(w)
  BY <1>2, <1>14, EndTyped DEF AbortTx, Rows
<1>15. QED
  BY <1>5, <1>6, <1>7, <1>8, <1>9, <1>10, <1>11, <1>12, <1>13, <1>14 DEF Finish
-----------------------------------------------------------------------------
\* At the start there is no row and nobody holds anything.
LEMMA ShiftsInitTyped ==
  ASSUME ShiftAssumption, ShiftInit
  PROVE  Typing
<1>1. NoTx \in Task /\ NoTx.op = "idle" /\ NoTx.locks = {} /\ ~Exists(NoEntry)
  BY DEF Task, NoTx, NoEntry, Exists
<1>2. Rows
  BY <1>1 DEF ShiftInit, Rows
<1>3. Holdings
  BY <1>1 DEF ShiftInit, Holdings, Procs
<1>4. QED
  BY <1>2, <1>3 DEF Typing

\* Every step keeps the rows and the locks.
LEMMA ShiftsStepTyped ==
  ASSUME ShiftAssumption, Typing, [ShiftNext]_shiftVars
  PROVE  Typing'
<1>1. CASE UNCHANGED shiftVars
  BY <1>1 DEF Typing, Rows, Holdings, shiftVars
<1>2. CASE ShiftNext
  BY <1>2, BeginCreateTyped, OnShiftTyped, OnOfferTyped, FinishTyped, SchedulerTyped DEF ShiftNext
<1>3. QED
  BY <1>1, <1>2

\* The type invariant, whatever operations are in use.
THEOREM ShiftsTypeCorrect ==
  ShiftAssumption => (ShiftSpec => []ShiftTypeOK)
<1> SUFFICES ASSUME ShiftAssumption PROVE ShiftSpec => []ShiftTypeOK
  OBVIOUS
<1>1. ShiftInit => Typing
  BY ShiftsInitTyped
<1>2. Typing /\ [ShiftNext]_shiftVars => Typing'
  BY ShiftsStepTyped
<1>3. Typing => ShiftTypeOK
  <2> SUFFICES ASSUME Typing PROVE ShiftTypeOK
    OBVIOUS
  <2>1. DOMAIN txs = Procs
    BY DEF Typing, Holdings
  <2>2. \A s \in Shifts : shift[s] \in ShiftRow \cup {NoEntry, Gone}
    BY DEF Typing, Rows
  <2>3. \A o \in Offers : Exists(offer[o]) => offer[o] \in OfferRow /\ Exists(shift[offer[o].shift])
    BY RowsThere DEF Typing, Rows
  <2>4. \A v, w \in Procs : v # w => txs[v].locks \cap txs[w].locks = {}
    BY DEF Typing, Holdings
  <2>5. QED
    BY <2>1, <2>2, <2>3, <2>4 DEF ShiftTypeOK, ShiftRow, OfferRow
<1>4. QED
  BY <1>1, <1>2, <1>3, PTL DEF ShiftSpec
-----------------------------------------------------------------------------
Locking == {"create", "patch", "end", "delete", "webReassign", "webOffer", "webAssign", "botAssign", "webAccept",
            "refuse", "expire"}

\* Offer p holds shift s out to others.
OpenOn(p, s) == Exists(offer[p]) /\ offer[p].shift = s /\ offer[p].status \in Open

OpenOnce == \A p, q \in Offers, s \in Shifts : OpenOn(p, s) /\ OpenOn(q, s) => p = q

\* What a transaction has read is still so when it writes.
ShiftView(t) ==
    /\ t.op = "create" => t.who \in t.locks /\ ~Busy(t.who, t.slot, {})
    /\ t.op \in {"webReassign", "webAccept"} =>
          /\ t.shift \in t.locks /\ t.who \in t.locks
          /\ Exists(shift[t.shift]) /\ ~Busy(t.who, shift[t.shift].slot, {t.shift})

OfferView(t) ==
    /\ t.op = "webOffer" => t.shift \in t.locks /\ \A p \in Offers : ~OpenOn(p, t.shift)
    /\ t.op \in {"webAssign", "botAssign"} => t.offer \in t.locks /\ offer[t.offer].status \in Open

Views == \A v \in Procs : txs[v].op \in Locking \cup {"idle"} /\ ShiftView(txs[v]) /\ OfferView(txs[v])

BookInv == Typing /\ Views /\ NoDoubleBooking /\ OpenOnce

\* A decision is taken on what is so.
LEMMA BeginBooked ==
  ASSUME BookInv, Typing', NEW w \in Procs, NEW t \in Task, Begin(w, t), t.op \in Locking, ShiftView(t), OfferView(t)
  PROVE  BookInv'
<1>1. txs' = [txs EXCEPT ![w] = t] /\ shift' = shift /\ offer' = offer /\ txs \in [Procs -> Task]
  BY DEF Begin, BookInv, Typing, Holdings
<1>2. txs'[w] = t /\ \A v \in Procs : v # w => txs'[v] = txs[v]
  BY <1>1
<1>3. NoDoubleBooking' /\ OpenOnce'
  BY <1>1 DEF BookInv, NoDoubleBooking, Busy, OpenOnce, OpenOn
<1>4. ShiftView(txs[w])' /\ OfferView(txs[w])'
  BY <1>1, <1>2 DEF ShiftView, OfferView, Busy, OpenOn
<1>5. \A v \in Procs : v # w => ShiftView(txs[v])' /\ OfferView(txs[v])'
  BY <1>1, <1>2 DEF BookInv, Views, ShiftView, OfferView, Busy, OpenOn
<1>6. Views'
  BY <1>2, <1>4, <1>5 DEF Views, BookInv
<1>7. QED
  BY <1>3, <1>6 DEF BookInv

\* One shift is written, by one who holds its new owner.
LEMMA ShiftWritten ==
  ASSUME BookInv, NEW w \in Procs, EndTx(w), NEW s \in Shifts, NEW entry,
         shift' = [shift EXCEPT ![s] = entry],
         shift[s] = NoEntry \/ \A v \in Procs \ {w} : s \notin txs[v].locks,
         \/ entry.status \notin OnDuty
         \/ entry.owner \in txs[w].locks /\ ~Busy(entry.owner, entry.slot, {s})
  PROVE  NoDoubleBooking' /\ \A v \in Procs : v # w => ShiftView(txs[v])'
<1>1. shift \in [Shifts -> ShiftRow \cup {NoEntry, Gone}] /\ txs \in [Procs -> Task]
  BY DEF BookInv, Typing, Rows, Holdings
<1>2. shift'[s] = entry /\ \A x \in Shifts : x # s => shift'[x] = shift[x]
  BY <1>1
<1>3. \A v \in Procs : v # w => txs'[v] = txs[v]
  BY <1>1 DEF EndTx
<1>4. NoDoubleBooking'
  BY <1>2 DEF BookInv, NoDoubleBooking, Busy
<1>5. ASSUME NEW v \in Procs, v # w PROVE ShiftView(txs[v])'
  <2>1. PICK t \in Task : t = txs[v] /\ t = txs'[v]
    BY <1>1, <1>3, <1>5
  <2>2. ShiftView(t) /\ t.locks \cap txs[w].locks = {}
    <3>1. ShiftView(txs[v])
      BY DEF BookInv, Views
    <3>2. txs[v].locks \cap txs[w].locks = {}
      BY <1>5 DEF BookInv, Typing, Holdings
    <3>3. QED
      BY <2>1, <3>1, <3>2
  <2>3. ASSUME NEW u, NEW k, NEW but, u \in t.locks, ~Busy(u, k, but) PROVE ~Busy(u, k, but)'
    BY <1>2, <2>2, <2>3 DEF Busy
  <2>4. CASE t.op = "create"
    BY <2>1, <2>2, <2>3, <2>4 DEF ShiftView
  <2>5. CASE t.op \in {"webReassign", "webAccept"}
    <3>1. t.shift \in Shifts /\ t.shift \in t.locks /\ t.who \in t.locks /\ Exists(shift[t.shift])
          /\ ~Busy(t.who, shift[t.shift].slot, {t.shift})
      BY <2>2, <2>5, TaskFields DEF ShiftView
    <3>2. t.shift # s
      <4>1. CASE shift[s] = NoEntry
        BY <3>1, <4>1 DEF Exists, NoEntry
      <4>2. CASE \A x \in Procs \ {w} : s \notin txs[x].locks
        BY <1>5, <2>1, <3>1, <4>2
      <4>3. QED
        BY <4>1, <4>2
    <3>3. shift'[t.shift] = shift[t.shift]
      BY <1>2, <3>1, <3>2
    <3>4. ~Busy(t.who, shift[t.shift].slot, {t.shift})'
      <4>1. PICK k : k = shift[t.shift].slot
        OBVIOUS
      <4>2. ~Busy(t.who, k, {t.shift})'
        BY <2>3, <3>1, <4>1
      <4>3. QED
        BY <3>3, <4>1, <4>2
    <3>5. QED
      BY <2>1, <2>5, <3>1, <3>3, <3>4 DEF ShiftView, Exists
  <2>6. QED
    BY <2>1, <2>4, <2>5 DEF ShiftView
<1>6. QED
  BY <1>4, <1>5

\* Offers are closed, or answered without being opened, by one who holds them.
LEMMA OffersWritten ==
  ASSUME BookInv, NEW w \in Procs, EndTx(w), offer' \in [Offers -> OfferRow \cup {NoEntry, Gone}],
         \A p \in Offers : offer'[p].status \in Open => offer[p].status \in Open /\ offer'[p].shift = offer[p].shift,
         \A p \in Offers : offer'[p] = offer[p] \/ offer[p] = NoEntry \/ \A v \in Procs \ {w} : p \notin txs[v].locks
  PROVE  OpenOnce' /\ \A v \in Procs : v # w => OfferView(txs[v])'
<1>1. offer \in [Offers -> OfferRow \cup {NoEntry, Gone}] /\ txs \in [Procs -> Task] /\ Rows
  BY DEF BookInv, Typing, Rows, Holdings
<1>2. \A v \in Procs : v # w => txs'[v] = txs[v]
  BY <1>1 DEF EndTx
<1>3. ASSUME NEW p \in Offers, NEW s, OpenOn(p, s)' PROVE OpenOn(p, s)
  BY <1>1, <1>3, RowsThere DEF OpenOn
<1>4. OpenOnce'
  BY <1>3 DEF BookInv, OpenOnce
<1>5. ASSUME NEW v \in Procs, v # w PROVE OfferView(txs[v])'
  <2>1. PICK t \in Task : t = txs[v] /\ t = txs'[v]
    BY <1>1, <1>2, <1>5
  <2>2. OfferView(t)
    BY <2>1 DEF BookInv, Views, OfferView, OpenOn
  <2>3. t.op \in {"webAssign", "botAssign"} => t.offer \in Offers
    BY TaskFields
  <2>4. t.op = "webOffer" => \A p \in Offers : ~OpenOn(p, t.shift)'
    BY <1>3, <2>2 DEF OfferView
  <2>5. ASSUME t.op \in {"webAssign", "botAssign"} PROVE offer'[t.offer].status \in Open
    <3>1. t.offer \in Offers /\ t.offer \in t.locks /\ offer[t.offer].status \in Open
      BY <2>2, <2>3, <2>5 DEF OfferView
    <3>2. offer[t.offer] # NoEntry
      BY <3>1 DEF NoEntry, Open
    <3>3. ~ \A x \in Procs \ {w} : t.offer \notin txs[x].locks
      BY <1>5, <2>1, <3>1
    <3>4. offer'[t.offer] = offer[t.offer]
      BY <3>1, <3>2, <3>3
    <3>5. QED
      BY <3>1, <3>4
  <2>6. QED
    BY <2>1, <2>2, <2>4, <2>5 DEF OfferView
<1>6. QED
  BY <1>4, <1>5

\* Nothing is written to the shifts, or to the offers.
LEMMA UntouchedShifts ==
  ASSUME BookInv, NEW w \in Procs, EndTx(w), UNCHANGED shift
  PROVE  NoDoubleBooking' /\ \A v \in Procs : v # w => ShiftView(txs[v])'
<1>1. txs \in [Procs -> Task]
  BY DEF BookInv, Typing, Holdings
<1>2. \A v \in Procs : v # w => txs'[v] = txs[v]
  BY <1>1 DEF EndTx
<1>3. QED
  BY <1>2 DEF BookInv, Views, NoDoubleBooking, ShiftView, Busy

\* And the same for the offers.
LEMMA UntouchedOffers ==
  ASSUME BookInv, NEW w \in Procs, EndTx(w), UNCHANGED offer
  PROVE  OpenOnce' /\ \A v \in Procs : v # w => OfferView(txs[v])'
<1>1. txs \in [Procs -> Task]
  BY DEF BookInv, Typing, Holdings
<1>2. \A v \in Procs : v # w => txs'[v] = txs[v]
  BY <1>1 DEF EndTx
<1>3. QED
  BY <1>2 DEF BookInv, Views, OpenOnce, OfferView, OpenOn

\* One offer is closed, or kept open for the same shift.
LEMMA OfferAnswered ==
  ASSUME BookInv, NEW w \in Procs, EndTx(w), NEW o \in Offers, NEW entry, offer' = [offer EXCEPT ![o] = entry],
         offer' \in [Offers -> OfferRow \cup {NoEntry, Gone}],
         entry.status \notin Open \/ (offer[o].status \in Open /\ entry.shift = offer[o].shift),
         offer[o] = NoEntry \/ \A v \in Procs \ {w} : o \notin txs[v].locks
  PROVE  OpenOnce' /\ \A v \in Procs : v # w => OfferView(txs[v])'
<1>1. offer'[o] = entry /\ \A p \in Offers : p # o => offer'[p] = offer[p]
  BY DEF BookInv, Typing, Rows
<1>2. \A p \in Offers : offer'[p].status \in Open => offer[p].status \in Open /\ offer'[p].shift = offer[p].shift
  BY <1>1
<1>3. \A p \in Offers : offer'[p] = offer[p] \/ offer[p] = NoEntry \/ \A v \in Procs \ {w} : p \notin txs[v].locks
  BY <1>1
<1>4. QED
  BY <1>2, <1>3, OffersWritten

\* A new offer, of a shift that was on offer to nobody and that the writer holds.
LEMMA OfferMade ==
  ASSUME BookInv, NEW w \in Procs, EndTx(w), NEW o \in Offers, NEW entry, offer[o] = NoEntry, offer' = [offer EXCEPT ![o] = entry],
         entry.shift \in txs[w].locks, \A p \in Offers : ~OpenOn(p, entry.shift)
  PROVE  OpenOnce' /\ \A v \in Procs : v # w => OfferView(txs[v])'
<1>1. txs \in [Procs -> Task] /\ offer \in [Offers -> OfferRow \cup {NoEntry, Gone}]
  BY DEF BookInv, Typing, Rows, Holdings
<1>2. \A v \in Procs : v # w => txs'[v] = txs[v]
  BY <1>1 DEF EndTx
<1>3. offer'[o] = entry /\ \A p \in Offers : p # o => offer'[p] = offer[p]
  BY <1>1
<1>4. \A p \in Offers : \A s : OpenOn(p, s)' => OpenOn(p, s) \/ (p = o /\ s = entry.shift)
  BY <1>3 DEF OpenOn
<1>5. OpenOnce'
  BY <1>4 DEF BookInv, OpenOnce
<1>6. ASSUME NEW v \in Procs, v # w PROVE OfferView(txs[v])'
  <2>1. PICK t \in Task : t = txs[v] /\ t = txs'[v]
    BY <1>1, <1>2, <1>6
  <2>2. OfferView(t) /\ t.locks \cap txs[w].locks = {}
    <3>1. OfferView(txs[v]) /\ txs[v].locks \cap txs[w].locks = {}
      BY <1>6 DEF BookInv, Views, Typing, Holdings
    <3>2. QED
      BY <2>1, <3>1
  <2>3. t.op = "webOffer" => \A p \in Offers : ~OpenOn(p, t.shift)'
    BY <1>4, <2>2 DEF OfferView
  <2>4. ASSUME t.op \in {"webAssign", "botAssign"} PROVE offer'[t.offer].status \in Open
    <3>1. t.offer \in Offers /\ offer[t.offer].status \in Open
      BY <2>2, <2>4, TaskFields DEF OfferView
    <3>2. t.offer # o
      BY <3>1 DEF NoEntry, Open
    <3>3. QED
      BY <1>3, <3>1, <3>2
  <2>5. QED
    BY <2>1, <2>2, <2>3, <2>4 DEF OfferView
<1>7. QED
  BY <1>5, <1>6

\* The end of a transaction whose writes keep what others have read.
LEMMA EndBooked ==
  ASSUME BookInv, Typing', NEW w \in Procs, EndTx(w), NoDoubleBooking', OpenOnce',
         \A v \in Procs : v # w => ShiftView(txs[v])', \A v \in Procs : v # w => OfferView(txs[v])'
  PROVE  BookInv'
<1>1. txs \in [Procs -> Task]
  BY DEF BookInv, Typing, Holdings
<1>2. txs'[w] = NoTx /\ \A v \in Procs : v # w => txs'[v] = txs[v]
  BY <1>1 DEF EndTx
<1>3. ShiftView(txs[w])' /\ OfferView(txs[w])'
  BY <1>2 DEF ShiftView, OfferView, NoTx
<1>4. Views'
  BY <1>2, <1>3 DEF Views, BookInv, NoTx
<1>5. QED
  BY <1>4 DEF BookInv

-----------------------------------------------------------------------------
\* The decisions: to create a shift, under the lock of its executor ...
LEMMA CreateBegun ==
  ASSUME ShiftAssumption, ShiftOps \subseteq Locking, BookInv, NEW w \in Threads, NEW u \in Executors, NEW slot \in Slots,
         NEW status \in OnDuty, BeginCreate(w, u, slot, status), Typing'
  PROVE  BookInv'
<1> DEFINE t == [op |-> "create", who |-> u, slot |-> slot, status |-> status, locks |-> CreateLocks(u)]
<1>1. w \in Procs /\ CreateLocks(u) \in SUBSET Things
  BY DEF Procs, Things, CreateLocks
<1>2. t \in Task
  BY <1>1 DEF Task
<1>3. Begin(w, t) /\ t.op \in Locking
  BY DEF BeginCreate, Begin
<1>4. ShiftView(t) /\ OfferView(t)
  BY DEF ShiftView, OfferView, BeginCreate, CreateLocks
<1> HIDE DEF t
<1>5. QED
  BY <1>1, <1>2, <1>3, <1>4, BeginBooked

\* ... about a shift ...
LEMMA OnShiftBegun ==
  ASSUME ShiftAssumption, ShiftOps \subseteq Locking, BookInv, NEW w \in Threads, NEW s \in Shifts, OnShift(w, s), Typing'
  PROVE  BookInv'
<1>1. w \in Procs /\ {} \in SUBSET Things /\ {s} \in SUBSET Things /\ Rows
  BY DEF Procs, Things, BookInv, Typing
<1>2. ASSUME NEW status \in ShiftStatus, BeginPatch(w, s, status) PROVE BookInv'
  <2> DEFINE t == [op |-> "patch", shift |-> s, status |-> status, locks |-> {}]
  <2>1. t \in Task
    BY <1>1, <1>2 DEF Task, BeginPatch, Patches, OnDuty
  <2>2. Begin(w, t) /\ t.op \in Locking
    BY <1>2 DEF BeginPatch, Locking
  <2>3. ShiftView(t) /\ OfferView(t)
    BY DEF ShiftView, OfferView
  <2> HIDE DEF t
  <2>4. QED
    BY <1>1, <2>1, <2>2, <2>3, BeginBooked
<1>3. CASE BeginActivate(w, s)
  BY <1>3 DEF BeginActivate, Begin, Locking
<1>4. CASE BeginEnd(w, s)
  <2> DEFINE t == [op |-> "end", shift |-> s, status |-> "completed", locks |-> {}]
  <2>1. t \in Task
    BY <1>1 DEF Task, ShiftStatus, OnDuty
  <2>2. Begin(w, t) /\ t.op \in Locking
    BY <1>4 DEF BeginEnd, Locking
  <2>3. ShiftView(t) /\ OfferView(t)
    BY DEF ShiftView, OfferView
  <2> HIDE DEF t
  <2>4. QED
    BY <1>1, <2>1, <2>2, <2>3, BeginBooked
<1>5. ASSUME NEW slot \in Slots, BeginMove(w, s, slot) PROVE BookInv'
  BY <1>5 DEF BeginMove, Begin, Locking
<1>6. CASE BeginDelete(w, s)
  <2> DEFINE t == [op |-> "delete", shift |-> s, locks |-> {}]
  <2>1. t \in Task
    BY <1>1 DEF Task
  <2>2. Begin(w, t) /\ t.op \in Locking
    BY <1>6 DEF BeginDelete, Locking
  <2>3. ShiftView(t) /\ OfferView(t)
    BY DEF ShiftView, OfferView
  <2> HIDE DEF t
  <2>4. QED
    BY <1>1, <2>1, <2>2, <2>3, BeginBooked
<1>7. ASSUME NEW op \in {"webOffer", "botOffer"}, BeginOffer(w, s, op) PROVE BookInv'
  <2>1. CASE op = "botOffer"
    BY <1>7, <2>1 DEF BeginOffer, Begin, Locking
  <2>2. CASE op = "webOffer"
    <3> DEFINE t == [op |-> "webOffer", shift |-> s, who |-> shift[s].owner, locks |-> {s}]
    <3>1. shift[s].owner \in Executors
      BY <1>1, <1>7, RowsThere DEF BeginOffer, ShiftRow
    <3>2. t \in Task
      BY <1>1, <3>1 DEF Task
    <3>3. Begin(w, t) /\ t.op \in Locking
      BY <1>7, <2>2 DEF BeginOffer, WebOfferLocks, Locking
    <3>4. ShiftView(t) /\ OfferView(t)
      BY <1>7 DEF ShiftView, OfferView, BeginOffer, OffersOf, OpenOn
    <3> HIDE DEF t
    <3>5. QED
      BY <1>1, <3>2, <3>3, <3>4, BeginBooked
  <2>3. QED
    BY <2>1, <2>2
<1>8. ASSUME NEW u \in Executors, NEW op \in {"webReassign", "botReassign"}, BeginReassign(w, s, u, op) PROVE BookInv'
  <2>1. CASE op = "botReassign"
    BY <1>8, <2>1 DEF BeginReassign, Begin, Locking
  <2>2. CASE op = "webReassign"
    <3> DEFINE t == [op |-> "webReassign", shift |-> s, from |-> shift[s].owner, who |-> u, locks |-> {s, u}]
    <3>1. shift[s] \in ShiftRow /\ shift[s].owner \in Executors /\ {s, u} \in SUBSET Things
      BY <1>1, <1>8, RowsThere DEF BeginReassign, Acceptable, ShiftRow, Things
    <3>2. t \in Task
      BY <3>1 DEF Task
    <3>3. Begin(w, t) /\ t.op \in Locking
      BY <1>8, <2>2 DEF BeginReassign, MoveLocks, Locking
    <3>4. ~Busy(u, shift[s].slot, {s}) /\ Exists(shift[s])
      BY <1>1, <1>8, <3>1, RowsThere DEF BeginReassign, Acceptable
    <3>5. ShiftView(t) /\ OfferView(t)
      BY <3>4 DEF ShiftView, OfferView
    <3> HIDE DEF t
    <3>6. QED
      BY <1>1, <3>2, <3>3, <3>5, BeginBooked
  <2>3. QED
    BY <2>1, <2>2
<1>9. QED
  BY <1>2, <1>3, <1>4, <1>5, <1>6, <1>7, <1>8 DEF OnShift

\* ... and about an offer, which is held.
LEMMA OnOfferBegun ==
  ASSUME ShiftAssumption, ShiftOps \subseteq Locking, BookInv, NEW w \in Threads, NEW o \in Offers, OnOffer(w, o), Typing'
  PROVE  BookInv'
<1>1. w \in Procs /\ {o} \in SUBSET Things /\ Rows
  BY DEF Procs, Things, BookInv, Typing
<1>2. ASSUME NEW u \in Executors, NEW op \in {"webAssign", "botAssign"}, BeginAssign(w, o, u, op) PROVE BookInv'
  <2> DEFINE t == [op |-> op, offer |-> o, who |-> u, locks |-> {o}]
  <2>1. t \in Task
    BY <1>1 DEF Task
  <2>2. Begin(w, t) /\ t.op \in Locking
    BY <1>2 DEF BeginAssign, AnswerLocks, Locking
  <2>3. ShiftView(t) /\ OfferView(t)
    BY <1>2 DEF ShiftView, OfferView, BeginAssign, Open
  <2> HIDE DEF t
  <2>4. QED
    BY <1>1, <2>1, <2>2, <2>3, BeginBooked
<1>3. ASSUME NEW status \in OfferStatus, BeginRefuse(w, o, status) PROVE BookInv'
  <2> DEFINE t == [op |-> "refuse", offer |-> o, status |-> status, locks |-> {o}]
  <2>1. t \in Task
    BY <1>1, <1>3 DEF Task, BeginRefuse, Open
  <2>2. Begin(w, t) /\ t.op \in Locking
    BY <1>3 DEF BeginRefuse, AnswerLocks, Locking
  <2>3. ShiftView(t) /\ OfferView(t)
    BY DEF ShiftView, OfferView
  <2> HIDE DEF t
  <2>4. QED
    BY <1>1, <2>1, <2>2, <2>3, BeginBooked
<1>4. ASSUME NEW op \in {"webAccept", "botAccept"}, BeginAccept(w, o, op) PROVE BookInv'
  <2>1. CASE op = "botAccept"
    BY <1>4, <2>1 DEF BeginAccept, Begin, Locking
  <2>2. CASE op = "webAccept"
    <3>1. PICK s \in Shifts, u \in Executors : s = offer[o].shift /\ u = offer[o].to
      BY <1>1, <1>4, RowsThere DEF BeginAccept, OfferRow, Rows, Open
    <3> DEFINE t == [op |-> "webAccept", offer |-> o, shift |-> s, who |-> u, locks |-> {o} \cup {s, u}]
    <3>2. t \in Task
      BY <1>1 DEF Task, Things
    <3>3. Begin(w, t) /\ t.op \in Locking
      BY <1>4, <2>2, <3>1 DEF BeginAccept, AnswerLocks, MoveLocks, Locking
    <3>4. shift[s].status \in OnDuty /\ ~Busy(u, shift[s].slot, {s})
      BY <1>4, <3>1 DEF BeginAccept, Acceptable
    <3>5. Exists(shift[s])
      BY <1>1, <3>4, RowsThere
    <3>6. ShiftView(t) /\ OfferView(t)
      BY <3>4, <3>5 DEF ShiftView, OfferView
    <3> HIDE DEF t
    <3>7. QED
      BY <1>1, <3>2, <3>3, <3>6, BeginBooked
  <2>3. QED
    BY <2>1, <2>2
<1>5. QED
  BY <1>2, <1>3, <1>4 DEF OnOffer

\* The expiry job closes offers it holds.
LEMMA SchedulerBooked ==
  ASSUME ShiftAssumption, ShiftOps \subseteq Locking, BookInv, SchedulerStep, Typing'
  PROVE  BookInv'
<1>1. Scheduler \in Procs /\ txs \in [Procs -> Task] /\ Rows
  BY DEF Procs, BookInv, Typing, Holdings
<1>2. ASSUME NEW os \in SUBSET Offers, Scan(os) PROVE BookInv'
  <2> DEFINE t == [op |-> "expire", todo |-> os, locks |-> {}]
  <2>1. t \in Task
    BY DEF Task
  <2>2. Begin(Scheduler, t) /\ t.op \in Locking
    BY <1>2 DEF Scan, Locking
  <2>3. ShiftView(t) /\ OfferView(t)
    BY DEF ShiftView, OfferView
  <2> HIDE DEF t
  <2>4. QED
    BY <1>1, <2>1, <2>2, <2>3, BeginBooked
<1>3. ASSUME NEW o \in Offers, Stamp(o) PROVE BookInv'
  <2>1. /\ txs[Scheduler].op = "expire" /\ shift' = shift /\ offer' = offer
        /\ txs' = [txs EXCEPT ![Scheduler].locks = @ \cup {o}]
    BY <1>3 DEF Stamp
  <2>2. \A v \in Procs : v # Scheduler => txs'[v] = txs[v]
    BY <1>1, <2>1
  <2>3. txs'[Scheduler].op = "expire"
    <3>1. PICK t \in Task : t = txs[Scheduler]
      BY <1>1
    <3>2. t \in [op : {"expire"}, todo : SUBSET Offers, locks : SUBSET Things]
      BY <2>1, <3>1 DEF Task, NoTx
    <3>3. txs'[Scheduler] = [t EXCEPT !.locks = t.locks \cup {o}]
      BY <1>1, <2>1, <3>1
    <3>4. QED
      BY <3>2, <3>3
  <2>4. NoDoubleBooking' /\ OpenOnce'
    BY <2>1 DEF BookInv, NoDoubleBooking, Busy, OpenOnce, OpenOn
  <2>5. \A v \in Procs : v # Scheduler => ShiftView(txs[v])' /\ OfferView(txs[v])'
    BY <2>1, <2>2 DEF BookInv, Views, ShiftView, OfferView, Busy, OpenOn
  <2>6. ShiftView(txs[Scheduler])' /\ OfferView(txs[Scheduler])'
    BY <2>3 DEF ShiftView, OfferView
  <2>7. Views'
    BY <2>2, <2>3, <2>5, <2>6 DEF Views, BookInv, Locking
  <2>8. QED
    BY <2>4, <2>7 DEF BookInv
<1>4. CASE Expire
  <2>1. PICK t \in Task : t = txs[Scheduler]
    BY <1>1
  <2>2. /\ EndTx(Scheduler) /\ shift' = shift /\ t.locks = t.todo
        /\ offer' = [o \in Offers |-> IF o \in t.todo THEN [offer[o] EXCEPT !.status = "expired"] ELSE offer[o]]
        /\ \A o \in t.todo : Exists(offer[o])
    BY <1>4, <2>1 DEF Expire, BookInv, Typing, Holdings
  <2>3. offer' \in [Offers -> OfferRow \cup {NoEntry, Gone}]
    BY DEF Typing, Rows
  <2>4. \A o \in Offers : o \in t.todo => [offer[o] EXCEPT !.status = "expired"].status = "expired"
    BY <1>1, <2>2, RowsThere DEF OfferRow
  <2>5. \A p \in Offers : offer'[p].status \in Open => offer[p].status \in Open /\ offer'[p].shift = offer[p].shift
    BY <2>2, <2>4 DEF Open
  <2>6. \A p \in Offers : offer'[p] = offer[p] \/ \A v \in Procs \ {Scheduler} : p \notin txs[v].locks
    <3>1. \A v \in Procs \ {Scheduler} : txs[v].locks \cap t.locks = {}
      BY <1>1, <2>1 DEF BookInv, Typing, Holdings
    <3>2. QED
      BY <2>2, <3>1
  <2>7. OpenOnce' /\ \A v \in Procs : v # Scheduler => OfferView(txs[v])'
    BY <1>1, <2>2, <2>3, <2>5, <2>6, OffersWritten
  <2>8. NoDoubleBooking' /\ \A v \in Procs : v # Scheduler => ShiftView(txs[v])'
    BY <1>1, <2>2, UntouchedShifts
  <2>9. QED
    BY <1>1, <2>2, <2>7, <2>8, EndBooked
<1>5. CASE AbortScan
  BY <1>1, <1>5, UntouchedShifts, UntouchedOffers, EndBooked DEF AbortScan
<1>6. QED
  BY <1>2, <1>3, <1>4, <1>5 DEF SchedulerStep

\* The writes, one action at a time: each keeps what the other transactions have read.
LEMMA FinishBooked ==
  ASSUME ShiftAssumption, ShiftOps \subseteq Locking, BookInv, NEW w \in Threads, Finish(w), Typing'
  PROVE  BookInv'
<1>1. w \in Procs /\ w # Scheduler /\ txs \in [Procs -> Task] /\ Rows
  BY DEF ShiftAssumption, Procs, BookInv, Typing, Holdings
<1>2. PICK t \in Task : t = txs[w]
  BY <1>1
<1>3. ShiftView(t) /\ OfferView(t) /\ t.op \in Locking \cup {"idle"}
  BY <1>1, <1>2 DEF BookInv, Views
<1>4. shift \in [Shifts -> ShiftRow \cup {NoEntry, Gone}] /\ offer \in [Offers -> OfferRow \cup {NoEntry, Gone}]
      /\ offer' \in [Offers -> OfferRow \cup {NoEntry, Gone}] /\ DOMAIN txs = Procs
  BY <1>1 DEF Rows, Typing
<1>5. CASE SetShiftStatus(w)
  <2> DEFINE entry == [shift[t.shift] EXCEPT !.status = t.status]
  <2>1. t.op \in {"patch", "end"} /\ t.shift \in Shifts /\ t.status \notin OnDuty
    BY <1>2, <1>3, <1>5, TaskFields DEF SetShiftStatus, Doing, Locking
  <2>2. /\ Exists(shift[t.shift]) /\ shift' = [shift EXCEPT ![t.shift] = entry]
        /\ EndTx(w) /\ UNCHANGED offer /\ \A v \in Procs \ {w} : t.shift \notin txs[v].locks
    BY <1>2, <1>4, <1>5 DEF SetShiftStatus, Doing, Free
  <2>3. entry.status \notin OnDuty
    BY <1>1, <2>1, <2>2, RowsThere DEF ShiftRow
  <2> HIDE DEF entry
  <2>4. NoDoubleBooking' /\ \A v \in Procs : v # w => ShiftView(txs[v])'
    BY <1>1, <2>1, <2>2, <2>3, ShiftWritten
  <2>5. QED
    BY <1>1, <2>2, <2>4, UntouchedOffers, EndBooked
<1>6. CASE Move(w)
  BY <1>2, <1>3, <1>6 DEF Move, Doing, Locking
<1>7. CASE Delete(w)
  <2>1. t.op = "delete" /\ t.shift \in Shifts
    BY <1>2, <1>7, TaskFields DEF Delete, Doing
  <2>2. /\ shift' = [shift EXCEPT ![t.shift] = Gone] /\ EndTx(w)
        /\ offer' = [o \in Offers |-> IF o \in OffersOf(t.shift) THEN Gone ELSE offer[o]]
        /\ \A v \in Procs \ {w} : txs[v].locks \cap ({t.shift} \cup OffersOf(t.shift)) = {}
    BY <1>2, <1>4, <1>7 DEF Delete, Doing, Free
  <2>3. Gone.status \notin OnDuty /\ Gone.status \notin Open
    BY DEF Gone, OnDuty, Open
  <2>4. NoDoubleBooking' /\ \A v \in Procs : v # w => ShiftView(txs[v])'
    <3>1. \A v \in Procs \ {w} : t.shift \notin txs[v].locks
      BY <2>2
    <3>2. QED
      BY <1>1, <2>1, <2>2, <2>3, <3>1, ShiftWritten
  <2>5. OpenOnce' /\ \A v \in Procs : v # w => OfferView(txs[v])'
    <3>1. \A p \in Offers : offer'[p].status \in Open => offer[p].status \in Open /\ offer'[p].shift = offer[p].shift
      BY <2>2, <2>3
    <3>2. \A p \in Offers : offer'[p] = offer[p] \/ \A v \in Procs \ {w} : p \notin txs[v].locks
      BY <2>2
    <3>3. QED
      BY <1>1, <1>4, <2>2, <3>1, <3>2, OffersWritten
  <2>6. QED
    BY <1>1, <2>2, <2>4, <2>5, EndBooked
<1>8. ASSUME NEW s \in Shifts, Create(w, s) PROVE BookInv'
  <2> DEFINE entry == [owner |-> t.who, status |-> t.status, slot |-> t.slot]
  <2>1. t.op = "create" /\ t.who \in t.locks /\ ~Busy(t.who, t.slot, {})
    BY <1>2, <1>3, <1>8 DEF Create, Doing, ShiftView
  <2>2. /\ shift[s] = NoEntry /\ shift' = [shift EXCEPT ![s] = entry] /\ EndTx(w) /\ UNCHANGED offer
    BY <1>2, <1>8 DEF Create
  <2>3. entry.owner \in txs[w].locks /\ ~Busy(entry.owner, entry.slot, {s})
    BY <1>2, <2>1 DEF Busy
  <2> HIDE DEF entry
  <2>4. NoDoubleBooking' /\ \A v \in Procs : v # w => ShiftView(txs[v])'
    BY <1>1, <2>2, <2>3, ShiftWritten
  <2>5. QED
    BY <1>1, <2>2, <2>4, UntouchedOffers, EndBooked
<1>9. ASSUME NEW o \in Offers, Offer(w, o) PROVE BookInv'
  <2> DEFINE entry == Row(t.shift, t.who, Nobody, "pending")
  <2>1. t.op = "webOffer" /\ t.shift \in t.locks /\ \A p \in Offers : ~OpenOn(p, t.shift)
    BY <1>2, <1>3, <1>9 DEF Offer, Doing, OfferView, Locking
  <2>2. offer[o] = NoEntry /\ offer' = [offer EXCEPT ![o] = entry] /\ EndTx(w) /\ UNCHANGED shift
    BY <1>2, <1>9 DEF Offer, Insert
  <2>3. entry.shift = t.shift
    BY DEF Row
  <2> HIDE DEF entry
  <2>4. OpenOnce' /\ \A v \in Procs : v # w => OfferView(txs[v])'
    BY <1>1, <1>2, <2>1, <2>2, <2>3, OfferMade
  <2>5. QED
    BY <1>1, <2>2, <2>4, UntouchedShifts, EndBooked
<1>10. CASE Assign(w)
  <2> DEFINE entry == [offer[t.offer] EXCEPT !.status = "assigned", !.to = t.who]
  <2>1. t.op \in {"webAssign", "botAssign"} /\ t.offer \in Offers /\ offer[t.offer].status \in Open
    BY <1>2, <1>3, <1>10, TaskFields DEF Assign, Doing, OfferView
  <2>2. /\ offer' = [offer EXCEPT ![t.offer] = entry] /\ EndTx(w) /\ UNCHANGED shift
        /\ \A v \in Procs \ {w} : t.offer \notin txs[v].locks
    BY <1>2, <1>4, <1>10 DEF Assign, Doing, Free
  <2>3. entry.shift = offer[t.offer].shift
    BY <1>1, <2>1, RowsThere DEF OfferRow
  <2> HIDE DEF entry
  <2>4. OpenOnce' /\ \A v \in Procs : v # w => OfferView(txs[v])'
    BY <1>1, <1>4, <2>1, <2>2, <2>3, OfferAnswered
  <2>5. QED
    BY <1>1, <2>2, <2>4, UntouchedShifts, EndBooked
<1>11. CASE Refuse(w)
  <2> DEFINE entry == [offer[t.offer] EXCEPT !.status = t.status]
  <2>1. t.op = "refuse" /\ t.offer \in Offers /\ t.status \notin Open
    BY <1>2, <1>11, TaskFields DEF Refuse, Doing
  <2>2. /\ Exists(offer[t.offer]) /\ offer' = [offer EXCEPT ![t.offer] = entry] /\ EndTx(w) /\ UNCHANGED shift
        /\ \A v \in Procs \ {w} : t.offer \notin txs[v].locks
    BY <1>2, <1>4, <1>11 DEF Refuse, Doing, Free
  <2>3. entry.status \notin Open
    BY <1>1, <2>1, <2>2, RowsThere DEF OfferRow
  <2> HIDE DEF entry
  <2>4. OpenOnce' /\ \A v \in Procs : v # w => OfferView(txs[v])'
    BY <1>1, <1>4, <2>1, <2>2, <2>3, OfferAnswered
  <2>5. QED
    BY <1>1, <2>2, <2>4, UntouchedShifts, EndBooked
<1>12. ASSUME NEW o \in Offers, Reassign(w, o) PROVE BookInv'
  <2> DEFINE mine == [shift[t.shift] EXCEPT !.owner = t.who]
             entry == Row(t.shift, t.from, t.who, "completed")
  <2>1. t.op = "webReassign" /\ t.shift \in Shifts
    BY <1>2, <1>3, <1>12, TaskFields DEF Reassign, Doing, Locking
  <2>2. /\ t.who \in t.locks /\ Exists(shift[t.shift]) /\ ~Busy(t.who, shift[t.shift].slot, {t.shift})
    BY <1>3, <2>1 DEF ShiftView
  <2>3. /\ shift' = [shift EXCEPT ![t.shift] = mine] /\ EndTx(w)
        /\ offer[o] = NoEntry /\ offer' = [offer EXCEPT ![o] = entry]
        /\ \A v \in Procs \ {w} : t.shift \notin txs[v].locks
    BY <1>2, <1>4, <1>12 DEF Reassign, Insert, Doing, Free
  <2>4. mine.owner = t.who /\ mine.slot = shift[t.shift].slot
    BY <1>1, <2>1, <2>2, RowsThere DEF ShiftRow
  <2>5. entry.status \notin Open
    BY DEF Row, Open
  <2> HIDE DEF mine, entry
  <2>6. mine.owner \in txs[w].locks /\ ~Busy(mine.owner, mine.slot, {t.shift})
    BY <1>2, <2>2, <2>4
  <2>7. NoDoubleBooking' /\ \A v \in Procs : v # w => ShiftView(txs[v])'
    BY <1>1, <2>1, <2>3, <2>6, ShiftWritten
  <2>8. OpenOnce' /\ \A v \in Procs : v # w => OfferView(txs[v])'
    BY <1>1, <1>4, <2>3, <2>5, OfferAnswered
  <2>9. QED
    BY <1>1, <2>3, <2>7, <2>8, EndBooked
<1>13. CASE Accept(w)
  <2> DEFINE mine == [shift[t.shift] EXCEPT !.owner = t.who]
             entry == [offer[t.offer] EXCEPT !.status = "completed"]
  <2>1. t.op = "webAccept" /\ t.shift \in Shifts /\ t.offer \in Offers
    BY <1>2, <1>3, <1>13, TaskFields DEF Accept, Doing, Locking
  <2>2. /\ t.who \in t.locks /\ Exists(shift[t.shift]) /\ ~Busy(t.who, shift[t.shift].slot, {t.shift})
    BY <1>3, <2>1 DEF ShiftView
  <2>3. /\ shift' = [shift EXCEPT ![t.shift] = mine] /\ EndTx(w)
        /\ Exists(offer[t.offer]) /\ offer' = [offer EXCEPT ![t.offer] = entry]
        /\ \A v \in Procs \ {w} : t.shift \notin txs[v].locks /\ t.offer \notin txs[v].locks
    BY <1>2, <1>4, <1>13 DEF Accept, Doing, Free
  <2>4. mine.owner = t.who /\ mine.slot = shift[t.shift].slot
    BY <1>1, <2>1, <2>2, RowsThere DEF ShiftRow
  <2>5. entry.status \notin Open
    BY <1>1, <2>1, <2>3, RowsThere DEF OfferRow, Open
  <2> HIDE DEF mine, entry
  <2>6. mine.owner \in txs[w].locks /\ ~Busy(mine.owner, mine.slot, {t.shift})
    BY <1>2, <2>2, <2>4
  <2>7. NoDoubleBooking' /\ \A v \in Procs : v # w => ShiftView(txs[v])'
    BY <1>1, <2>1, <2>3, <2>6, ShiftWritten
  <2>8. OpenOnce' /\ \A v \in Procs : v # w => OfferView(txs[v])'
    BY <1>1, <1>4, <2>1, <2>3, <2>5, OfferAnswered
  <2>9. QED
    BY <1>1, <2>3, <2>7, <2>8, EndBooked
<1>14. CASE AbortTx(w)
  BY <1>1, <1>14, UntouchedShifts, UntouchedOffers, EndBooked DEF AbortTx
<1>15. QED
  BY <1>5, <1>6, <1>7, <1>8, <1>9, <1>10, <1>11, <1>12, <1>13, <1>14 DEF Finish

\* A set whose elements are all one has at most one.
LEMMA AtMostOne ==
  ASSUME NEW A, \A a, b \in A : a = b
  PROVE  Cardinality(A) <= 1
<1>1. CASE A = {}
  BY <1>1, FS_EmptySet
<1>2. CASE A # {}
  <2>1. PICK a \in A : TRUE
    BY <1>2
  <2>2. A = {a}
    BY <2>1
  <2>3. Cardinality({a}) = 1
    BY FS_Singleton
  <2>4. QED
    BY <2>2, <2>3
<1>3. QED
  BY <1>1, <1>2

\* shifts/callbacks.py, transfer_callbacks.py: as long as nobody uses an operation that checks
\* without a lock (the activation and the move of a shift, and the bot's offers, reassignments
\* and acceptances), no executor has two shifts at one time and no shift is on offer twice.
THEOREM LockingBooksOnce ==
  ShiftAssumption /\ ShiftOps \subseteq Locking => (ShiftSpec => []BookedOnce)
<1> SUFFICES ASSUME ShiftAssumption, ShiftOps \subseteq Locking PROVE ShiftSpec => []BookedOnce
  OBVIOUS
<1>1. ShiftInit => BookInv
  <2> SUFFICES ASSUME ShiftInit PROVE BookInv
    OBVIOUS
  <2>1. /\ \A s \in Shifts : ~Exists(shift[s])
        /\ \A o \in Offers : ~Exists(offer[o])
        /\ \A v \in Procs : txs[v] = NoTx
    BY DEF ShiftInit, NoEntry, Exists, Procs
  <2>2. NoDoubleBooking /\ OpenOnce
    BY <2>1 DEF NoDoubleBooking, OpenOnce, OpenOn
  <2>3. Views
    BY <2>1 DEF Views, ShiftView, OfferView, NoTx
  <2>4. QED
    BY <2>2, <2>3, ShiftsInitTyped DEF BookInv
<1>2. BookInv /\ [ShiftNext]_shiftVars => BookInv'
  <2> SUFFICES ASSUME BookInv, [ShiftNext]_shiftVars PROVE BookInv'
    OBVIOUS
  <2>1. Typing'
    BY ShiftsStepTyped DEF BookInv
  <2>2. CASE UNCHANGED shiftVars
    BY <2>1, <2>2 DEF shiftVars, BookInv, Views, ShiftView, OfferView, NoDoubleBooking, Busy, OpenOnce, OpenOn
  <2>3. CASE ShiftNext
    BY <2>1, <2>3, CreateBegun, OnShiftBegun, OnOfferBegun, FinishBooked, SchedulerBooked DEF ShiftNext
  <2>4. QED
    BY <2>2, <2>3
<1>3. BookInv => BookedOnce
  <2> SUFFICES ASSUME BookInv PROVE OneOpenOffer
    BY DEF BookInv, BookedOnce
  <2>1. ASSUME NEW s \in Shifts PROVE Cardinality({o \in OffersOf(s) : offer[o].status \in Open}) <= 1
    <3> DEFINE A == {o \in OffersOf(s) : offer[o].status \in Open}
    <3>1. \A p, q \in A : p = q
      BY DEF BookInv, OpenOnce, OpenOn, OffersOf
    <3> HIDE DEF A
    <3>2. Cardinality(A) <= 1
      BY <3>1, AtMostOne
    <3>3. QED
      BY <3>2 DEF A
  <2>2. QED
    BY <2>1 DEF OneOpenOffer
<1>4. QED
  BY <1>1, <1>2, <1>3, PTL DEF ShiftSpec

-----------------------------------------------------------------------------
\* The scenarios the runs play are behaviours of every component.
LEMMA ScenarioInits == ASSUME PeopleInit PROVE AccountsInit /\ Init /\ ShiftInit
BY DEF PeopleInit

LEMMA ScenarioSteps ==
  ASSUME [PeopleNext]_<<part, vars, accountVars, shiftVars>>
  PROVE  [AccountsNext]_accountVars /\ [Next]_vars /\ [ShiftNext]_shiftVars
<1>1. CASE Persons
  BY <1>1, Zenon DEF Persons
<1>2. CASE Homes
  BY <1>2, Zenon DEF Homes
<1>3. CASE Shiftwork
  BY <1>3, Zenon DEF Shiftwork
<1>4. CASE UNCHANGED <<part, vars, accountVars, shiftVars>>
  BY <1>4, Zenon
<1>5. QED
  BY <1>1, <1>2, <1>3, <1>4 DEF PeopleNext

\* Accounts, apartments and shifts share no state: what is proved of each holds of the
\* scenarios too.
THEOREM ScenariosArePeople == PeopleSpec => AccountsSpec /\ Spec /\ ShiftSpec
BY ScenarioInits, ScenarioSteps, PTL DEF PeopleSpec, AccountsSpec, Spec, ShiftSpec

\* The type invariant of the scenarios, whatever they play.
THEOREM PeopleTypeCorrect == PeopleSpec => []PeopleTypeOK
<1>1. (AccountsSpec => []AccountsTypeOK) /\ (Spec => []TypeOK) /\ (ShiftSpec => []ShiftTypeOK)
  BY ScenarioAssumption, AccountsTypeCorrect, ApartmentsTypeCorrect, ShiftsTypeCorrect
<1>2. AccountsTypeOK /\ TypeOK /\ ShiftTypeOK => PeopleTypeOK
  BY DEF PeopleTypeOK
<1>3. QED
  BY <1>1, <1>2, ScenariosArePeople, PTL

=============================================================================
