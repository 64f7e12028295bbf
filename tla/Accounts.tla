------------------------------ MODULE Accounts ------------------------------
(***************************************************************************)
(* The accounts: status, roles, active role and verification of each user, *)
(* and the invitations that give a role.  Most operations read the row of  *)
(* the user without a lock, decide on that copy, and on commit write the   *)
(* columns they changed; the bot's edit of the roles of an employee and    *)
(* the operations on residents lock the row first.  An invitation is used  *)
(* up by inserting its nonce, which is unique, in the transaction that     *)
(* gives the role; that of a newcomer is committed with the account, one   *)
(* transaction earlier.                                                    *)
(***************************************************************************)
EXTENDS Naturals, FiniteSets

CONSTANTS
    Users, Present,     \* everyone; those with an account at the start
    Invites, RoleOf,    \* invitations and the role each gives
    Sessions,
    AccountOps          \* the operations in use

Roles == {"applicant", "executor", "manager", "meter"}
Staff == {"executor", "manager"}
Trusted == {"manager"}
Capabilities == {"meter"}

AccountsAssumption ==
    /\ Present \subseteq Users
    /\ RoleOf \in [Invites -> Roles \ Capabilities]
    /\ "free" \notin Sessions /\ "used" \notin Sessions

VARIABLES
    account,    \* users
    nonce,      \* invite_nonces: free, used, or the session that inserts it
    granted,    \* history: who got a role from which invitation
    broken,     \* history: invitations whose newcomer got an account and then no role
    session     \* the transaction, or the open form, of each session

accountVars == <<account, nonce, granted, broken, session>>

Accounts == [status : {"absent", "pending", "approved", "blocked", "deleted"},
             roles : SUBSET Roles, active : Roles,
             verified : {"pending", "verified", "rejected"}]
Newcomer == [status |-> "pending", roles |-> {"applicant"}, active |-> "applicant",
             verified |-> "pending"]
NoAccount == [Newcomer EXCEPT !.status = "absent"]
NoTask == [op |-> "idle"]

AccountsInit ==
    /\ account = [u \in Users |-> IF u \in Present THEN Newcomer ELSE NoAccount]
    /\ nonce = [i \in Invites |-> "free"]
    /\ granted = {} /\ broken = {}
    /\ session = [w \in Sessions |-> NoTask]

-----------------------------------------------------------------------------
\* Only the columns that differ from the copy are written.
NewValue(now, before, after) == IF after # before THEN after ELSE now
WrittenRow(now, copy, new) == [f \in DOMAIN now |-> NewValue(now[f], copy[f], new[f])]

\* _enforce_trusted_verification
Enforced(c, given) == IF given \in Trusted THEN [c EXCEPT !.verified = "verified"] ELSE c

WithActive(c, r) == IF c.active \in c.roles THEN c ELSE [c EXCEPT !.active = r]

\* assign_role
Grant(c, r) == WithActive(Enforced([c EXCEPT !.roles = @ \cup {r}], r), r)

\* process_invite_join_sync: a fresh candidate who joins the staff is a resident no more.
Joined(c, r) ==
    LET fresh == c.status = "pending" /\ c.roles \ Capabilities = {"applicant"}
        roles == (c.roles \cup {r}) \ (IF r \in Staff /\ fresh THEN {"applicant"} ELSE {})
    IN  [WithActive(Enforced([c EXCEPT !.roles = roles], r), r) EXCEPT !.status = "pending"]

\* activate_employee
Activated(c) ==
    [c EXCEPT !.status = "approved",
              !.verified = IF @ = "pending" THEN "verified" ELSE @,
              !.active = IF @ \in Staff THEN @
                         ELSE IF "manager" \in c.roles THEN "manager" ELSE "executor"]

\* remove_role: another role becomes active, the first in the list.
Removed(c, r) ==
    LET left == c.roles \ {r}
        next == IF c.active # r THEN {c.active} ELSE IF left = {} THEN {"applicant"} ELSE left
    IN  {[c EXCEPT !.roles = left, !.active = first] : first \in next}

\* The last role stays.
Removes(c, r) == r \in c.roles /\ c.roles # {r}

Privileged(c) == c.roles \cap Trusted # {}

\* What an operation with argument r makes of the copy it read; nothing when it refuses.
Outcomes(op, c, r) ==
    CASE op = "approve" -> {[c EXCEPT !.status = "approved"]}
      [] op = "block" -> {[c EXCEPT !.status = "blocked"]}
      [] op = "unblock" -> {x \in {[c EXCEPT !.status = "approved"]} : c.status = "blocked"}
      [] op = "assign" -> IF r \in c.roles THEN {} ELSE {Grant(c, r)}
      [] op = "remove" -> IF Removes(c, r) THEN Removed(c, r) ELSE {}
      [] op = "switch" -> {x \in {[c EXCEPT !.active = r]} : r \in c.roles}
      [] op = "meterOn" -> {[c EXCEPT !.roles = @ \cup Capabilities]}
      [] op = "meterOff" -> {[c EXCEPT !.roles = @ \ Capabilities]}
      [] op = "verify" -> {x \in {[c EXCEPT !.verified = "verified"]} : ~Privileged(c) /\ c.verified = "pending"}
      [] op = "refuse" -> {x \in {[c EXCEPT !.verified = "rejected"]} : ~Privileged(c)}
      [] op = "activate" -> {x \in {Activated(c)} : c.roles \cap Staff # {} /\ c.status = "pending"}
      [] op = "decline" -> {x \in {[c EXCEPT !.status = "blocked"]} : c.roles \cap Staff # {} /\ c.status = "pending"}
      [] op = "delete" -> {x \in {[c EXCEPT !.status = "deleted"]} : ~Privileged(c)}
      [] op = "register" -> {x \in {[c EXCEPT !.roles = @ \cup {"applicant"}, !.active = "applicant"]} :
                                 c.status \notin {"blocked", "approved"} /\ c.roles \subseteq {"applicant"}}
      [] op = "erase" -> {NoAccount}
      [] op = "admin" -> {Enforced([c EXCEPT !.status = "approved", !.roles = {"manager"}, !.active = "manager"], "manager")}

Plain == {"approve", "block", "unblock", "assign", "remove", "switch", "meterOn", "meterOff",
          "verify", "refuse", "activate", "decline", "delete", "register", "admin", "erase"}

\* A task begun on row u, with what it read of it; a form keeps nothing of what it read.
Begun(op, u, arg, copy) == [op |-> op, u |-> u, arg |-> arg, copy |-> copy, stands |-> TRUE]
Opened(op, u, arg) == Begun(op, u, arg, NoAccount)

\* A session reads the row and decides on the copy.
Read(w, op, u, r) ==
    /\ session[w].op = "idle" /\ op \in AccountOps \cap Plain
    /\ account[u].status # "absent"
    /\ Outcomes(op, account[u], r) \ {account[u]} # {}
    /\ session' = [session EXCEPT ![w] = Begun(op, u, r, account[u])]
    /\ UNCHANGED <<account, nonce, granted, broken>>

\* The commit; the row that was read must still be there (its UPDATE finds no other).
Write(w) ==
    LET t == session[w] IN
    /\ t.op \in Plain \ {"erase"} /\ t.stands
    /\ \E new \in Outcomes(t.op, t.copy, t.arg) :
          account' = [account EXCEPT ![t.u] = WrittenRow(@, t.copy, new)]
    /\ session' = [session EXCEPT ![w] = NoTask]
    /\ UNCHANGED <<nonce, granted, broken>>

\* delete_user: the row goes, whatever has become of it, and leaves other sessions with
\* copies of no row.
Erase(w) ==
    LET u == session[w].u IN
    /\ session[w].op = "erase" /\ session[w].stands
    /\ account' = [account EXCEPT ![u] = NoAccount]
    /\ session' = [x \in Sessions |->
                      IF x = w THEN NoTask
                      ELSE IF session[x].op # "idle" /\ session[x].u = u THEN [session[x] EXCEPT !.stands = FALSE]
                      ELSE session[x]]
    /\ UNCHANGED <<nonce, granted, broken>>

\* The first message of a newcomer, or the registration in the Mini App.
Arrive(u) ==
    /\ account[u].status = "absent"
    /\ account' = [account EXCEPT ![u] = Newcomer]
    /\ UNCHANGED <<nonce, granted, broken, session>>

-----------------------------------------------------------------------------
\* The screen of roles of an employee: it is filled once, the manager ticks, and the set
\* that comes out is written under a lock.
OpenRoles(w, u, set) ==
    /\ session[w].op = "idle" /\ "edit" \in AccountOps
    /\ account[u].status # "absent"
    /\ set \subseteq Roles /\ set \ {"meter"} # {} /\ set # account[u].roles
    /\ ("meter" \in set) = ("meter" \in account[u].roles)
    /\ session' = [session EXCEPT ![w] = Opened("edit", u, set)]
    /\ UNCHANGED <<account, nonce, granted, broken>>

\* _apply_role_change
SaveRoles(w) ==
    LET t == session[w] IN
    /\ t.op = "edit" /\ t.stands
    /\ \E first \in t.arg :
          account' = [account EXCEPT ![t.u] = WithActive([@ EXCEPT !.roles = t.arg], first)]
    /\ session' = [session EXCEPT ![w] = NoTask]
    /\ UNCHANGED <<nonce, granted, broken>>

\* approve_account, block_account, unblock_account: under the lock, residents only.
ResidentStatus(u, from, to) ==
    /\ "resident" \in AccountOps
    /\ account[u].status \in from /\ "applicant" \in account[u].roles
    /\ account[u].roles \cap Staff = {}
    /\ account' = [account EXCEPT ![u].status = to]
    /\ UNCHANGED <<nonce, granted, broken, session>>

-----------------------------------------------------------------------------
\* _load_join_gate: the form of an invitation opens; nothing is written.
OpenForm(w, u, i) ==
    /\ session[w].op = "idle" /\ "form" \in AccountOps
    /\ nonce[i] # "used"
    /\ account[u].status # "approved"
    /\ account[u].status = "pending" => account[u].roles = {"applicant"}
    /\ session' = [session EXCEPT ![w] = Opened("form", u, i)]
    /\ UNCHANGED <<account, nonce, granted, broken>>

\* Mutant: the nonce is looked up and not inserted until the role is given.
NonceUnused(i) == nonce[i] # "used"

\* The unique nonce: a second insert waits for the first and fails if that commits.
NonceFree(i) == nonce[i] = "free"

\* Until the transaction commits the nonce is its own.
NonceHeld(w) == w

\* _use_nonce_atomically, for a link or for a form just filled.
UseNonce(w, u, i) ==
    /\ \/ session[w].op = "idle" /\ "join" \in AccountOps
       \/ session[w].op = "form" /\ session[w].u = u /\ session[w].arg = i
    /\ NonceFree(i)
    /\ nonce' = [nonce EXCEPT ![i] = NonceHeld(w)]
    /\ session' = [session EXCEPT ![w] = Begun("join", u, i, account[u])]
    /\ UNCHANGED <<account, granted, broken>>

\* get_or_create_user_sync for a newcomer: the row is committed, and the nonce with it.
CreateUser(w) ==
    LET t == session[w] IN
    /\ t.op = "join" /\ t.copy.status = "absent" /\ account[t.u].status = "absent"
    /\ account' = [account EXCEPT ![t.u] = Newcomer]
    /\ nonce' = [nonce EXCEPT ![t.arg] = "used"]
    /\ session' = [session EXCEPT ![w] = Begun("created", t.u, t.arg, Newcomer)]
    /\ UNCHANGED <<granted, broken>>

\* process_invite_join_sync commits.
Join(w) ==
    LET t == session[w] IN
    /\ t.op \in {"join", "created"} /\ t.copy.status # "absent" /\ t.stands
    /\ account' = [account EXCEPT ![t.u] = WrittenRow(@, t.copy, Joined(t.copy, RoleOf[t.arg]))]
    /\ nonce' = [nonce EXCEPT ![t.arg] = "used"]
    /\ granted' = granted \cup {<<t.arg, t.u>>}
    /\ session' = [session EXCEPT ![w] = NoTask]
    /\ UNCHANGED broken

\* A rollback takes the insert of the nonce back.
Freed(w) == [i \in Invites |-> IF nonce[i] = w THEN "free" ELSE nonce[i]]

\* The process dies, or the database refuses: what is not committed is undone.
Rollback(w) ==
    /\ session[w].op # "idle"
    /\ nonce' = Freed(w)
    /\ session' = [session EXCEPT ![w] = NoTask]
    /\ broken' = broken \cup (IF session[w].op = "created" THEN {session[w].arg} ELSE {})
    /\ UNCHANGED <<account, granted>>

AccountsNext ==
    \/ \E u \in Users :
        \/ Arrive(u)
        \/ ResidentStatus(u, {"pending"}, "approved")
        \/ ResidentStatus(u, {"pending", "approved"}, "blocked")
        \/ ResidentStatus(u, {"blocked"}, "approved")
    \/ \E w \in Sessions :
        \/ Write(w) \/ Erase(w) \/ SaveRoles(w) \/ CreateUser(w) \/ Join(w) \/ Rollback(w)
        \/ \E u \in Users :
            \/ \E op \in AccountOps, r \in Roles : Read(w, op, u, r)
            \/ \E set \in SUBSET Roles : OpenRoles(w, u, set)
            \/ \E i \in Invites : OpenForm(w, u, i) \/ UseNonce(w, u, i)

AccountsSpec == AccountsInit /\ [][AccountsNext]_accountVars

-----------------------------------------------------------------------------
Joining(w, i) == session[w].op \in {"join", "created"} /\ session[w].arg = i

\* Each variable keeps to its kind, and a nonce is held by the session that joins with it.
AccountsTypeOK ==
    /\ account \in [Users -> Accounts]
    /\ nonce \in [Invites -> {"free", "used"} \cup Sessions]
    /\ granted \subseteq Invites \X Users /\ broken \subseteq Invites
    /\ \A w \in Sessions, i \in Invites : nonce[i] = w => Joining(w, i)

\* An invitation gives its role to one account, whatever fails on the way.
GrantedOnce == \A i \in Invites, x, y \in Users : <<i, x>> \in granted /\ <<i, y>> \in granted => x = y

\* An invitation has given its role, or is about to.
Gives(i) == (\E u \in Users : <<i, u>> \in granted) \/ (\E w \in Sessions : Joining(w, i))

\* An invitation is used up with the role given, or is still good: the two are one
\* transaction (handlers/auth.py:118, handlers/base.py:171), whatever breaks it off.
UsedMeansGranted == \A i \in Invites : nonce[i] = "used" => Gives(i)

\* But for the commit of a newcomer's account in between.
UsedOrBroken == \A i \in Invites : nonce[i] = "used" => Gives(i) \/ i \in broken

\* _use_nonce_atomically, process_invite_join_sync, the two together: an invitation gives
\* its role to one account, and is used up with the role given or still good, unless the
\* process dies, or the account goes, between the account of a newcomer and its role.
InvitationsKept == GrantedOnce /\ UsedOrBroken

=============================================================================
