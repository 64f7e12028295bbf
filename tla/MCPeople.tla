------------------------------ MODULE MCPeople ------------------------------
(***************************************************************************)
(* The scenarios about people: accounts, apartments, shifts.  Which one a  *)
(* behaviour plays is chosen at its start (part); the variables of the     *)
(* others keep their initial values.                                       *)
(*   members    two users, one invitation: join, fill the form, block      *)
(*   newcomers  one of two users has no account yet; two invitations, and  *)
(*              a resident may be blocked                                  *)
(*   career     one user, every operation on accounts, one session at a    *)
(*              time                                                       *)
(*   section    three apartments, two sessions of the section Residents    *)
(*   ways       one apartment, every way to change it, one at a time       *)
(*   booking    two shifts, two executors, two offers, two sessions that   *)
(*              create, end and hand over under the locks of the web core  *)
(*   duty       one shift, one offer, every operation and the expiry job   *)
(***************************************************************************)
EXTENDS ResidentApartments, Accounts, ShiftTransfers, TLC

CONSTANTS u1, u2, u3, i1, i2, one, other, f1, f2, f3, e1, e2, s1, s2, o1, o2

VARIABLE part

Both == {one, other}
MCApartments == {f1, f2, f3}
OfTheSection == Locked \cup {"request"}
MCOps == Locked \cup Unlocked

MCUsers == {u1, u2, u3}
MCPresent == {u1, u2}
MCInvites == {i1, i2}
MCRoleOf == i1 :> "executor" @@ i2 :> "manager"
MCJoins == {"join", "form", "created", "block"}
MCAccountOps == MCJoins \cup {"erase", "edit", "resident", "approve", "unblock", "assign", "remove", "switch", "verify", "refuse",
                            "activate", "decline", "delete", "register", "admin"}

MCExecutors == {e1, e2}
MCShifts == {s1, s2}
MCOffers == {o1, o2}
Handing == {"create", "patch", "end", "delete", "webReassign", "webOffer", "webAssign", "webAccept"}
MCShiftOps == Handing \cup {"activate", "move", "refuse", "expire",
                            "botOffer", "botAssign", "botAccept", "botReassign"}

ASSUME ScenarioAssumption == AccountsAssumption /\ ApartmentsAssumption /\ ShiftAssumption

PeopleInit ==
    /\ part \in {"members", "newcomers", "career", "section", "ways", "booking", "duty"}
    /\ AccountsInit
    /\ Init
    /\ ShiftInit

\* In a scenario some sessions do some of the operations, to some users.
MCTask(x, operations, users, invites) ==
    LET t == session'[x] IN
    t = NoTask \/ (t.op \in operations /\ t.u \in users
                   /\ (t.op \in {"join", "form", "created"} => t.arg \in invites))

Persons ==
    /\ part \in {"members", "newcomers", "career"} /\ AccountsNext
    /\ \/ /\ part = "members"
          /\ account'[u3] = account[u3]
          /\ MCTask(one, MCJoins, {u1, u2}, {i1})
          /\ MCTask(other, MCJoins, {u1, u2}, {i1}) \/ MCTask(other, {"erase"}, {u1}, {})
       \/ /\ part = "newcomers"
          /\ account'[u2] = account[u2] /\ account'[u1].status # "approved" /\ account'[u3].status # "approved"
          /\ MCTask(one, MCJoins, {u1, u3}, MCInvites)
          /\ MCTask(other, MCJoins, {u1, u3}, MCInvites) \/ MCTask(other, {"erase"}, {u3}, {})
       \/ /\ part = "career"
          /\ account'[u2] = account[u2] /\ account'[u3] = account[u3]
          /\ session'[one] = NoTask /\ MCTask(other, MCAccountOps, {u1}, {i1})
    /\ UNCHANGED <<part, vars, shiftVars>>

Homes ==
    /\ part \in {"section", "ways"} /\ Next
    /\ \/ /\ part = "section"
          /\ \A s \in Both : work'[s].op \in OfTheSection \cup {"idle"}
       \/ /\ part = "ways"
          /\ \A s \in Both : work'[s].op # "idle" => s = other /\ work'[s].a = f1
    /\ UNCHANGED <<part, accountVars, shiftVars>>

Shiftwork ==
    /\ part \in {"booking", "duty"} /\ ShiftNext
    /\ \/ part = "booking" /\ \A x \in Both \cup {Scheduler} : txs'[x].op \in Handing \cup {"idle"}
       \/ /\ part = "duty"
          /\ Cardinality({s \in Shifts : shift'[s] # NoEntry}) <= 1
          /\ Cardinality({o \in Offers : offer'[o] # NoEntry}) <= 1
    /\ UNCHANGED <<part, vars, accountVars>>

PeopleNext == Persons \/ Homes \/ Shiftwork

PeopleSpec == PeopleInit /\ [][PeopleNext]_<<part, vars, accountVars, shiftVars>>

Symmetric == Permutations({f1, f2, f3}) \cup Permutations({e1, e2})
             \cup Permutations({s1, s2}) \cup Permutations({o1, o2})

-----------------------------------------------------------------------------
\* Every component keeps its variables to their kinds, and its locks: a nonce is held by
\* the session that joins with it, the row of a resident by a session of the section, and
\* no two transactions on shifts hold the same row or executor.
PeopleTypeOK == AccountsTypeOK /\ TypeOK /\ ShiftTypeOK
==============================================================================
