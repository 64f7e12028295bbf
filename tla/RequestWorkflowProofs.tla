----------------------- MODULE RequestWorkflowProofs -----------------------
(***************************************************************************)
(* Theorems about the request workflow, for any users, roles, groups and   *)
(* bounds: of the commands alone (Spec), and interleaved with the writers  *)
(* that take no row lock (WSpec).  Every command commits through one of a  *)
(* few shapes; the proofs split on the shapes, and StepShapes shows that   *)
(* there are no others.                                                    *)
(***************************************************************************)
EXTENDS AssignmentWriters, FiniteSetTheorems, SequenceTheorems, TLAPS

USE UsersAssumption, GroupsAssumption, RolesAssumption, BoundsAssumption

-----------------------------------------------------------------------------
(* The shapes of a step.                                                    *)

\* The moves that leave flags and assignment alone: <<canonical status, to>>.
WorkEdge ==
    ({"NEW", "IN_PROGRESS"} \X {"PURCHASE"})
    \cup ({"NEW", "IN_PROGRESS", "PURCHASE"} \X {"CLARIFICATION"})
    \cup ({"PURCHASE", "CLARIFICATION"} \X {"IN_PROGRESS"})

Assigning == \E e \in Users : Canon(req) \in {"NEW", "IN_PROGRESS"} /\ AssignTo(e)
Addressing == \E g \in Groups : Canon(req) = "NEW" /\ AddressTo(g)
Taking == \E e \in Users : Canon(req) \in {"NEW", "IN_PROGRESS"} /\ Unclaimed /\ TakeFromPool(e)
Working == \E to \in Status : <<Canon(req), to>> \in WorkEdge /\ MoveTo(to, req)
Completing ==
    Canon(req) \in {"IN_PROGRESS", "PURCHASE", "CLARIFICATION"} /\ MoveTo("EXECUTED", Done)
Confirming ==
    Canon(req) = "EXECUTED"
    /\ MoveTo(ConfirmTarget, [req EXCEPT !.confirmed = TRUE, !.returned = FALSE])
Reopening ==
    Canon(req) \in {"EXECUTED", "RETURNED", "COMPLETED"} /\ MoveTo("IN_PROGRESS", Reopened)
Accepting ==
    Canon(req) = "COMPLETED" /\ req.mode # "manager" /\ Commit("APPROVED", req) /\ rated' = TRUE
    /\ KeepAssignments /\ UNCHANGED onShift
Returning ==
    Canon(req) = "COMPLETED" /\ req.mode # "manager"
    /\ MoveTo("RETURNED", [req EXCEPT !.returned = TRUE, !.confirmed = FALSE])
Forcing == Canon(req) \in {"COMPLETED", "RETURNED"} /\ MoveTo("APPROVED", Done)
Cancelling ==
    Canon(req) \in Status \ Terminal /\ Commit("CANCELLED", req) /\ CancelAssignments
    /\ UNCHANGED <<rated, onShift>>

Shape ==
    \/ Assigning \/ Addressing \/ Taking \/ Working \/ Completing \/ Confirming
    \/ Reopening \/ Accepting \/ Returning \/ Forcing \/ Cancelling

\* Every command is a commit of one of the shapes.
LEMMA StepShapes == CommandStep => Shape
<1> SUFFICES ASSUME CommandStep PROVE Shape
    OBVIOUS
<1>1. CASE SystemStep
  <2>1. PICK p \in DOMAIN Capabilities :
            \/ \E e \in Users : SystemDispatchAssign(p, e) \/ SystemAutoPromote(p, e)
            \/ \E g \in Groups : SystemAssignGroup(p, g)
    BY <1>1 DEF SystemStep
  <2>2. CASE \E e \in Users : SystemDispatchAssign(p, e)
    BY <2>2 DEF SystemDispatchAssign, SystemAllowed, From, Shape, Assigning
  <2>3. CASE \E e \in Users : SystemAutoPromote(p, e)
    BY <2>3 DEF SystemAutoPromote, SystemAllowed, SystemCanPromote, From, Shape, Taking
  <2>4. CASE \E g \in Groups : SystemAssignGroup(p, g)
    BY <2>4 DEF SystemAssignGroup, SystemAllowed, From, Shape, Addressing
  <2>5. QED
    BY <2>1, <2>2, <2>3, <2>4
<1>2. ASSUME NEW u \in Users, AssignStep(u) PROVE Shape
  <2>1. CASE \E g \in Groups : AssignGroup(u, g)
    BY <2>1 DEF AssignGroup, Allowed, From, Shape, Addressing
  <2>2. CASE \E e \in Users : ManagerAssign(u, e)
    BY <2>2 DEF ManagerAssign, Allowed, From, Shape, Assigning
  <2>3. CASE ExecutorClaim(u)
    BY <2>3 DEF ExecutorClaim, Allowed, Authorized, ManagerActions, WorkerActions,
                ExecutorCanClaim, From, Shape, Taking
  <2>4. QED
    BY <1>2, <2>1, <2>2, <2>3 DEF AssignStep
<1>3. ASSUME NEW u \in Users, WorkStep(u) PROVE Shape
  <2> USE DEF Allowed, From
  <2>1. ASSUME NEW to \in Status, MoveTo(to, req), <<Canon(req), to>> \in WorkEdge
        PROVE Shape
    BY <2>1 DEF Shape, Working
  <2>2. ASSUME ExecutorPurchase(u) \/ ManagerPurchase(u) PROVE Shape
    BY <2>1, <2>2 DEF ExecutorPurchase, ManagerPurchase, WorkEdge, Status
  <2>3. ASSUME ClarifyRequest(u) PROVE Shape
    BY <2>1, <2>3 DEF ClarifyRequest, WorkEdge, Status
  <2>4. ASSUME ManagerPurchaseDone(u) \/ ClarifyResolved(u) \/ ExecutorResume(u) PROVE Shape
    BY <2>1, <2>4 DEF ManagerPurchaseDone, ClarifyResolved, ExecutorResume, WorkEdge, Status
  <2>5. ASSUME ExecutorComplete(u) \/ ManagerComplete(u) PROVE Shape
    BY <2>5 DEF ExecutorComplete, ManagerComplete, Shape, Completing
  <2>6. QED
    BY <1>3, <2>2, <2>3, <2>4, <2>5 DEF WorkStep
<1>4. ASSUME NEW u \in Users, AcceptanceStep(u) PROVE Shape
  <2> USE DEF Allowed, From
  <2>1. CASE ManagerConfirm(u)
    BY <2>1 DEF ManagerConfirm, Shape, Confirming
  <2>2. CASE ManagerReturnToWork(u)
    BY <2>2 DEF ManagerReturnToWork, Shape, Reopening
  <2>3. CASE ApplicantAccept(u)
    BY <2>3 DEF ApplicantAccept, Authorized, ManagerActions, WorkerActions, CanAccept,
                Shape, Accepting
  <2>4. CASE ApplicantReturn(u)
    BY <2>4 DEF ApplicantReturn, Authorized, ManagerActions, WorkerActions, OwnerCanReturn,
                Shape, Returning
  <2>5. CASE ManagerForceAccept(u)
    BY <2>5 DEF ManagerForceAccept, Shape, Forcing
  <2>6. CASE Cancel(u)
    BY <2>6 DEF Cancel, Shape, Cancelling
  <2>7. QED
    BY <1>4, <2>1, <2>2, <2>3, <2>4, <2>5, <2>6 DEF AcceptanceStep
<1>5. QED
  BY <1>1, <1>2, <1>3, <1>4 DEF CommandStep

-----------------------------------------------------------------------------
(* What a commit does to the row.                                           *)

\* The row after a commit to "to", with the flags the patch gives it.
Effect(to, confirmed, returned) ==
    /\ req' \in Request
    /\ req'.status = to
    /\ req'.confirmed = confirmed
    /\ req'.returned = returned
    /\ req'.mode = req.mode
    /\ req'.version = IF to = req.status THEN req.version ELSE req.version + 1
    /\ outbox' = IF PublicStatus(to) # Public(req)
                 THEN Enqueue([old |-> Public(req), new |-> PublicStatus(to),
                               version |-> req'.version])
                 ELSE outbox

\* A commit changes the status as told, the version if the stored status
\* changes, and every other field as the patch says.
LEMMA CommitEffect ==
    ASSUME req \in Request, NEW to \in Status, NEW patch \in Request,
           patch.version = req.version, patch.mode = req.mode, Commit(to, patch)
    PROVE  /\ Effect(to, patch.confirmed, patch.returned)
           /\ req'.executor = patch.executor
           /\ req'.group = patch.group
           /\ to = "IN_PROGRESS" => patch.executor # NoUser
<1> DEFINE version == NextVersion(to)
           new == [patch EXCEPT !.status = to, !.version = version]
<1>1. /\ req' = new
      /\ to = "IN_PROGRESS" => patch.executor # NoUser
      /\ outbox' = IF PublicStatus(to) # Public(req)
                   THEN Enqueue([old |-> Public(req), new |-> PublicStatus(to),
                                 version |-> version])
                   ELSE outbox
  BY DEF Commit, Staffed
<1>2. version \in Nat /\ version = IF to = req.status THEN req.version ELSE req.version + 1
  BY DEF Request, NextVersion
<1> HIDE DEF version
<1>3. new \in Request
  BY <1>2 DEF Request
<1>4. /\ new.status = to /\ new.version = version
      /\ new.confirmed = patch.confirmed /\ new.returned = patch.returned
      /\ new.mode = patch.mode
      /\ new.executor = patch.executor /\ new.group = patch.group
  BY <1>2 DEF Request
<1>5. QED
  BY <1>1, <1>2, <1>3, <1>4 DEF Effect

-----------------------------------------------------------------------------
(* The control of a step: edges of the canonical status, the flags and the  *)
(* rating that go with them.                                                *)

\* The edges of the canonical status, all commands together.
CanonEdge ==
    WorkEdge
    \cup ({"NEW", "IN_PROGRESS"} \X {"IN_PROGRESS"}) \cup {<<"NEW", "NEW">>}
    \cup ({"IN_PROGRESS", "PURCHASE", "CLARIFICATION"} \X {"EXECUTED"})
    \cup ({"EXECUTED"} \X {"COMPLETED", "APPROVED"})
    \cup ({"EXECUTED", "RETURNED", "COMPLETED"} \X {"IN_PROGRESS"})
    \cup ({"COMPLETED"} \X {"APPROVED", "RETURNED"})
    \cup ({"RETURNED"} \X {"APPROVED"})
    \cup ((Status \ Terminal) \X {"CANCELLED"})

Legal(to, confirmed, returned) ==
    /\ <<Canon(req), to>> \in CanonEdge
    /\ confirmed => to \in {"COMPLETED", "APPROVED", "CANCELLED"}
    /\ returned => to # "COMPLETED"
    /\ req.mode = "manager" /\ Canon(req) \notin {"COMPLETED", "RETURNED"}
          => to \notin {"COMPLETED", "RETURNED"}
    /\ rated' = rated \/ (rated' = TRUE /\ to = "APPROVED" /\ req.mode # "manager")

\* The present status, read through the flags, is one of the canonical ones
\* and is the stored one unless a legacy flag re-reads it.
LEMMA CanonOfRequest ==
    ASSUME req \in Request
    PROVE  /\ Canon(req) \in Status
           /\ Canon(req) # req.status => Canon(req) \in {"COMPLETED", "RETURNED"}
           /\ req.status \in Terminal => Canon(req) = req.status
BY DEF Canon, Request, Status, Terminal

\* With a fresh confirmation every command is a legal edge: an unfinished
\* request carries no confirmation to the next round.
LEMMA ControlSteps ==
    ASSUME TypeOK, ConfirmationIsFresh, Shape
    PROVE  \E to \in Status, confirmed \in BOOLEAN, returned \in BOOLEAN :
               Effect(to, confirmed, returned) /\ Legal(to, confirmed, returned)
<1> USE DEF TypeOK
<1>1. req \in Request /\ Canon(req) \in Status
  BY CanonOfRequest
<1>2. CASE Assigning
  <2>1. PICK e \in Users : Canon(req) \in {"NEW", "IN_PROGRESS"} /\ AssignTo(e)
    BY <1>2 DEF Assigning
  <2> DEFINE patch == [req EXCEPT !.executor = e, !.group = NoGroup]
  <2>2. /\ patch \in Request /\ patch.version = req.version /\ patch.mode = req.mode
        /\ patch.confirmed = req.confirmed /\ patch.returned = req.returned
    BY DEF Request, Executor, Group
  <2>3. Effect("IN_PROGRESS", req.confirmed, req.returned)
    BY <1>1, <2>1, <2>2, CommitEffect DEF AssignTo, Status
  <2>4. Legal("IN_PROGRESS", req.confirmed, req.returned)
    BY <2>1 DEF Legal, CanonEdge, ConfirmationIsFresh, AssignTo
  <2>5. QED
    BY <2>3, <2>4 DEF Request, Status
<1>3. CASE Addressing
  <2>1. PICK g \in Groups : Canon(req) = "NEW" /\ AddressTo(g)
    BY <1>3 DEF Addressing
  <2> DEFINE patch == [req EXCEPT !.executor = NoUser, !.group = g]
  <2>2. /\ patch \in Request /\ patch.version = req.version /\ patch.mode = req.mode
        /\ patch.confirmed = req.confirmed /\ patch.returned = req.returned
    BY DEF Request, Executor, Group
  <2>3. Effect("NEW", req.confirmed, req.returned)
    BY <1>1, <2>1, <2>2, CommitEffect DEF AddressTo, Status
  <2>4. Legal("NEW", req.confirmed, req.returned)
    BY <2>1 DEF Legal, CanonEdge, ConfirmationIsFresh, AddressTo
  <2>5. QED
    BY <2>3, <2>4 DEF Request, Status
<1>4. CASE Taking
  <2>1. PICK e \in Users : Canon(req) \in {"NEW", "IN_PROGRESS"} /\ TakeFromPool(e)
    BY <1>4 DEF Taking
  <2> DEFINE patch == [req EXCEPT !.executor = e, !.group = NoGroup]
  <2>2. /\ patch \in Request /\ patch.version = req.version /\ patch.mode = req.mode
        /\ patch.confirmed = req.confirmed /\ patch.returned = req.returned
    BY DEF Request, Executor, Group
  <2>3. Effect("IN_PROGRESS", req.confirmed, req.returned)
    BY <1>1, <2>1, <2>2, CommitEffect DEF TakeFromPool, Status
  <2>4. Legal("IN_PROGRESS", req.confirmed, req.returned)
    BY <2>1 DEF Legal, CanonEdge, ConfirmationIsFresh, TakeFromPool
  <2>5. QED
    BY <2>3, <2>4 DEF Request, Status
<1>5. CASE Working
  <2>1. PICK to \in Status : <<Canon(req), to>> \in WorkEdge /\ MoveTo(to, req)
    BY <1>5 DEF Working
  <2>2. Effect(to, req.confirmed, req.returned)
    BY <1>1, <2>1, CommitEffect DEF MoveTo
  <2>3. /\ to \in {"PURCHASE", "CLARIFICATION", "IN_PROGRESS"}
        /\ Canon(req) \in {"NEW", "IN_PROGRESS", "PURCHASE", "CLARIFICATION"}
    BY <2>1 DEF WorkEdge
  <2>4. Legal(to, req.confirmed, req.returned)
    BY <2>1, <2>3 DEF Legal, CanonEdge, ConfirmationIsFresh, MoveTo
  <2>5. QED
    BY <2>2, <2>4 DEF Request
<1>6. CASE Completing
  <2>1. /\ Done \in Request /\ Done.version = req.version /\ Done.mode = req.mode
        /\ Done.confirmed = req.confirmed /\ Done.returned = FALSE
    BY DEF Request, Done
  <2>2. Effect("EXECUTED", req.confirmed, FALSE)
    BY <1>1, <1>6, <2>1, CommitEffect DEF Completing, MoveTo, Status
  <2>3. Legal("EXECUTED", req.confirmed, FALSE)
    BY <1>6 DEF Completing, Legal, CanonEdge, ConfirmationIsFresh, MoveTo
  <2>4. QED
    BY <2>2, <2>3 DEF Request, Status
<1>7. CASE Confirming
  <2> DEFINE patch == [req EXCEPT !.confirmed = TRUE, !.returned = FALSE]
  <2>1. /\ patch \in Request /\ patch.version = req.version /\ patch.mode = req.mode
        /\ patch.confirmed = TRUE /\ patch.returned = FALSE
    BY DEF Request
  <2>2. Effect(ConfirmTarget, TRUE, FALSE)
    BY <1>1, <1>7, <2>1, CommitEffect DEF Confirming, ConfirmTarget, MoveTo, Status
  <2>3. Legal(ConfirmTarget, TRUE, FALSE)
    BY <1>7 DEF Confirming, ConfirmTarget, Legal, CanonEdge, MoveTo
  <2>4. QED
    BY <2>2, <2>3 DEF ConfirmTarget, Status
<1>8. CASE Reopening
  <2>1. /\ Reopened \in Request /\ Reopened.version = req.version /\ Reopened.mode = req.mode
        /\ Reopened.confirmed = FALSE /\ Reopened.returned = FALSE
    BY DEF Request, Reopened
  <2>2. Effect("IN_PROGRESS", FALSE, FALSE)
    BY <1>1, <1>8, <2>1, CommitEffect DEF Reopening, MoveTo, Status
  <2>3. Legal("IN_PROGRESS", FALSE, FALSE)
    BY <1>8 DEF Reopening, Legal, CanonEdge, MoveTo
  <2>4. QED
    BY <2>2, <2>3 DEF Status
<1>9. CASE Accepting
  <2>1. Effect("APPROVED", req.confirmed, req.returned)
    BY <1>1, <1>9, CommitEffect DEF Accepting, Status
  <2>2. Legal("APPROVED", req.confirmed, req.returned)
    BY <1>9 DEF Accepting, Legal, CanonEdge
  <2>3. QED
    BY <2>1, <2>2 DEF Request, Status
<1>10. CASE Returning
  <2> DEFINE patch == [req EXCEPT !.returned = TRUE, !.confirmed = FALSE]
  <2>1. /\ patch \in Request /\ patch.version = req.version /\ patch.mode = req.mode
        /\ patch.confirmed = FALSE /\ patch.returned = TRUE
    BY DEF Request
  <2>2. Effect("RETURNED", FALSE, TRUE)
    BY <1>1, <1>10, <2>1, CommitEffect DEF Returning, MoveTo, Status
  <2>3. Legal("RETURNED", FALSE, TRUE)
    BY <1>10 DEF Returning, Legal, CanonEdge, MoveTo
  <2>4. QED
    BY <2>2, <2>3 DEF Status
<1>11. CASE Forcing
  <2>1. /\ Done \in Request /\ Done.version = req.version /\ Done.mode = req.mode
        /\ Done.confirmed = req.confirmed /\ Done.returned = FALSE
    BY DEF Request, Done
  <2>2. Effect("APPROVED", req.confirmed, FALSE)
    BY <1>1, <1>11, <2>1, CommitEffect DEF Forcing, MoveTo, Status
  <2>3. Legal("APPROVED", req.confirmed, FALSE)
    BY <1>11 DEF Forcing, Legal, CanonEdge, MoveTo
  <2>4. QED
    BY <2>2, <2>3 DEF Request, Status
<1>12. CASE Cancelling
  <2>1. Effect("CANCELLED", req.confirmed, req.returned)
    BY <1>1, <1>12, CommitEffect DEF Cancelling, Status
  <2>2. Legal("CANCELLED", req.confirmed, req.returned)
    BY <1>12 DEF Cancelling, Legal, CanonEdge
  <2>3. QED
    BY <2>1, <2>2 DEF Request, Status
<1>13. QED
  BY <1>2, <1>3, <1>4, <1>5, <1>6, <1>7, <1>8, <1>9, <1>10, <1>11, <1>12 DEF Shape

-----------------------------------------------------------------------------
(* The data of a step: executor and group, kept on the row and on the       *)
(* active assignment.                                                       *)

\* Assignment rows are numbered in the order of insertion, so a row once
\* superseded is never met again.
RowsNumbered ==
    /\ active.row \in 0..rows
    /\ active.row = 0 => active.type = "none" /\ active.executor = NoUser

\* Whatever a command does to the pair, it does to both sides.
LEMMA MirrorSteps ==
    ASSUME TypeOK, RequestMirrorsAssignment, InProgressHasExecutor, RowsNumbered, Shape
    PROVE  /\ active' \in Assignment /\ rows' \in 0..MaxRows /\ onShift' \subseteq Users
           /\ InProgressHasExecutor' /\ RequestMirrorsAssignment' /\ RowsNumbered'
           /\ active.executor # NoUser /\ active'.row = active.row
                 => active'.executor = active.executor
<1> USE DEF TypeOK
<1> DEFINE Goal ==
        /\ active' \in Assignment /\ rows' \in 0..MaxRows /\ onShift' \subseteq Users
        /\ InProgressHasExecutor' /\ RequestMirrorsAssignment' /\ RowsNumbered'
        /\ active.executor # NoUser /\ active'.row = active.row
              => active'.executor = active.executor
<1>1. req \in Request
  OBVIOUS
<1>2. ASSUME NEW to \in Status, NEW patch \in Request,
             patch.version = req.version, patch.mode = req.mode,
             patch.executor = req.executor, patch.group = req.group,
             Canon(req) \notin Terminal, Commit(to, patch), KeepAssignments,
             UNCHANGED onShift
      PROVE  Goal
  <2>1. /\ req'.status = to
        /\ to = "IN_PROGRESS" => req'.executor # NoUser
        /\ req'.executor = req.executor /\ req'.group = req.group
    BY <1>1, <1>2, CommitEffect DEF Effect
  <2>2. req.status # "CANCELLED"
    BY <1>1, <1>2, CanonOfRequest DEF Terminal
  <2>3. QED
    BY <1>2, <2>1, <2>2 DEF KeepAssignments, InProgressHasExecutor,
          RequestMirrorsAssignment, RowsNumbered
<1>3. ASSUME NEW to \in Status, NEW patch \in Request, NEW e \in Executor, NEW g \in Group,
             NEW type \in {"individual", "group"},
             patch.version = req.version, patch.mode = req.mode,
             patch.executor = e, patch.group = g,
             type = "individual" <=> e # NoUser, type = "group" <=> g # NoGroup,
             Commit(to, patch), CreateAssignment(type, e, g), UNCHANGED onShift
      PROVE  Goal
  <2>1. /\ req'.status = to
        /\ to = "IN_PROGRESS" => req'.executor # NoUser
        /\ req'.executor = e /\ req'.group = g
    BY <1>1, <1>3, CommitEffect DEF Effect
  <2>2. /\ active' \in Assignment
        /\ active'.type = type /\ active'.executor = e /\ active'.group = g
        /\ active'.row = rows + 1 /\ rows' = rows + 1 /\ rows' \in 0..MaxRows
    BY <1>3 DEF CreateAssignment, Assignment
  <2>3. QED
    BY <1>3, <2>1, <2>2 DEF InProgressHasExecutor, RequestMirrorsAssignment, RowsNumbered
<1>4. CASE Assigning
  <2>1. PICK e \in Users : AssignTo(e)
    BY <1>4 DEF Assigning
  <2> DEFINE patch == [req EXCEPT !.executor = e, !.group = NoGroup]
  <2>2. /\ patch \in Request /\ patch.version = req.version /\ patch.mode = req.mode
        /\ patch.executor = e /\ patch.group = NoGroup
    BY DEF Request, Executor, Group
  <2>3. "IN_PROGRESS" \in Status /\ e \in Executor /\ e # NoUser /\ NoGroup \in Group
    BY DEF Status, Executor, Group
  <2>4. QED
    BY <1>3, <2>1, <2>2, <2>3 DEF AssignTo
<1>5. CASE Addressing
  <2>1. PICK g \in Groups : AddressTo(g)
    BY <1>5 DEF Addressing
  <2> DEFINE patch == [req EXCEPT !.executor = NoUser, !.group = g]
  <2>2. /\ patch \in Request /\ patch.version = req.version /\ patch.mode = req.mode
        /\ patch.executor = NoUser /\ patch.group = g
    BY DEF Request, Executor, Group
  <2>3. "NEW" \in Status /\ NoUser \in Executor /\ g \in Group /\ g # NoGroup
    BY DEF Status, Executor, Group
  <2>4. QED
    BY <1>3, <2>1, <2>2, <2>3 DEF AddressTo
<1>6. CASE Taking
  <2>1. PICK e \in Users : Unclaimed /\ TakeFromPool(e)
    BY <1>6 DEF Taking
  <2> DEFINE patch == [req EXCEPT !.executor = e, !.group = NoGroup]
  <2>2. /\ patch \in Request /\ patch.version = req.version /\ patch.mode = req.mode
        /\ patch.executor = e /\ patch.group = NoGroup
    BY DEF Request, Executor, Group
  <2>3. /\ req'.status = "IN_PROGRESS" /\ req'.executor = e /\ req'.group = NoGroup
        /\ e # NoUser
    BY <1>1, <2>1, <2>2, CommitEffect DEF TakeFromPool, Status, Effect
  <2>4. /\ active' \in Assignment
        /\ active'.type = "individual" /\ active'.executor = e
        /\ active'.row = active.row /\ rows' = rows /\ onShift' = onShift
    BY <2>1 DEF TakeFromPool, ConvertAssignment, Assignment, Executor
  <2>5. active.row # 0
    BY <2>1 DEF Unclaimed, RowsNumbered
  <2>6. QED
    BY <2>1, <2>3, <2>4, <2>5 DEF Unclaimed, InProgressHasExecutor,
          RequestMirrorsAssignment, RowsNumbered
<1>7. CASE Cancelling
  <2>1. req'.status = "CANCELLED"
    BY <1>1, <1>7, CommitEffect DEF Cancelling, Status, Effect
  <2>2. active' = NoAssignment /\ rows' = rows /\ onShift' = onShift
    BY <1>7 DEF Cancelling, CancelAssignments
  <2>3. NoAssignment \in Assignment
    BY DEF NoAssignment, Assignment, Executor, Group
  <2>4. QED
    BY <2>1, <2>2, <2>3 DEF InProgressHasExecutor, RequestMirrorsAssignment, RowsNumbered,
          NoAssignment, Assignment
<1>8. CASE Working \/ Accepting
  <2>1. PICK to \in Status : /\ Commit(to, req) /\ KeepAssignments /\ UNCHANGED onShift
                            /\ Canon(req) \notin Terminal
    BY <1>8 DEF Working, WorkEdge, Accepting, MoveTo, Terminal, Status
  <2>2. QED
    BY <1>1, <1>2, <2>1
<1>9. CASE Completing \/ Forcing
  <2>1. PICK to \in Status : /\ Commit(to, Done) /\ KeepAssignments /\ UNCHANGED onShift
                            /\ Canon(req) \notin Terminal
    BY <1>9 DEF Completing, Forcing, MoveTo, Terminal, Status
  <2>2. /\ Done \in Request /\ Done.version = req.version /\ Done.mode = req.mode
        /\ Done.executor = req.executor /\ Done.group = req.group
    BY DEF Done, Request
  <2>3. QED
    BY <1>2, <2>1, <2>2
<1>10. CASE Confirming
  <2> DEFINE patch == [req EXCEPT !.confirmed = TRUE, !.returned = FALSE]
  <2>1. /\ ConfirmTarget \in Status /\ Commit(ConfirmTarget, patch)
        /\ KeepAssignments /\ UNCHANGED onShift /\ Canon(req) \notin Terminal
    BY <1>10 DEF Confirming, ConfirmTarget, MoveTo, Terminal, Status
  <2>2. /\ patch \in Request /\ patch.version = req.version /\ patch.mode = req.mode
        /\ patch.executor = req.executor /\ patch.group = req.group
    BY DEF Request
  <2>3. QED
    BY <1>2, <2>1, <2>2
<1>11. CASE Reopening
  <2>1. /\ Commit("IN_PROGRESS", Reopened) /\ KeepAssignments /\ UNCHANGED onShift
        /\ Canon(req) \notin Terminal
    BY <1>11 DEF Reopening, MoveTo, Terminal
  <2>2. /\ Reopened \in Request /\ Reopened.version = req.version /\ Reopened.mode = req.mode
        /\ Reopened.executor = req.executor /\ Reopened.group = req.group
    BY DEF Reopened, Request
  <2>3. QED
    BY <1>2, <2>1, <2>2 DEF Status
<1>12. CASE Returning
  <2> DEFINE patch == [req EXCEPT !.returned = TRUE, !.confirmed = FALSE]
  <2>1. /\ Commit("RETURNED", patch) /\ KeepAssignments /\ UNCHANGED onShift
        /\ Canon(req) \notin Terminal
    BY <1>12 DEF Returning, MoveTo, Terminal
  <2>2. /\ patch \in Request /\ patch.version = req.version /\ patch.mode = req.mode
        /\ patch.executor = req.executor /\ patch.group = req.group
    BY DEF Request
  <2>3. QED
    BY <1>2, <2>1, <2>2 DEF Status
<1>13. QED
  BY <1>4, <1>5, <1>6, <1>7, <1>8, <1>9, <1>10, <1>11, <1>12 DEF Shape

-----------------------------------------------------------------------------
(* The announcements.                                                       *)

\* No announcement is numbered past the version of the row.
Versioned == \A i \in 1..Len(outbox) : outbox[i].version <= req.version

Control == ConfirmationIsFresh /\ StaffReportNeverAtResident /\ RatingOnlyWhenAccepted

\* After a legal step the status read through the flags is the one the command
\* went to, and the control invariants hold again.
LEMMA ControlKept ==
    ASSUME TypeOK, Control, NEW to \in Status, NEW confirmed \in BOOLEAN,
           NEW returned \in BOOLEAN, Effect(to, confirmed, returned),
           Legal(to, confirmed, returned)
    PROVE  /\ Control'
           /\ rated' \in BOOLEAN
           /\ Canon(req') = to
<1>1. /\ req'.status = to /\ req'.confirmed = confirmed /\ req'.returned = returned
      /\ req'.mode = req.mode
  BY DEF Effect
<1>2. Canon(req') = to
  <2>1. confirmed => to # "EXECUTED"
    BY DEF Legal
  <2>2. returned => to # "COMPLETED"
    BY DEF Legal
  <2>3. QED
    BY <1>1, <2>1, <2>2 DEF Canon, Status
<1>3. ConfirmationIsFresh'
  BY <1>1, <1>2 DEF ConfirmationIsFresh, Legal
<1>4. Canon(req) \notin Terminal
  BY DEF Legal, CanonEdge, WorkEdge, Terminal
<1>5. ~rated
  <2>1. rated => Canon(req) = "APPROVED"
    BY CanonOfRequest DEF Control, RatingOnlyWhenAccepted, TypeOK, Terminal
  <2>2. QED
    BY <1>4, <2>1 DEF Terminal
<1>6. rated' \in BOOLEAN /\ (rated' => to = "APPROVED" /\ req.mode # "manager")
  <2>1. rated' = rated \/ (rated' = TRUE /\ to = "APPROVED" /\ req.mode # "manager")
    BY DEF Legal
  <2>2. rated = FALSE
    BY <1>5 DEF TypeOK
  <2>3. QED
    BY <2>1, <2>2
<1>7. StaffReportNeverAtResident'
  BY <1>1, <1>2, <1>6 DEF StaffReportNeverAtResident, Control, Legal
<1>8. RatingOnlyWhenAccepted'
  BY <1>1, <1>6 DEF RatingOnlyWhenAccepted
<1>9. QED
  BY <1>2, <1>3, <1>6, <1>7, <1>8 DEF Control

\* A step that changes the public status changes the stored status too, so its
\* announcement gets a version no earlier one has and is appended.
LEMMA AnnouncedUnderNewVersion ==
    ASSUME TypeOK, Control, Versioned, NEW to \in Status, NEW confirmed \in BOOLEAN,
           NEW returned \in BOOLEAN, Effect(to, confirmed, returned),
           Legal(to, confirmed, returned), PublicStatus(to) # Public(req)
    PROVE  /\ req'.version = req.version + 1
           /\ outbox' = Append(outbox, [old |-> Public(req), new |-> PublicStatus(to),
                                        version |-> req.version + 1])
<1>1. to # req.status
  <2>1. Canon(req) = req.status \/ Canon(req) \in {"COMPLETED", "RETURNED"}
    BY CanonOfRequest DEF TypeOK
  <2>2. CASE Canon(req) = req.status
    BY <2>2 DEF Public, PublicStatus
  <2>3. CASE Canon(req) \in {"COMPLETED", "RETURNED"}
    <3>1. to \in {"IN_PROGRESS", "APPROVED", "CANCELLED"}
      BY <2>3 DEF Legal, CanonEdge, WorkEdge, Status, Terminal, Public, PublicStatus
    <3>2. Canon(req) # req.status => req.status \in {"COMPLETED", "EXECUTED"}
      BY <2>3 DEF Canon
    <3>3. QED
      BY <2>3, <3>1, <3>2
  <2>4. QED
    BY <2>1, <2>2, <2>3
<1>2. req'.version = req.version + 1 /\ req.version \in Nat
  BY <1>1 DEF Effect, TypeOK, Request
<1>3. \A i \in 1..Len(outbox) : outbox[i].version # req.version + 1
  <2>1. outbox \in [1..Len(outbox) -> Change]
    BY DEF TypeOK
  <2>2. \A i \in 1..Len(outbox) : outbox[i].version \in Nat
    BY <2>1 DEF Change
  <2>3. QED
    BY <1>2, <2>2 DEF Versioned
<1>4. QED
  BY <1>2, <1>3 DEF Effect, Enqueue

\* The announcements stay one unbroken history ending in the present status.
LEMMA HistoryKept ==
    ASSUME TypeOK, Control, Versioned, AnnouncementsAreAHistory,
           NEW to \in Status, NEW confirmed \in BOOLEAN, NEW returned \in BOOLEAN,
           Effect(to, confirmed, returned), Legal(to, confirmed, returned)
    PROVE  outbox' \in Seq(Change) /\ Versioned' /\ AnnouncementsAreAHistory'
<1>1. /\ req \in Request /\ req' \in Request /\ Canon(req) \in Status
      /\ req.version \in Nat /\ outbox \in Seq(Change) /\ outbox \in [1..Len(outbox) -> Change]
  BY CanonOfRequest DEF TypeOK, Effect, Request
<1>2. Public(req') = PublicStatus(to)
  BY ControlKept DEF Public
<1>3. req'.version = req.version \/ req'.version = req.version + 1
  BY DEF Effect
<1>4. CASE PublicStatus(to) = Public(req)
  <2>1. outbox' = outbox
    BY <1>4 DEF Effect
  <2>2. Versioned'
    <3>1. \A i \in 1..Len(outbox) : outbox[i].version \in Nat
      BY <1>1 DEF Change
    <3>2. QED
      BY <1>1, <1>3, <2>1, <3>1 DEF Versioned
  <2>3. outbox = <<>> => req'.version = 0 \/ Public(req') = "COMPLETED"
    <3>1. SUFFICES ASSUME outbox = <<>>, Public(req) # "COMPLETED"
                   PROVE  req'.version = 0
      BY <1>2, <1>4
    <3>2. req.version = 0
      BY <3>1 DEF AnnouncementsAreAHistory
    <3>3. Canon(req) = to
      BY <1>4, <3>1 DEF Public, PublicStatus
    <3>4. to = req.status
      BY <1>1, <3>1, <3>3, CanonOfRequest DEF Public, PublicStatus
    <3>5. QED
      BY <3>2, <3>4 DEF Effect
  <2>4. QED
    BY <1>1, <1>2, <1>4, <2>1, <2>2, <2>3 DEF AnnouncementsAreAHistory
<1>5. CASE PublicStatus(to) # Public(req)
  <2> DEFINE change == [old |-> Public(req), new |-> PublicStatus(to),
                        version |-> req.version + 1]
  <2>1. req'.version = req.version + 1 /\ outbox' = Append(outbox, change)
    BY <1>5, AnnouncedUnderNewVersion
  <2>2. change \in Change
    BY <1>1 DEF Change, Public, PublicStatus, Status
  <2>3. /\ change.old = Public(req) /\ change.new = PublicStatus(to)
        /\ change.version = req.version + 1
    OBVIOUS
  <2> HIDE DEF change
  <2>4. /\ outbox' \in Seq(Change) /\ Len(outbox') = Len(outbox) + 1 /\ Len(outbox) \in Nat
        /\ \A i \in 1..Len(outbox) : outbox'[i] = outbox[i]
        /\ outbox'[Len(outbox) + 1] = change
    BY <1>1, <2>1, <2>2
  <2>5. Versioned'
    <3>1. \A i \in 1..Len(outbox) : outbox[i].version \in Nat
      BY <1>1 DEF Change
    <3>2. QED
      BY <1>1, <2>1, <2>3, <2>4, <3>1 DEF Versioned
  <2>6. AnnouncementsAreAHistory'
    <3>1. outbox' # <<>>
      BY <2>4
    <3>2. outbox'[Len(outbox')].new = Public(req')
      BY <1>2, <2>3, <2>4
    <3>3. \A i \in 1..Len(outbox') - 1 : outbox'[i].new = outbox'[i + 1].old
      <4>1. SUFFICES ASSUME NEW i \in 1..Len(outbox)
                     PROVE  outbox'[i].new = outbox'[i + 1].old
        BY <2>4
      <4>2. CASE i < Len(outbox)
        BY <2>4, <4>2 DEF AnnouncementsAreAHistory
      <4>3. CASE i = Len(outbox)
        BY <1>1, <2>3, <2>4, <4>3 DEF AnnouncementsAreAHistory
      <4>4. QED
        BY <2>4, <4>2, <4>3
    <3>4. QED
      BY <3>1, <3>2, <3>3 DEF AnnouncementsAreAHistory
  <2>7. QED
    BY <2>4, <2>5, <2>6
<1>6. QED
  BY <1>4, <1>5

-----------------------------------------------------------------------------
(* The inductive invariant and the theorems.                                *)

IInv ==
    /\ TypeOK
    /\ Control
    /\ InProgressHasExecutor
    /\ RequestMirrorsAssignment
    /\ RowsNumbered
    /\ Versioned
    /\ AnnouncementsAreAHistory

LEMMA InvariantInit ==
    ASSUME Init PROVE IInv
<1> USE DEF Init
<1>1. PICK e \in Executor, m \in {"resident", "manager"} :
        \/ /\ req = NewRequest(m) /\ active = NoAssignment /\ rows = 0
        \/ /\ e \in Users
           /\ req \in {LegacyReturned(e), LegacyConfirmed(e)}
           /\ active = [type |-> "individual", executor |-> e, group |-> NoGroup, row |-> 1]
           /\ rows = 1
  BY DEF Executor
<1>2. /\ rated = FALSE /\ rated \in BOOLEAN /\ onShift \subseteq Users
      /\ outbox = <<>> /\ outbox \in Seq(Change) /\ Len(outbox) = 0
      /\ rows \in 0..MaxRows
  <2>1. rows = 0 \/ rows = 1
    OBVIOUS
  <2>2. rated = FALSE /\ onShift = {} /\ outbox = <<>>
    OBVIOUS
  <2> HIDE DEF Init
  <2>3. rows \in 0..MaxRows
    BY <2>1
  <2>4. rated \in BOOLEAN
    BY <2>2
  <2>5. outbox \in Seq(Change) /\ Len(outbox) = 0
    BY <2>2
  <2>6. onShift \subseteq Users
    BY <2>2
  <2>7. QED
    BY <2>2, <2>3, <2>4, <2>5, <2>6, Zenon
<1> HIDE DEF Init
<1>3. CASE req = NewRequest(m) /\ active = NoAssignment /\ rows = 0
  <2>1. req \in Request /\ active \in Assignment
    BY <1>3 DEF NewRequest, NoAssignment, Request, Assignment, Executor, Group, Status
  <2>2. /\ req.status = "NEW" /\ req.executor = NoUser /\ req.group = NoGroup
        /\ req.confirmed = FALSE /\ req.version = 0 /\ Canon(req) = "NEW"
    BY <1>3 DEF NewRequest, Canon
  <2>3. /\ active.type = "none" /\ active.executor = NoUser /\ active.row = 0
    BY <1>3 DEF NoAssignment
  <2>4. TypeOK
    BY <1>2, <2>1 DEF TypeOK
  <2>5. Control
    BY <1>2, <2>2 DEF Control, ConfirmationIsFresh, StaffReportNeverAtResident,
          RatingOnlyWhenAccepted
  <2>6. InProgressHasExecutor /\ RequestMirrorsAssignment /\ RowsNumbered
    BY <1>3, <2>2, <2>3 DEF InProgressHasExecutor, RequestMirrorsAssignment, RowsNumbered
  <2>7. Versioned /\ AnnouncementsAreAHistory
    BY <1>2, <2>2 DEF Versioned, AnnouncementsAreAHistory
  <2>8. QED
    BY <2>4, <2>5, <2>6, <2>7 DEF IInv
<1>4. CASE /\ e \in Users
           /\ req \in {LegacyReturned(e), LegacyConfirmed(e)}
           /\ active = [type |-> "individual", executor |-> e, group |-> NoGroup, row |-> 1]
           /\ rows = 1
  <2> DEFINE Read ==
        /\ req \in Request /\ req.status \in {"COMPLETED", "EXECUTED"}
        /\ req.executor = e /\ req.group = NoGroup
        /\ req.mode = "resident" /\ req.version = 0
        /\ req.confirmed => Canon(req) = "COMPLETED"
  <2>1. active \in Assignment
    BY <1>4 DEF Assignment, Executor, Group
  <2>2. ASSUME req = LegacyReturned(e) PROVE Read
    <3>1. req \in Request
      BY <1>4, <2>2 DEF NewRequest, LegacyReturned, Request, Executor, Group, Status
    <3>2. /\ req.status = "COMPLETED" /\ req.returned = TRUE /\ req.confirmed = FALSE
          /\ req.executor = e /\ req.group = NoGroup /\ req.mode = "resident" /\ req.version = 0
      BY <2>2 DEF NewRequest, LegacyReturned
    <3>3. QED
      BY <3>1, <3>2 DEF Canon
  <2>3. ASSUME req = LegacyConfirmed(e) PROVE Read
    <3>1. req \in Request
      BY <1>4, <2>3 DEF NewRequest, LegacyConfirmed, Request, Executor, Group, Status
    <3>2. /\ req.status = "EXECUTED" /\ req.returned = FALSE /\ req.confirmed = TRUE
          /\ req.executor = e /\ req.group = NoGroup /\ req.mode = "resident" /\ req.version = 0
      BY <2>3 DEF NewRequest, LegacyConfirmed
    <3>3. QED
      BY <3>1, <3>2 DEF Canon
  <2>4. Read
    BY <1>4, <2>2, <2>3
  <2>5. /\ active.type = "individual" /\ active.executor = e /\ active.row = 1 /\ e # NoUser
    BY <1>4
  <2>6. TypeOK
    BY <1>2, <2>1, <2>4 DEF TypeOK
  <2>7. Control
    BY <1>2, <2>4 DEF Control, ConfirmationIsFresh, StaffReportNeverAtResident,
          RatingOnlyWhenAccepted
  <2>8. InProgressHasExecutor /\ RequestMirrorsAssignment /\ RowsNumbered
    BY <1>4, <2>4, <2>5 DEF InProgressHasExecutor, RequestMirrorsAssignment, RowsNumbered
  <2>9. Versioned /\ AnnouncementsAreAHistory
    BY <1>2, <2>4 DEF Versioned, AnnouncementsAreAHistory
  <2>10. QED
    BY <2>6, <2>7, <2>8, <2>9 DEF IInv
<1>5. QED
  BY <1>1, <1>3, <1>4

LEMMA InvariantStep ==
    ASSUME IInv, [Next]_vars PROVE IInv'
<1> USE DEF IInv
<1>1. CASE CommandStep
  <2>1. Shape
    BY <1>1, StepShapes
  <2>2. PICK to \in Status, confirmed \in BOOLEAN, returned \in BOOLEAN :
            Effect(to, confirmed, returned) /\ Legal(to, confirmed, returned)
    BY <2>1, ControlSteps DEF Control
  <2>3. Control' /\ rated' \in BOOLEAN /\ req' \in Request
    BY <2>2, ControlKept DEF Effect
  <2>4. outbox' \in Seq(Change) /\ Versioned' /\ AnnouncementsAreAHistory'
    BY <2>2, HistoryKept
  <2>5. /\ active' \in Assignment /\ rows' \in 0..MaxRows /\ onShift' \subseteq Users
        /\ InProgressHasExecutor' /\ RequestMirrorsAssignment' /\ RowsNumbered'
    BY <2>1, MirrorSteps
  <2>6. QED
    BY <2>3, <2>4, <2>5 DEF TypeOK
<1>2. CASE \E u \in Users : ShiftChange(u)
  <2>1. UNCHANGED <<req, active, rows, rated, outbox>> /\ onShift' \subseteq Users
    BY <1>2 DEF ShiftChange, TypeOK
  <2>2. QED
    BY <2>1 DEF TypeOK, Control, ConfirmationIsFresh, StaffReportNeverAtResident,
          RatingOnlyWhenAccepted, InProgressHasExecutor, RequestMirrorsAssignment,
          RowsNumbered, Versioned, AnnouncementsAreAHistory
<1>3. CASE UNCHANGED vars
  BY <1>3 DEF vars, TypeOK, Control, ConfirmationIsFresh, StaffReportNeverAtResident,
        RatingOnlyWhenAccepted, InProgressHasExecutor, RequestMirrorsAssignment,
        RowsNumbered, Versioned, AnnouncementsAreAHistory
<1>4. QED
  BY <1>1, <1>2, <1>3 DEF Next

LEMMA Inductive == Spec => []IInv
<1>1. Init => IInv
  BY InvariantInit
<1>2. IInv /\ [Next]_vars => IInv'
  BY InvariantStep
<1>3. QED
  BY <1>1, <1>2, PTL DEF Spec

\* Every variable keeps its type.
THEOREM TypeCorrect == Spec => []TypeOK
BY Inductive, PTL DEF IInv

\* A request in progress has an executor.
THEOREM AlwaysStaffed == Spec => []InProgressHasExecutor
BY Inductive, PTL DEF IInv

\* The row and its active assignment tell the same story.
THEOREM AlwaysMirrored == Spec => []RequestMirrorsAssignment
BY Inductive, PTL DEF IInv

\* No confirmation outlives the round of work it confirms.
THEOREM AlwaysFresh == Spec => []ConfirmationIsFresh
BY Inductive, PTL DEF IInv, Control

\* A staff report never waits for a resident.
THEOREM StaffReportsSettled == Spec => []StaffReportNeverAtResident
BY Inductive, PTL DEF IInv, Control

\* A rating belongs to an accepted request.
THEOREM RatingsEarned == Spec => []RatingOnlyWhenAccepted
BY Inductive, PTL DEF IInv, Control

\* The announcements form one unbroken history of the public status.
THEOREM HistoryUnbroken == Spec => []AnnouncementsAreAHistory
BY Inductive, PTL DEF IInv

\* No step changes anything about a closed request.
THEOREM ClosedForGood == Spec => TerminalIsFinal
<1>1. IInv /\ [Next]_vars =>
        [Canon(req) \in Terminal => UNCHANGED <<req, active, rated, outbox>>]_vars
  <2> SUFFICES ASSUME IInv, Next, Canon(req) \in Terminal
               PROVE  UNCHANGED <<req, active, rated, outbox>>
    BY DEF vars
  <2>1. ~CommandStep
    <3>1. SUFFICES ASSUME CommandStep PROVE FALSE
      OBVIOUS
    <3>2. Shape
      BY <3>1, StepShapes
    <3>3. \E to \in Status, confirmed \in BOOLEAN, returned \in BOOLEAN :
             Effect(to, confirmed, returned) /\ Legal(to, confirmed, returned)
      BY <3>2, ControlSteps DEF IInv, Control
    <3>4. QED
      BY <3>3 DEF Legal, CanonEdge, WorkEdge, Terminal
  <2>2. QED
    BY <2>1 DEF Next, ShiftChange
<1>2. QED
  BY <1>1, Inductive, PTL DEF Spec, TerminalIsFinal

\* Nobody's assignment row is handed to somebody else.
THEOREM NobodyRobbed == Spec => HolderIsNeverRobbed
<1>1. IInv /\ [Next]_vars =>
        [active.executor # NoUser /\ active'.row = active.row
            => active'.executor = active.executor]_vars
  <2> SUFFICES ASSUME IInv, Next, active.executor # NoUser, active'.row = active.row
               PROVE  active'.executor = active.executor
    BY DEF vars
  <2>1. CASE CommandStep
    BY <2>1, StepShapes, MirrorSteps DEF IInv
  <2>2. CASE \E u \in Users : ShiftChange(u)
    BY <2>2 DEF ShiftChange
  <2>3. QED
    BY <2>1, <2>2 DEF Next
<1>2. QED
  BY <1>1, Inductive, PTL DEF Spec, HolderIsNeverRobbed

-----------------------------------------------------------------------------
(* The kernel implements the public life cycle.                             *)

Feed == [i \in 1..Len(outbox) |-> <<outbox[i].old, outbox[i].new>>]

\* Announcing one more change makes the feed one move longer.
LEMMA FeedGrows ==
    ASSUME NEW s \in Seq(Change), NEW c \in Change
    PROVE  [i \in 1..Len(Append(s, c)) |-> <<Append(s, c)[i].old, Append(s, c)[i].new>>]
             = Append([i \in 1..Len(s) |-> <<s[i].old, s[i].new>>], <<c.old, c.new>>)
<1> DEFINE t == Append(s, c)
           after == [i \in 1..Len(t) |-> <<t[i].old, t[i].new>>]
           before == [i \in 1..Len(s) |-> <<s[i].old, s[i].new>>]
           move == <<c.old, c.new>>
<1>1. /\ t \in Seq(Change) /\ Len(t) = Len(s) + 1 /\ Len(s) \in Nat
      /\ t[Len(s) + 1] = c /\ \A i \in 1..Len(s) : t[i] = s[i]
  OBVIOUS
<1>2. \A d \in Change : <<d.old, d.new>> \in Status \X Status
  BY DEF Change
<1>3. move \in Status \X Status
  BY <1>2
<1>4. before \in Seq(Status \X Status) /\ Len(before) = Len(s)
  <2>1. \A i \in 1..Len(s) : s[i] \in Change
    OBVIOUS
  <2>2. QED
    BY <1>1, <1>2, <2>1
<1>5. after \in Seq(Status \X Status) /\ Len(after) = Len(s) + 1
  <2>1. \A i \in 1..Len(t) : t[i] \in Change
    BY <1>1
  <2>2. Len(t) \in Nat
    BY <1>1
  <2> HIDE DEF t
  <2>3. QED
    BY <1>1, <1>2, <2>1, <2>2
<1>6. \A i \in 1..Len(s) + 1 : after[i] = Append(before, move)[i]
  <2>1. /\ \A i \in 1..Len(s) : Append(before, move)[i] = before[i]
        /\ Append(before, move)[Len(s) + 1] = move
    <3> HIDE DEF before, move
    <3>1. QED
      BY <1>3, <1>4
  <2> HIDE DEF t
  <2>2. \A i \in 1..Len(s) + 1 : after[i] = <<t[i].old, t[i].new>>
    BY <1>1
  <2>3. \A i \in 1..Len(s) + 1 : i \in 1..Len(s) \/ i = Len(s) + 1
    BY <1>1
  <2>4. QED
    BY <1>1, <2>1, <2>2, <2>3
<1>7. Append(before, move) \in Seq(Status \X Status) /\ Len(Append(before, move)) = Len(s) + 1
  <2> HIDE DEF before, move
  <2>1. QED
    BY <1>3, <1>4
<1> HIDE DEF after, before, move
<1>8. after = Append(before, move)
  BY <1>5, <1>6, <1>7, SeqEqual
<1>9. QED
  BY <1>8 DEF after, before, move

\* A canonical edge shows outside as one edge of the public life cycle.
LEMMA EdgesProject ==
    ASSUME NEW from \in Status, NEW to \in Status, <<from, to>> \in CanonEdge,
           PublicStatus(from) # PublicStatus(to)
    PROVE  /\ <<PublicStatus(from), PublicStatus(to)>> \in L!Edge
           /\ PublicStatus(to) \in {"IN_PROGRESS", "PURCHASE", "CLARIFICATION", "EXECUTED",
                                    "COMPLETED", "APPROVED", "CANCELLED"}
BY DEF CanonEdge, WorkEdge, L!Edge, PublicStatus, Status, Terminal

\* Each command is one public move, announced as it happens, or is invisible.
LEMMA StepRefines == ASSUME IInv, [Next]_vars PROVE [L!Moves]_(L!lifecycleVars)
<1> USE DEF IInv
<1>1. CASE CommandStep
  <2>1. Shape
    BY <1>1, StepShapes
  <2>2. PICK to \in Status, confirmed \in BOOLEAN, returned \in BOOLEAN :
            Effect(to, confirmed, returned) /\ Legal(to, confirmed, returned)
    BY <2>1, ControlSteps DEF Control
  <2>3. Public(req') = PublicStatus(to)
    BY <2>2, ControlKept DEF Public
  <2>4. CASE PublicStatus(to) = Public(req)
    BY <2>2, <2>3, <2>4 DEF Effect, L!lifecycleVars
  <2>5. CASE PublicStatus(to) # Public(req)
    <3> DEFINE change == [old |-> Public(req), new |-> PublicStatus(to),
                          version |-> req.version + 1]
    <3>1. outbox' = Append(outbox, change) /\ outbox \in Seq(Change)
      BY <2>2, <2>5, AnnouncedUnderNewVersion DEF TypeOK
    <3>2. change \in Change
      BY <2>2, CanonOfRequest DEF TypeOK, Request, Change, Public, PublicStatus, Status
    <3>3. <<change.old, change.new>> = <<Public(req), PublicStatus(to)>>
      OBVIOUS
    <3> HIDE DEF change
    <3>4. Feed' = Append(Feed, <<Public(req), PublicStatus(to)>>)
      BY <3>1, <3>2, <3>3, FeedGrows DEF Feed
    <3>5. /\ <<Public(req), PublicStatus(to)>> \in L!Edge
          /\ PublicStatus(to) \in {"IN_PROGRESS", "PURCHASE", "CLARIFICATION", "EXECUTED",
                                   "COMPLETED", "APPROVED", "CANCELLED"}
      BY <2>2, <2>5, CanonOfRequest, EdgesProject DEF Public, Legal, TypeOK
    <3>6. L!Move(PublicStatus(to))
      BY <2>3, <3>4, <3>5 DEF L!Move, Feed
    <3>7. QED
      BY <3>5, <3>6 DEF L!Moves
  <2>6. QED
    BY <2>4, <2>5
<1>2. CASE (\E u \in Users : ShiftChange(u)) \/ UNCHANGED vars
  BY <1>2 DEF ShiftChange, vars, L!lifecycleVars
<1>3. QED
  BY <1>1, <1>2 DEF Next

\* The kernel implements the public life cycle: what the outside sees moves
\* along the public edges, and every move is announced once, in order.
THEOREM ImplementsLifecycle == Spec => PublicLifecycle
<1>1. Init => L!Start
  <2>1. SUFFICES ASSUME Init PROVE L!Start
    OBVIOUS
  <2>2. Public(req) \in {"NEW", "COMPLETED"}
    <3>1. PICK e \in Executor, m \in {"resident", "manager"} :
            req \in {NewRequest(m), LegacyReturned(e), LegacyConfirmed(e)}
      BY <2>1 DEF Init, Executor
    <3>2. Canon(req) \in {"NEW", "COMPLETED", "RETURNED"}
      <4>1. CASE req = NewRequest(m)
        BY <4>1 DEF NewRequest, Canon
      <4>2. CASE req = LegacyReturned(e)
        BY <4>2 DEF NewRequest, LegacyReturned, Canon
      <4>3. CASE req = LegacyConfirmed(e)
        BY <4>3 DEF NewRequest, LegacyConfirmed, Canon
      <4>4. QED
        BY <3>1, <4>1, <4>2, <4>3
    <3>3. QED
      BY <3>2 DEF Public, PublicStatus
  <2>3. outbox = <<>>
    BY <2>1 DEF Init
  <2>4. QED
    BY <2>2, <2>3 DEF L!Start
<1>2. IInv /\ [Next]_vars => [L!Moves]_(L!lifecycleVars)
  BY StepRefines
<1>3. QED
  BY <1>1, <1>2, Inductive, PTL DEF Spec, PublicLifecycle, L!Lifecycle
-----------------------------------------------------------------------------
\* The actions a legacy client can mean by a status.
LEMMA MeantBy ==
    ASSUME NEW a \in Action \ (SystemOnly \cup ResolveExcluded)
    PROVE  /\ Target[a] = "NEW" => a = "ASSIGN_GROUP"
           /\ Target[a] = "IN_PROGRESS" => a \in {"MANAGER_ASSIGN", "MANAGER_PURCHASE_DONE", "CLARIFY_RESOLVED",
                                                  "EXECUTOR_RESUME", "MANAGER_RETURN_TO_WORK"}
           /\ Target[a] = "PURCHASE" => a \in {"EXECUTOR_PURCHASE", "MANAGER_PURCHASE"}
           /\ Target[a] = "CLARIFICATION" => a = "CLARIFY_REQUEST"
           /\ Target[a] = "EXECUTED" => a \in {"EXECUTOR_COMPLETE", "MANAGER_COMPLETE"}
           /\ Target[a] = "COMPLETED" => a = "MANAGER_CONFIRM"
           /\ Target[a] = "RETURNED" => a = "APPLICANT_RETURN"
           /\ Target[a] = "APPROVED" => a \in {"APPLICANT_ACCEPT", "MANAGER_FORCE_ACCEPT"}
           /\ Target[a] = "CANCELLED" => a = "CANCEL"
BY DEF Action, From, Target, SystemOnly, ResolveExcluded

\* Two of them with one target either start from different statuses or have different
\* priorities: the executor's own action comes before the manager's.
LEMMA NoTie ==
    ASSUME NEW a \in Action \ (SystemOnly \cup ResolveExcluded), NEW b \in Action \ (SystemOnly \cup ResolveExcluded),
           Target[a] = Target[b], Priority(a) = Priority(b), NEW from, from \in From[a], from \in From[b]
    PROVE  a = b
<1>1. Target[a] \in Status
  BY DEF Action, From, Target, Status
<1>2. CASE Target[a] = "IN_PROGRESS"
  <2>1. /\ From["MANAGER_ASSIGN"] = {"NEW", "IN_PROGRESS"} /\ From["MANAGER_PURCHASE_DONE"] = {"PURCHASE"}
        /\ From["CLARIFY_RESOLVED"] = {"CLARIFICATION"}
        /\ From["MANAGER_RETURN_TO_WORK"] = {"EXECUTED", "RETURNED", "COMPLETED"}
    BY DEF From
  <2>2. /\ Priority("EXECUTOR_RESUME") = 0
        /\ \A c \in {"MANAGER_ASSIGN", "MANAGER_PURCHASE_DONE", "CLARIFY_RESOLVED", "MANAGER_RETURN_TO_WORK"} :
              Priority(c) = 1
    BY DEF Priority, ManagerActions
  <2>3. /\ a \in {"MANAGER_ASSIGN", "MANAGER_PURCHASE_DONE", "CLARIFY_RESOLVED", "EXECUTOR_RESUME",
                  "MANAGER_RETURN_TO_WORK"}
        /\ b \in {"MANAGER_ASSIGN", "MANAGER_PURCHASE_DONE", "CLARIFY_RESOLVED", "EXECUTOR_RESUME",
                  "MANAGER_RETURN_TO_WORK"}
    BY <1>2, MeantBy
  <2>4. CASE a = "EXECUTOR_RESUME" \/ b = "EXECUTOR_RESUME"
    BY <2>2, <2>3, <2>4
  <2>5. CASE a # "EXECUTOR_RESUME" /\ b # "EXECUTOR_RESUME"
    BY <2>1, <2>3, <2>5
  <2>6. QED
    BY <2>4, <2>5
<1>3. CASE Target[a] \in {"PURCHASE", "EXECUTED", "APPROVED"}
  <2>1. /\ Priority("EXECUTOR_PURCHASE") = 0 /\ Priority("MANAGER_PURCHASE") = 1
        /\ Priority("EXECUTOR_COMPLETE") = 0 /\ Priority("MANAGER_COMPLETE") = 1
        /\ Priority("APPLICANT_ACCEPT") = 0 /\ Priority("MANAGER_FORCE_ACCEPT") = 2
    BY DEF Priority, ManagerActions
  <2>2. QED
    BY <1>3, <2>1, MeantBy
<1>4. CASE Target[a] \in {"NEW", "CLARIFICATION", "COMPLETED", "RETURNED", "CANCELLED"}
  BY <1>4, MeantBy
<1>5. QED
  BY <1>1, <1>2, <1>3, <1>4 DEF Status

\* resolve_command: whoever asks, in whatever state, a status means one action at most, so
\* that the order in which the set of candidates is iterated never matters.
THEOREM OneMeaning == Spec => []ResolutionUnambiguous
<1>1. ResolutionUnambiguous
  <2> SUFFICES ASSUME NEW u \in Users, NEW target \in Status, NEW hasRating \in BOOLEAN
               PROVE  Cardinality(ResolveCommand(u, target, hasRating)) <= 1
    BY DEF ResolutionUnambiguous
  <2> DEFINE A == ResolveCommand(u, target, hasRating)
  <2>1. ASSUME NEW a \in A, NEW b \in A PROVE a = b
    <3>1. /\ a \in Action \ (SystemOnly \cup ResolveExcluded) /\ b \in Action \ (SystemOnly \cup ResolveExcluded)
          /\ Target[a] = target /\ Target[b] = target
          /\ Canon(req) \in From[a] /\ Canon(req) \in From[b]
      BY DEF ResolveCommand, Candidates, Allowed
    <3>2. Priority(a) <= Priority(b) /\ Priority(b) <= Priority(a)
      BY DEF ResolveCommand
    <3>3. Priority(a) = Priority(b)
      BY <3>2 DEF Priority
    <3>4. QED
      BY <3>1, <3>3, NoTie
  <2> HIDE DEF A
  <2>2. A = {} \/ \E a \in A : A = {a}
    BY <2>1
  <2>3. Cardinality({}) = 0 /\ \A a \in A : Cardinality({a}) = 1
    BY FS_EmptySet, FS_Singleton
  <2>4. Cardinality(A) <= 1
    BY <2>2, <2>3
  <2>5. QED
    BY <2>4 DEF A
<1>2. QED
  BY <1>1, PTL
-----------------------------------------------------------------------------
(* The writers that do not take the row lock, interleaved with the commands. *)

DutySession ==
    [phase : {"idle", "loaded", "checked", "planned"}, status : Status, executor : Executor,
     group : Group, to : Group, row : Nat]
TransferSession ==
    [phase : {"idle", "loaded", "planned"}, executor : Executor, row : Nat, holder : Executor, to : Executor]

SessionsTyped ==
    /\ duty \in DutySession
    /\ transfer \in TransferSession
    /\ transfer.phase # "idle" => transfer.to # NoUser

\* What holds of the request and its announcements whichever writers run: they leave alone
\* everything this is about.
Announced == TypeOK /\ Control /\ Versioned /\ AnnouncementsAreAHistory

\* As long as no row is cancelled behind the back of a request that goes on, a request
\* without an active row has no executor that a session could have loaded; a session that
\* passed the check for an active row with an executor in its copy is about a cancelled one.
NothingLoaded ==
    /\ active.type = "none" =>
          \/ req.status = "CANCELLED"
          \/ req.executor = NoUser /\ duty.executor = NoUser /\ transfer.phase = "idle"
    /\ duty.phase \in {"checked", "planned"} /\ duty.executor # NoUser => req.status = "CANCELLED"

WritersInv ==
    /\ Announced /\ SessionsTyped
    /\ InProgressHasExecutor
    /\ "duty" \notin Writers => duty.phase = "idle"
    /\ "sync" \notin Writers => NothingLoaded

ApartInv == Announced /\ SessionsTyped

\* A commit that keeps the assignment, one that creates a row, one that takes the one there
\* is, and a cancellation: no other leaves a request without an active row.
LEMMA CommitShapes ==
    ASSUME TypeOK, Shape
    PROVE  /\ active' \in Assignment /\ rows' \in 0..MaxRows /\ onShift' \subseteq Users
           /\ InProgressHasExecutor'
           /\ req.status # "CANCELLED"
           /\ active'.type = "none" =>
                 req'.status = "CANCELLED" \/ (active.type = "none" /\ req'.executor = req.executor)
<1> USE DEF TypeOK
<1> DEFINE Goal ==
        /\ active' \in Assignment /\ rows' \in 0..MaxRows /\ onShift' \subseteq Users
        /\ InProgressHasExecutor'
        /\ req.status # "CANCELLED"
        /\ active'.type = "none" =>
              req'.status = "CANCELLED" \/ (active.type = "none" /\ req'.executor = req.executor)
<1>1. req \in Request
  OBVIOUS
<1>2. Canon(req) \notin Terminal => req.status # "CANCELLED"
  BY <1>1, CanonOfRequest DEF Terminal
<1>3. ASSUME NEW to \in Status, NEW patch \in Request,
             patch.version = req.version, patch.mode = req.mode, patch.executor = req.executor,
             Canon(req) \notin Terminal, Commit(to, patch), KeepAssignments, UNCHANGED onShift
      PROVE  Goal
  <2>1. /\ req'.status = to /\ req'.executor = req.executor
        /\ to = "IN_PROGRESS" => req'.executor # NoUser
    BY <1>1, <1>3, CommitEffect DEF Effect
  <2>2. QED
    BY <1>2, <1>3, <2>1 DEF KeepAssignments, InProgressHasExecutor
<1>4. ASSUME NEW e \in Users, Canon(req) \in {"NEW", "IN_PROGRESS"},
             Commit("IN_PROGRESS", [req EXCEPT !.executor = e, !.group = NoGroup]), UNCHANGED onShift,
             active' \in Assignment, active'.type = "individual", rows' \in 0..MaxRows
      PROVE  Goal
  <2> DEFINE patch == [req EXCEPT !.executor = e, !.group = NoGroup]
  <2>1. patch \in Request /\ patch.version = req.version /\ patch.mode = req.mode
    BY DEF Request, Executor, Group
  <2>2. req'.status = "IN_PROGRESS" /\ req'.executor # NoUser
    BY <1>1, <1>4, <2>1, CommitEffect DEF Effect, Status
  <2>3. QED
    BY <1>2, <1>4, <2>2 DEF InProgressHasExecutor, Terminal
<1>5. CASE Assigning
  <2>1. PICK e \in Users : Canon(req) \in {"NEW", "IN_PROGRESS"} /\ AssignTo(e)
    BY <1>5 DEF Assigning
  <2>2. active' \in Assignment /\ active'.type = "individual" /\ rows' \in 0..MaxRows
    BY <2>1 DEF AssignTo, CreateAssignment, Assignment, Executor, Group
  <2>3. QED
    BY <1>4, <2>1, <2>2 DEF AssignTo
<1>6. CASE Taking
  <2>1. PICK e \in Users : Canon(req) \in {"NEW", "IN_PROGRESS"} /\ TakeFromPool(e)
    BY <1>6 DEF Taking
  <2>2. active' \in Assignment /\ active'.type = "individual" /\ rows' \in 0..MaxRows
    BY <2>1 DEF TakeFromPool, ConvertAssignment, Assignment, Executor, Group
  <2>3. QED
    BY <1>4, <2>1, <2>2 DEF TakeFromPool
<1>7. CASE Addressing
  <2>1. PICK g \in Groups : Canon(req) = "NEW" /\ AddressTo(g)
    BY <1>7 DEF Addressing
  <2> DEFINE patch == [req EXCEPT !.executor = NoUser, !.group = g]
  <2>2. patch \in Request /\ patch.version = req.version /\ patch.mode = req.mode
    BY DEF Request, Executor, Group
  <2>3. req'.status = "NEW"
    BY <1>1, <2>1, <2>2, CommitEffect DEF AddressTo, Effect, Status
  <2>4. active' \in Assignment /\ active'.type = "group" /\ rows' \in 0..MaxRows /\ UNCHANGED onShift
    BY <2>1 DEF AddressTo, CreateAssignment, Assignment, Executor, Group
  <2>5. QED
    BY <1>2, <2>1, <2>3, <2>4 DEF InProgressHasExecutor, Terminal
<1>8. CASE Cancelling
  <2>1. req'.status = "CANCELLED"
    BY <1>1, <1>8, CommitEffect DEF Cancelling, Status, Effect
  <2>2. active' = NoAssignment /\ rows' = rows /\ onShift' = onShift
    BY <1>8 DEF Cancelling, CancelAssignments
  <2>3. NoAssignment \in Assignment
    BY DEF NoAssignment, Assignment, Executor, Group
  <2>4. QED
    BY <1>2, <1>8, <2>1, <2>2, <2>3 DEF InProgressHasExecutor, Cancelling
<1>9. CASE Working \/ Accepting
  <2>1. PICK to \in Status : /\ Commit(to, req) /\ KeepAssignments /\ UNCHANGED onShift
                            /\ Canon(req) \notin Terminal
    BY <1>9 DEF Working, WorkEdge, Accepting, MoveTo, Terminal, Status
  <2>2. QED
    BY <1>1, <1>3, <2>1
<1>10. CASE Completing \/ Forcing
  <2>1. PICK to \in Status : /\ Commit(to, Done) /\ KeepAssignments /\ UNCHANGED onShift
                            /\ Canon(req) \notin Terminal
    BY <1>10 DEF Completing, Forcing, MoveTo, Terminal, Status
  <2>2. /\ Done \in Request /\ Done.version = req.version /\ Done.mode = req.mode
        /\ Done.executor = req.executor
    BY DEF Done, Request
  <2>3. QED
    BY <1>3, <2>1, <2>2
<1>11. CASE Confirming
  <2> DEFINE patch == [req EXCEPT !.confirmed = TRUE, !.returned = FALSE]
  <2>1. /\ ConfirmTarget \in Status /\ Commit(ConfirmTarget, patch)
        /\ KeepAssignments /\ UNCHANGED onShift /\ Canon(req) \notin Terminal
    BY <1>11 DEF Confirming, ConfirmTarget, MoveTo, Terminal, Status
  <2>2. /\ patch \in Request /\ patch.version = req.version /\ patch.mode = req.mode
        /\ patch.executor = req.executor
    BY DEF Request
  <2>3. QED
    BY <1>3, <2>1, <2>2
<1>12. CASE Reopening
  <2>1. /\ Commit("IN_PROGRESS", Reopened) /\ KeepAssignments /\ UNCHANGED onShift
        /\ Canon(req) \notin Terminal
    BY <1>12 DEF Reopening, MoveTo, Terminal
  <2>2. /\ Reopened \in Request /\ Reopened.version = req.version /\ Reopened.mode = req.mode
        /\ Reopened.executor = req.executor
    BY DEF Reopened, Request
  <2>3. QED
    BY <1>3, <2>1, <2>2 DEF Status
<1>13. CASE Returning
  <2> DEFINE patch == [req EXCEPT !.returned = TRUE, !.confirmed = FALSE]
  <2>1. /\ Commit("RETURNED", patch) /\ KeepAssignments /\ UNCHANGED onShift
        /\ Canon(req) \notin Terminal
    BY <1>13 DEF Returning, MoveTo, Terminal
  <2>2. /\ patch \in Request /\ patch.version = req.version /\ patch.mode = req.mode
        /\ patch.executor = req.executor
    BY DEF Request
  <2>3. QED
    BY <1>3, <2>1, <2>2 DEF Status
<1>14. QED
  BY <1>5, <1>6, <1>7, <1>8, <1>9, <1>10, <1>11, <1>12, <1>13 DEF Shape

\* A writer that leaves the status, the flags and the version alone changes nothing of what
\* is announced.
LEMMA UnseenWrite ==
    ASSUME Announced, req' \in Request, active' \in Assignment, rows' \in 0..MaxRows,
           req'.status = req.status, req'.confirmed = req.confirmed, req'.returned = req.returned,
           req'.mode = req.mode, req'.version = req.version, UNCHANGED <<rated, outbox, onShift>>
    PROVE  Announced'
<1>1. Canon(req') = Canon(req)
  BY DEF Canon
<1>2. TypeOK'
  BY DEF Announced, TypeOK
<1>3. Control'
  BY <1>1 DEF Announced, Control, ConfirmationIsFresh, StaffReportNeverAtResident, RatingOnlyWhenAccepted
<1>4. Versioned' /\ AnnouncementsAreAHistory'
  BY <1>1 DEF Announced, Versioned, AnnouncementsAreAHistory, Public
<1>5. QED
  BY <1>2, <1>3, <1>4 DEF Announced

\* The commands keep the announcements in order without any help of the assignments.
LEMMA CommandAnnounced ==
    ASSUME Announced, Next
    PROVE  /\ Announced'
           /\ req'.status # req.status =>
                 /\ req'.version = req.version + 1
                 /\ Public(req') # Public(req) => Len(outbox') = Len(outbox) + 1
<1> USE DEF Announced
<1>1. CASE CommandStep
  <2>1. Shape
    BY <1>1, StepShapes
  <2>2. PICK to \in Status, confirmed \in BOOLEAN, returned \in BOOLEAN :
            Effect(to, confirmed, returned) /\ Legal(to, confirmed, returned)
    BY <2>1, ControlSteps DEF Control
  <2>3. Control' /\ rated' \in BOOLEAN /\ req' \in Request /\ Canon(req') = to
    BY <2>2, ControlKept DEF Effect
  <2>4. outbox' \in Seq(Change) /\ Versioned' /\ AnnouncementsAreAHistory'
    BY <2>2, HistoryKept
  <2>5. Announced'
    BY <2>1, <2>3, <2>4, CommitShapes DEF TypeOK
  <2>6. req'.status # req.status => req'.version = req.version + 1
    BY <2>2 DEF Effect
  <2>7. ASSUME Public(req') # Public(req) PROVE Len(outbox') = Len(outbox) + 1
    <3>1. outbox' = Append(outbox, [old |-> Public(req), new |-> PublicStatus(to), version |-> req.version + 1])
      BY <2>2, <2>3, <2>7, AnnouncedUnderNewVersion DEF Public
    <3>2. outbox \in Seq(Change)
      BY DEF TypeOK
    <3>3. QED
      BY <3>1, <3>2
  <2>8. QED
    BY <2>5, <2>6, <2>7
<1>2. CASE \E u \in Users : ShiftChange(u)
  <2>1. UNCHANGED <<req, active, rows, rated, outbox>> /\ onShift' \subseteq Users
    BY <1>2 DEF ShiftChange, TypeOK
  <2>2. QED
    BY <2>1 DEF TypeOK, Control, ConfirmationIsFresh, StaffReportNeverAtResident,
          RatingOnlyWhenAccepted, Versioned, AnnouncementsAreAHistory
<1>3. QED
  BY <1>1, <1>2 DEF Next

\* At the start no session is open.
LEMMA WritersAtStart == ASSUME WInit PROVE WritersInv
<1>1. IInv
  BY InvariantInit DEF WInit
<1>2. active = NoAssignment /\ req.executor = NoUser
  <2>1. \A e : LegacyReturned(e).status # "NEW" /\ LegacyConfirmed(e).status # "NEW"
    BY DEF LegacyReturned, LegacyConfirmed, NewRequest
  <2>2. \A m \in {"resident", "manager"} : NewRequest(m).executor = NoUser
    BY DEF NewRequest
  <2>3. req \in {NewRequest(m) : m \in {"resident", "manager"}} /\ active = NoAssignment
    BY <2>1 DEF WInit, Init
  <2>4. QED
    BY <2>2, <2>3
<1>3. /\ duty = NoDuty /\ transfer = NoTransfer
      /\ NoDuty \in DutySession /\ NoDuty.executor = NoUser /\ NoDuty.phase = "idle"
      /\ NoTransfer \in TransferSession /\ NoTransfer.phase = "idle"
  BY DEF WInit, NoDuty, NoTransfer, DutySession, TransferSession, Executor, Group, Status
<1>4. NothingLoaded /\ SessionsTyped
  BY <1>2, <1>3 DEF NothingLoaded, SessionsTyped
<1>5. QED
  BY <1>1, <1>3, <1>4 DEF WritersInv, IInv, Announced

\* The duty button: what it has loaded is put back over what others committed, but never
\* over the executor of a request in progress.
LEMMA DutyKeeps ==
    ASSUME ApartInv, DutyStep
    PROVE  /\ ApartInv' /\ req'.status = req.status
           /\ "duty" \in Writers \/ duty.phase # "idle"
           /\ NothingLoaded => NothingLoaded'
           /\ NothingLoaded /\ InProgressHasExecutor => InProgressHasExecutor'
<1> USE DEF ApartInv, SessionsTyped
<1>1. TypeOK /\ duty \in DutySession /\ NoDuty \in DutySession /\ NoDuty.executor = NoUser /\ NoDuty.phase = "idle"
  BY DEF Announced, NoDuty, DutySession, Executor, Group, Status
<1>2. ASSUME KeepRequest, transfer' = transfer, duty' \in DutySession PROVE ApartInv' /\ req' = req /\ active' = active
  BY <1>1, <1>2, UnseenWrite DEF KeepRequest, TypeOK
<1>3. ASSUME NEW u \in Users, NEW g \in Groups, DutyLoad(u, g)
      PROVE  /\ ApartInv' /\ req'.status = req.status /\ "duty" \in Writers
             /\ NothingLoaded => NothingLoaded'
             /\ InProgressHasExecutor => InProgressHasExecutor'
  <2> DEFINE d == [phase |-> "loaded", status |-> Canon(req), executor |-> req.executor,
                   group |-> req.group, to |-> g, row |-> 0]
  <2>1. d \in DutySession /\ d.phase = "loaded" /\ d.executor = req.executor
    BY <1>1, CanonOfRequest DEF DutySession, TypeOK, Request, Group
  <2>2. duty' = d /\ transfer' = transfer /\ KeepRequest /\ "duty" \in Writers
    BY <1>3 DEF DutyLoad
  <2> HIDE DEF d
  <2>3. ApartInv' /\ req' = req /\ active' = active
    BY <1>2, <2>1, <2>2
  <2>4. QED
    BY <2>1, <2>2, <2>3 DEF NothingLoaded, InProgressHasExecutor
<1>4. CASE DutyCheck
  <2> DEFINE d == [duty EXCEPT !.phase = "checked"]
  <2>1. d \in DutySession /\ d.phase = "checked" /\ d.executor = duty.executor
    BY <1>1 DEF DutySession
  <2>2. duty' = (IF active.type # "none" THEN NoDuty ELSE d) /\ transfer' = transfer /\ KeepRequest /\ duty.phase = "loaded"
    BY <1>4 DEF DutyCheck
  <2> HIDE DEF d
  <2>3. ApartInv' /\ req' = req /\ active' = active
    BY <1>1, <1>2, <2>1, <2>2
  <2>4. QED
    BY <1>1, <2>1, <2>2, <2>3 DEF NothingLoaded, InProgressHasExecutor
<1>5. CASE DutyPlan
  <2> DEFINE d == [duty EXCEPT !.phase = "planned", !.row = active.row]
  <2>1. d \in DutySession /\ d.phase = "planned" /\ d.executor = duty.executor
    BY <1>1 DEF DutySession, TypeOK, Assignment
  <2>2. /\ duty' \in {NoDuty, d} /\ transfer' = transfer /\ KeepRequest /\ duty.phase = "checked"
    BY <1>5 DEF DutyPlan
  <2> HIDE DEF d
  <2>3. ApartInv' /\ req' = req /\ active' = active
    BY <1>1, <1>2, <2>1, <2>2
  <2>4. QED
    BY <1>1, <2>1, <2>2, <2>3 DEF NothingLoaded, InProgressHasExecutor
<1>6. CASE DutyCommit
  <2>1. duty.phase = "planned" /\ duty' = NoDuty /\ UNCHANGED <<rated, outbox, onShift, transfer>>
    BY <1>6 DEF DutyCommit
  <2>2. CASE active.row # duty.row /\ active.type # "none"
    <3>1. UNCHANGED <<req, active, rows>>
      BY <1>6, <2>2 DEF DutyCommit
    <3>2. ApartInv' /\ req' = req /\ active' = active
      BY <1>1, <1>2, <2>1, <3>1 DEF KeepRequest
    <3>3. QED
      BY <1>1, <2>1, <3>2 DEF NothingLoaded, InProgressHasExecutor
  <2>3. CASE ~(active.row # duty.row /\ active.type # "none")
    <3>1. PICK e \in Executor, g \in Group :
            /\ req' = [req EXCEPT !.group = g, !.executor = e]
            /\ duty.executor = NoUser => e = req.executor
      BY <1>1, <1>6, <2>3 DEF DutyCommit, TypeOK, Request, DutySession, Executor
    <3>2. /\ req' \in Request /\ req'.status = req.status /\ req'.confirmed = req.confirmed
          /\ req'.returned = req.returned /\ req'.mode = req.mode /\ req'.version = req.version
          /\ req'.executor = e
      BY <1>1, <3>1 DEF TypeOK, Request
    <3>3. active' \in Assignment /\ active'.type = "group" /\ rows' \in 0..MaxRows
      BY <1>1, <1>6, <2>3 DEF DutyCommit, CreateAssignment, Assignment, TypeOK, DutySession, Executor
    <3>4. Announced'
      BY <2>1, <3>2, <3>3, UnseenWrite
    <3>5. QED
      BY <1>1, <2>1, <3>1, <3>2, <3>3, <3>4 DEF NothingLoaded, InProgressHasExecutor
  <2>4. QED
    BY <2>2, <2>3
<1>7. QED
  BY <1>3, <1>4, <1>5, <1>6 DEF DutyStep, DutyCheck, DutyPlan, DutyCommit

\* The transfer of a shift: somebody follows somebody.
LEMMA TransferKeeps ==
    ASSUME ApartInv, TransferStep
    PROVE  /\ ApartInv' /\ req'.status = req.status /\ duty' = duty
           /\ NothingLoaded => NothingLoaded'
           /\ InProgressHasExecutor => InProgressHasExecutor'
<1> USE DEF ApartInv, SessionsTyped
<1>1. TypeOK /\ transfer \in TransferSession /\ NoTransfer \in TransferSession /\ NoTransfer.phase = "idle"
  BY DEF Announced, NoTransfer, TransferSession, Executor
<1>2. ASSUME KeepRequest, duty' = duty, transfer' \in TransferSession, transfer'.to # NoUser
      PROVE  ApartInv' /\ req' = req /\ active' = active
  BY <1>1, <1>2, UnseenWrite DEF KeepRequest, TypeOK
<1>3. ASSUME NEW e \in Users, TransferLoad(e)
      PROVE  /\ ApartInv' /\ req'.status = req.status /\ duty' = duty
             /\ NothingLoaded => NothingLoaded'
             /\ InProgressHasExecutor => InProgressHasExecutor'
  <2> DEFINE t == [NoTransfer EXCEPT !.phase = "loaded", !.executor = req.executor, !.to = e]
  <2>1. t \in TransferSession /\ t.phase = "loaded" /\ t.to = e /\ e # NoUser
    BY <1>1 DEF TransferSession, NoTransfer, TypeOK, Request, Executor
  <2>2. transfer' = t /\ duty' = duty /\ KeepRequest /\ req.status # "CANCELLED" /\ req.executor # NoUser
    BY <1>3 DEF TransferLoad
  <2> HIDE DEF t
  <2>3. ApartInv' /\ req' = req /\ active' = active
    BY <1>2, <2>1, <2>2
  <2>4. QED
    BY <2>1, <2>2, <2>3 DEF NothingLoaded, InProgressHasExecutor
<1>4. CASE TransferRow
  <2> DEFINE t == [transfer EXCEPT !.phase = "planned", !.row = IF active.type = "individual" THEN active.row ELSE 0,
                                   !.holder = active.executor]
  <2>1. t \in TransferSession /\ t.phase = "planned" /\ t.to = transfer.to
    BY <1>1 DEF TransferSession, TypeOK, Assignment
  <2>2. transfer' = t /\ duty' = duty /\ KeepRequest /\ transfer.phase = "loaded"
    BY <1>4 DEF TransferRow
  <2> HIDE DEF t
  <2>3. ApartInv' /\ req' = req /\ active' = active
    BY <1>2, <2>1, <2>2
  <2>4. QED
    BY <2>1, <2>2, <2>3 DEF NothingLoaded, InProgressHasExecutor
<1>5. CASE TransferCommit
  <2>1. /\ transfer.phase = "planned" /\ transfer' = NoTransfer /\ UNCHANGED <<rows, rated, outbox, onShift, duty>>
        /\ req' = [req EXCEPT !.executor = transfer.to]
        /\ active' = active \/ active' = [active EXCEPT !.executor = transfer.to]
    BY <1>5 DEF TransferCommit
  <2>2. transfer.to \in Executor /\ transfer.to # NoUser
    BY <1>1, <2>1 DEF TransferSession
  <2>3. /\ req' \in Request /\ req'.status = req.status /\ req'.confirmed = req.confirmed
        /\ req'.returned = req.returned /\ req'.mode = req.mode /\ req'.version = req.version
        /\ req'.executor # NoUser
    BY <1>1, <2>1, <2>2 DEF TypeOK, Request
  <2>4. active' \in Assignment /\ active'.type = active.type /\ rows' \in 0..MaxRows
    BY <1>1, <2>1, <2>2 DEF TypeOK, Assignment
  <2>5. Announced'
    BY <2>1, <2>3, <2>4, UnseenWrite
  <2>6. QED
    BY <1>1, <2>1, <2>3, <2>4, <2>5 DEF NothingLoaded, InProgressHasExecutor
<1>6. QED
  BY <1>3, <1>4, <1>5 DEF TransferStep

\* The nightly pass touches the assignment only.
LEMMA SyncKeeps ==
    ASSUME ApartInv, SyncCancel
    PROVE  /\ ApartInv' /\ req'.status = req.status /\ duty' = duty /\ "sync" \in Writers
           /\ InProgressHasExecutor => InProgressHasExecutor'
<1>1. UNCHANGED <<req, rows, rated, outbox, onShift, duty, transfer>> /\ active' = NoAssignment /\ "sync" \in Writers
  BY DEF SyncCancel
<1>2. active' \in Assignment
  BY <1>1 DEF NoAssignment, Assignment, Executor, Group
<1>3. Announced'
  BY <1>1, <1>2, UnseenWrite DEF ApartInv, Announced, TypeOK
<1>4. QED
  BY <1>1, <1>3 DEF ApartInv, SessionsTyped, InProgressHasExecutor

\* The commands, beside open sessions.
LEMMA KernelKeeps ==
    ASSUME ApartInv, KernelStep
    PROVE  /\ ApartInv' /\ duty' = duty
           /\ req'.status # req.status =>
                 /\ req'.version = req.version + 1
                 /\ Public(req') # Public(req) => Len(outbox') = Len(outbox) + 1
           /\ NothingLoaded => NothingLoaded'
           /\ InProgressHasExecutor => InProgressHasExecutor'
<1>1. Next /\ UNCHANGED <<duty, transfer>> /\ Announced /\ TypeOK
  BY DEF KernelStep, ApartInv, Announced
<1>2. /\ Announced'
      /\ req'.status # req.status =>
            /\ req'.version = req.version + 1
            /\ Public(req') # Public(req) => Len(outbox') = Len(outbox) + 1
  BY <1>1, CommandAnnounced
<1>3. CASE CommandStep
  <2>1. Shape
    BY <1>3, StepShapes
  <2>2. /\ InProgressHasExecutor'
        /\ req.status # "CANCELLED"
        /\ active'.type = "none" =>
              req'.status = "CANCELLED" \/ (active.type = "none" /\ req'.executor = req.executor)
    BY <1>1, <2>1, CommitShapes
  <2>3. NothingLoaded => NothingLoaded'
    BY <1>1, <2>2 DEF NothingLoaded
  <2>4. QED
    BY <1>1, <1>2, <2>2, <2>3 DEF ApartInv, SessionsTyped
<1>4. CASE \E u \in Users : ShiftChange(u)
  BY <1>1, <1>2, <1>4 DEF ShiftChange, ApartInv, SessionsTyped, NothingLoaded, InProgressHasExecutor
<1>5. QED
  BY <1>1, <1>3, <1>4 DEF Next

LEMMA ApartInductive == WSpec => []ApartInv
<1>1. WInit => ApartInv
  BY WritersAtStart DEF WritersInv, ApartInv
<1>2. ApartInv /\ [WNext]_writerVars => ApartInv'
  <2> SUFFICES ASSUME ApartInv, [WNext]_writerVars PROVE ApartInv'
    OBVIOUS
  <2>1. CASE UNCHANGED writerVars
    BY <2>1 DEF writerVars, ApartInv, SessionsTyped, Announced, TypeOK, Control, ConfirmationIsFresh,
          StaffReportNeverAtResident, RatingOnlyWhenAccepted, Versioned, AnnouncementsAreAHistory
  <2>2. QED
    BY <2>1, KernelKeeps, DutyKeeps, TransferKeeps, SyncKeeps DEF WNext
<1>3. QED
  BY <1>1, <1>2, PTL DEF WSpec

\* Whatever the unlocked writers interleave with, the request, its assignment and its
\* announcements keep their kinds ...
THEOREM WritersTypeCorrect == WSpec => []TypeOK
BY ApartInductive, PTL DEF ApartInv, Announced

\* ... and the status changes with its version and its announcement only.
THEOREM WritersNeverMoveStatus == WSpec => StatusNeverMovesSilently
<1> DEFINE Loud == req'.status # req.status =>
          /\ req'.version = req.version + 1
          /\ Public(req') # Public(req) => Len(outbox') = Len(outbox) + 1
<1>1. ApartInv /\ [WNext]_writerVars => [Loud]_writerVars
  <2> SUFFICES ASSUME ApartInv, WNext PROVE Loud
    OBVIOUS
  <2>1. QED
    BY KernelKeeps, DutyKeeps, TransferKeeps, SyncKeeps DEF WNext
<1>2. QED
  BY <1>1, ApartInductive, PTL DEF WSpec, StatusNeverMovesSilently

\* A request in progress keeps its executor as long as the duty button and the nightly pass
\* do not both run: it takes the one to cancel the row and the other to miss it.
THEOREM WritersLeaveExecutor ==
    ~({"duty", "sync"} \subseteq Writers) => (WSpec => []InProgressHasExecutor)
<1> SUFFICES ASSUME ~({"duty", "sync"} \subseteq Writers) PROVE WSpec => []InProgressHasExecutor
  OBVIOUS
<1>1. WInit => WritersInv
  BY WritersAtStart
<1>2. WritersInv /\ [WNext]_writerVars => WritersInv'
  <2> SUFFICES ASSUME WritersInv, [WNext]_writerVars PROVE WritersInv'
    OBVIOUS
  <2>1. ApartInv
    BY DEF WritersInv, ApartInv
  <2>2. CASE UNCHANGED writerVars
    BY <2>2 DEF writerVars, WritersInv, SessionsTyped, Announced, TypeOK, Control, ConfirmationIsFresh,
          StaffReportNeverAtResident, RatingOnlyWhenAccepted, Versioned, AnnouncementsAreAHistory,
          InProgressHasExecutor, NothingLoaded
  <2>3. CASE KernelStep
    BY <2>1, <2>3, KernelKeeps DEF WritersInv, ApartInv
  <2>4. CASE DutyStep
    BY <2>1, <2>4, DutyKeeps DEF WritersInv, ApartInv
  <2>5. CASE TransferStep
    BY <2>1, <2>5, TransferKeeps DEF WritersInv, ApartInv
  <2>6. CASE SyncCancel
    BY <2>1, <2>6, SyncKeeps DEF WritersInv, ApartInv
  <2>7. QED
    BY <2>2, <2>3, <2>4, <2>5, <2>6 DEF WNext
<1>3. WritersInv => InProgressHasExecutor
  BY DEF WritersInv
<1>4. QED
  BY <1>1, <1>2, <1>3, PTL DEF WSpec
=============================================================================
