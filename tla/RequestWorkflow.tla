-------------------------- MODULE RequestWorkflow --------------------------
(***************************************************************************)
(* The workflow of one service request: the pure kernel                    *)
(* utils/request_workflow (action table, guards, planner, projections) run *)
(* by services/workflow_runner.                                            *)
(*                                                                         *)
(* Each command of the runner is one action.  run_command takes the row    *)
(* with SELECT ... FOR UPDATE, decides on a snapshot read under that lock, *)
(* and commits the patched row, the assignment rows, the rating and the    *)
(* outbox row in one transaction, or rolls everything back: commands on a  *)
(* request are therefore serialised, and a refused command is a stutter.   *)
(* Commands on different requests touch disjoint rows, so one request is   *)
(* the unit of the model.  AssignmentWriters adds the writers that do not  *)
(* take the lock.                                                          *)
(***************************************************************************)
EXTENDS Integers, Sequences, FiniteSets

CONSTANTS
    Users,        \* accounts that may send a command or be assigned
    Groups,       \* executor specialisations a request can be addressed to
    NoUser,       \* SQL NULL in executor_id
    NoGroup,      \* SQL NULL in assigned_group / group_specialization
    Roles,        \* Roles[u]: the roles array of user u
    Skills,       \* Skills[u]: the groups user u may serve
    Owner,        \* requests.user_id
    Neighbours,   \* users with an approved flat equal to the request's flat
    MaxVersion,   \* bound: status changes explored
    MaxRows       \* bound: assignment rows inserted

RoleNames == {"applicant", "executor", "manager"}

ASSUME UsersAssumption == NoUser \notin Users /\ Owner \in Users /\ Neighbours \subseteq Users
ASSUME GroupsAssumption == NoGroup \notin Groups
ASSUME RolesAssumption == Roles \in [Users -> SUBSET RoleNames] /\ Skills \in [Users -> SUBSET Groups]
ASSUME BoundsAssumption == MaxVersion \in Nat /\ MaxRows \in Nat \ {0}

VARIABLES
    req,      \* the requests row: status, flags, executor, group, version
    active,   \* the row of request_assignments with status 'active', if any
    rows,     \* how many request_assignments rows were ever inserted
    rated,    \* a ratings row exists
    outbox,   \* request.status_changed rows enqueued, in commit order
    onShift   \* users whose shift covers the present moment

vars == <<req, active, rows, rated, outbox, onShift>>

Status == {"NEW", "IN_PROGRESS", "PURCHASE", "CLARIFICATION", "EXECUTED",
           "COMPLETED", "RETURNED", "APPROVED", "CANCELLED"}

Terminal == {"APPROVED", "CANCELLED"}

Executor == Users \cup {NoUser}
Group == Groups \cup {NoGroup}

Request == [status : Status, confirmed : BOOLEAN, returned : BOOLEAN,
            executor : Executor, group : Group,
            mode : {"resident", "manager"}, version : Nat]

\* A partial unique index keeps at most one active assignment per request.
Assignment == [type : {"none", "individual", "group"}, executor : Executor,
               group : Group, row : Nat]
NoAssignment == [type |-> "none", executor |-> NoUser, group |-> NoGroup, row |-> 0]

Change == [old : Status, new : Status, version : Nat]

-----------------------------------------------------------------------------
(* Projections: the stored status is read through the legacy flags, and the *)
(* status shown outside hides the return.                                   *)

Canon(r) ==
    CASE r.status = "COMPLETED" /\ r.returned -> "RETURNED"
      [] r.status = "EXECUTED" /\ r.confirmed /\ ~r.returned -> "COMPLETED"
      [] OTHER -> r.status

\* Mutant: the return is shown outside.
PublicStatusRaw(s) == s
PublicStatus(s) == IF s = "RETURNED" THEN "COMPLETED" ELSE s
Public(r) == PublicStatus(Canon(r))

-----------------------------------------------------------------------------
(* The action table.                                                        *)

From == [SYSTEM_DISPATCH_ASSIGN |-> {"NEW"},
         ASSIGN_GROUP           |-> {"NEW"},
         MANAGER_ASSIGN         |-> {"NEW", "IN_PROGRESS"},
         EXECUTOR_PURCHASE      |-> {"IN_PROGRESS"},
         MANAGER_PURCHASE       |-> {"NEW", "IN_PROGRESS"},
         MANAGER_PURCHASE_DONE  |-> {"PURCHASE"},
         CLARIFY_REQUEST        |-> {"NEW", "IN_PROGRESS", "PURCHASE"},
         CLARIFY_RESOLVED       |-> {"CLARIFICATION"},
         EXECUTOR_RESUME        |-> {"PURCHASE", "CLARIFICATION"},
         EXECUTOR_CLAIM         |-> {"NEW", "IN_PROGRESS"},
         SYSTEM_AUTO_PROMOTE    |-> {"NEW", "IN_PROGRESS"},
         EXECUTOR_COMPLETE      |-> {"IN_PROGRESS"},
         MANAGER_COMPLETE       |-> {"IN_PROGRESS", "PURCHASE", "CLARIFICATION"},
         MANAGER_CONFIRM        |-> {"EXECUTED"},
         MANAGER_RETURN_TO_WORK |-> {"EXECUTED", "RETURNED", "COMPLETED"},
         APPLICANT_ACCEPT       |-> {"COMPLETED"},
         APPLICANT_RETURN       |-> {"COMPLETED"},
         MANAGER_FORCE_ACCEPT   |-> {"COMPLETED", "RETURNED"},
         CANCEL                 |-> Status \ Terminal]

Target == [SYSTEM_DISPATCH_ASSIGN |-> "IN_PROGRESS",
           ASSIGN_GROUP           |-> "NEW",
           MANAGER_ASSIGN         |-> "IN_PROGRESS",
           EXECUTOR_PURCHASE      |-> "PURCHASE",
           MANAGER_PURCHASE       |-> "PURCHASE",
           MANAGER_PURCHASE_DONE  |-> "IN_PROGRESS",
           CLARIFY_REQUEST        |-> "CLARIFICATION",
           CLARIFY_RESOLVED       |-> "IN_PROGRESS",
           EXECUTOR_RESUME        |-> "IN_PROGRESS",
           EXECUTOR_CLAIM         |-> "IN_PROGRESS",
           SYSTEM_AUTO_PROMOTE    |-> "IN_PROGRESS",
           EXECUTOR_COMPLETE      |-> "EXECUTED",
           MANAGER_COMPLETE       |-> "EXECUTED",
           MANAGER_CONFIRM        |-> "COMPLETED",
           MANAGER_RETURN_TO_WORK |-> "IN_PROGRESS",
           APPLICANT_ACCEPT       |-> "APPROVED",
           APPLICANT_RETURN       |-> "RETURNED",
           MANAGER_FORCE_ACCEPT   |-> "APPROVED",
           CANCEL                 |-> "CANCELLED"]

Action == DOMAIN From
SystemOnly == {"SYSTEM_DISPATCH_ASSIGN", "SYSTEM_AUTO_PROMOTE"}
ManagerActions == {"ASSIGN_GROUP", "MANAGER_ASSIGN", "MANAGER_PURCHASE",
                   "MANAGER_PURCHASE_DONE", "CLARIFY_REQUEST", "CLARIFY_RESOLVED",
                   "MANAGER_COMPLETE", "MANAGER_CONFIRM", "MANAGER_RETURN_TO_WORK",
                   "MANAGER_FORCE_ACCEPT"}
WorkerActions == {"EXECUTOR_PURCHASE", "EXECUTOR_RESUME", "EXECUTOR_COMPLETE"}

Capabilities == [dispatcher   |-> {"SYSTEM_DISPATCH_ASSIGN", "ASSIGN_GROUP"},
                 auto_manager |-> {"SYSTEM_AUTO_PROMOTE", "SYSTEM_DISPATCH_ASSIGN",
                                   "ASSIGN_GROUP"}]

-----------------------------------------------------------------------------
(* Guards: who may do what on the snapshot read under the row lock.         *)

\* Mutant: any assignment counts as unclaimed.
UnclaimedIfAny == active.type # "none"
Unclaimed == active.type = "group" /\ active.executor = NoUser

IsManager(u) == "manager" \in Roles[u]

IsAssignedExecutor(u) ==
    LET assigned == IF active.executor # NoUser THEN active.executor ELSE req.executor
    IN "executor" \in Roles[u] /\ assigned = u

ExecutorCanWork(u) == IsAssignedExecutor(u) /\ u \in onShift

ExecutorCanClaim(u) ==
    /\ "executor" \in Roles[u]
    /\ u \in onShift
    /\ Unclaimed
    /\ active.group \in Skills[u]

SystemCanPromote == Unclaimed /\ req.executor = NoUser

CanAccept(u) == req.mode # "manager" /\ (u = Owner \/ u \in Neighbours)
OwnerCanReturn(u) == req.mode # "manager" /\ u = Owner
CanCancel(u) ==
    \/ IsManager(u)
    \/ u = Owner /\ "applicant" \in Roles[u] /\ Canon(req) = "NEW"

Authorized(u, a) ==
    \/ a \in ManagerActions /\ IsManager(u)
    \/ a \in WorkerActions /\ ExecutorCanWork(u)
    \/ a = "EXECUTOR_CLAIM" /\ ExecutorCanClaim(u)
    \/ a = "APPLICANT_ACCEPT" /\ CanAccept(u)
    \/ a = "APPLICANT_RETURN" /\ OwnerCanReturn(u)
    \/ a = "CANCEL" /\ CanCancel(u)

\* Mutant: a cancellation is not asked which status it starts from.
AllowedCancelAnywhere(u) ==
    {a \in Action \ SystemOnly : (a = "CANCEL" \/ Canon(req) \in From[a]) /\ Authorized(u, a)}

\* Actions open to a user, and to a system process, in the present state.
Allowed(u) == {a \in Action \ SystemOnly : Canon(req) \in From[a] /\ Authorized(u, a)}
SystemAllowed(p) ==
    {a \in Capabilities[p] : /\ Canon(req) \in From[a]
                             /\ a = "SYSTEM_AUTO_PROMOTE" => SystemCanPromote}

-----------------------------------------------------------------------------
(* A legacy client names the status it wants; the kernel picks the action.  *)

ResolveExcluded == {"EXECUTOR_CLAIM", "SYSTEM_AUTO_PROMOTE"}

\* Mutant: the executor's own actions come no earlier than the manager's.
PriorityWorkerLate(a) ==
    CASE a \in {"APPLICANT_ACCEPT", "APPLICANT_RETURN"} -> 0
      [] a \in {"MANAGER_FORCE_ACCEPT", "CANCEL"} -> 2
      [] OTHER -> 1

Priority(a) ==
    CASE a \in {"APPLICANT_ACCEPT", "APPLICANT_RETURN", "EXECUTOR_COMPLETE",
                "EXECUTOR_PURCHASE", "EXECUTOR_RESUME"} -> 0
      [] a \in ManagerActions \ {"ASSIGN_GROUP", "MANAGER_FORCE_ACCEPT"} -> 1
      [] a \in {"MANAGER_FORCE_ACCEPT", "CANCEL"} -> 2
      [] OTHER -> 9

Candidates(u, target, hasRating) ==
    {a \in Allowed(u) \ ResolveExcluded :
        Target[a] = target /\ (a = "APPLICANT_ACCEPT" => hasRating)}

\* The actions the sort may put first: ties are left to set iteration order.
ResolveCommand(u, target, hasRating) ==
    {a \in Candidates(u, target, hasRating) :
        \A b \in Candidates(u, target, hasRating) : Priority(a) <= Priority(b)}

-----------------------------------------------------------------------------
(* The commit of a planned transition.                                      *)

\* Mutant: the event id is derived from the status alone.
EnqueueByStatus(change) ==
    IF \E i \in 1..Len(outbox) : outbox[i].new = change.new
    THEN outbox ELSE Append(outbox, change)

\* ON CONFLICT (event_id) DO NOTHING: the id is derived from the version.
Enqueue(change) ==
    IF \E i \in 1..Len(outbox) : outbox[i].version = change.version
    THEN outbox ELSE Append(outbox, change)

\* Mutant: work resumed after a purchase or a question needs no executor.
StaffedOnReturnOnly(to, patch) ==
    to = "IN_PROGRESS" /\ Canon(req) \notin {"PURCHASE", "CLARIFICATION"}
        => patch.executor # NoUser

\* The invariant of the canon, enforced for every action in one place.
Staffed(to, patch) == to = "IN_PROGRESS" => patch.executor # NoUser

\* Mutant: only a change of the public status counts.
NextVersionPublic(to) == IF PublicStatus(to) = Public(req) THEN req.version ELSE req.version + 1

\* The version counts changes of the stored status.
NextVersion(to) == IF to = req.status THEN req.version ELSE req.version + 1

\* The row goes to canonical status "to" with the other fields of "patch"; a
\* change of the public status is enqueued in the same transaction.
Commit(to, patch) ==
    /\ Staffed(to, patch)
    /\ NextVersion(to) <= MaxVersion
    /\ req' = [patch EXCEPT !.status = to, !.version = NextVersion(to)]
    /\ outbox' = IF PublicStatus(to) # Public(req)
                 THEN Enqueue([old |-> Public(req), new |-> PublicStatus(to),
                               version |-> NextVersion(to)])
                 ELSE outbox

KeepAssignments == UNCHANGED <<active, rows>>
CancelAssignments == active' = NoAssignment /\ rows' = rows

\* create_assignment: the previous active row is cancelled, a new one inserted.
CreateAssignment(type, e, g) ==
    /\ rows < MaxRows
    /\ rows' = rows + 1
    /\ active' = [type |-> type, executor |-> e, group |-> g, row |-> rows + 1]

\* claim / promote: exactly one unclaimed group row is converted in place.
ConvertAssignment(e) ==
    /\ Unclaimed
    /\ active' = [active EXCEPT !.type = "individual", !.executor = e]
    /\ rows' = rows

\* Mutant: the group a request was addressed to outlives its assignment.
AssignToKeepingGroup(e) ==
    /\ Commit("IN_PROGRESS", [req EXCEPT !.executor = e])
    /\ CreateAssignment("individual", e, NoGroup)
    /\ UNCHANGED <<rated, onShift>>

AssignTo(e) ==
    /\ Commit("IN_PROGRESS", [req EXCEPT !.executor = e, !.group = NoGroup])
    /\ CreateAssignment("individual", e, NoGroup)
    /\ UNCHANGED <<rated, onShift>>

AddressTo(g) ==
    /\ Commit("NEW", [req EXCEPT !.executor = NoUser, !.group = g])
    /\ CreateAssignment("group", NoUser, g)
    /\ UNCHANGED <<rated, onShift>>

TakeFromPool(e) ==
    /\ Commit("IN_PROGRESS", [req EXCEPT !.executor = e, !.group = NoGroup])
    /\ ConvertAssignment(e)
    /\ UNCHANGED <<rated, onShift>>

MoveTo(to, patch) ==
    /\ Commit(to, patch)
    /\ KeepAssignments
    /\ UNCHANGED <<rated, onShift>>

-----------------------------------------------------------------------------
(* One action per workflow command.                                         *)

SystemDispatchAssign(p, e) == "SYSTEM_DISPATCH_ASSIGN" \in SystemAllowed(p) /\ AssignTo(e)
SystemAssignGroup(p, g) == "ASSIGN_GROUP" \in SystemAllowed(p) /\ AddressTo(g)
SystemAutoPromote(p, e) == "SYSTEM_AUTO_PROMOTE" \in SystemAllowed(p) /\ TakeFromPool(e)

AssignGroup(u, g) == "ASSIGN_GROUP" \in Allowed(u) /\ AddressTo(g)
ManagerAssign(u, e) == "MANAGER_ASSIGN" \in Allowed(u) /\ AssignTo(e)
ExecutorClaim(u) == "EXECUTOR_CLAIM" \in Allowed(u) /\ TakeFromPool(u)

ExecutorPurchase(u) == "EXECUTOR_PURCHASE" \in Allowed(u) /\ MoveTo("PURCHASE", req)
ManagerPurchase(u) == "MANAGER_PURCHASE" \in Allowed(u) /\ MoveTo("PURCHASE", req)
ManagerPurchaseDone(u) == "MANAGER_PURCHASE_DONE" \in Allowed(u) /\ MoveTo("IN_PROGRESS", req)
ClarifyRequest(u) == "CLARIFY_REQUEST" \in Allowed(u) /\ MoveTo("CLARIFICATION", req)
ClarifyResolved(u) == "CLARIFY_RESOLVED" \in Allowed(u) /\ MoveTo("IN_PROGRESS", req)
ExecutorResume(u) == "EXECUTOR_RESUME" \in Allowed(u) /\ MoveTo("IN_PROGRESS", req)

Done == [req EXCEPT !.returned = FALSE]
ExecutorComplete(u) == "EXECUTOR_COMPLETE" \in Allowed(u) /\ MoveTo("EXECUTED", Done)
ManagerComplete(u) == "MANAGER_COMPLETE" \in Allowed(u) /\ MoveTo("EXECUTED", Done)

\* Mutants: a status outside the canon; a staff report sent to the resident.
ConfirmTargetAlias == "ACCEPTED"
ConfirmTargetResident == "COMPLETED"

\* A staff report has no resident to accept it: confirming it ends it.
ConfirmTarget == IF req.mode = "manager" THEN "APPROVED" ELSE "COMPLETED"
ManagerConfirm(u) ==
    /\ "MANAGER_CONFIRM" \in Allowed(u)
    /\ MoveTo(ConfirmTarget, [req EXCEPT !.confirmed = TRUE, !.returned = FALSE])

\* Mutant: the confirmation survives the return to work.
ReopenedStillConfirmed == [req EXCEPT !.returned = FALSE]
Reopened == [req EXCEPT !.returned = FALSE, !.confirmed = FALSE]
ManagerReturnToWork(u) ==
    "MANAGER_RETURN_TO_WORK" \in Allowed(u) /\ MoveTo("IN_PROGRESS", Reopened)

\* The unique index on ratings.request_number refuses a second rating.
ApplicantAccept(u) ==
    /\ "APPLICANT_ACCEPT" \in Allowed(u)
    /\ ~rated
    /\ Commit("APPROVED", req)
    /\ rated' = TRUE
    /\ KeepAssignments
    /\ UNCHANGED onShift

ApplicantReturn(u) ==
    /\ "APPLICANT_RETURN" \in Allowed(u)
    /\ MoveTo("RETURNED", [req EXCEPT !.returned = TRUE, !.confirmed = FALSE])

ManagerForceAccept(u) == "MANAGER_FORCE_ACCEPT" \in Allowed(u) /\ MoveTo("APPROVED", Done)

Cancel(u) ==
    /\ "CANCEL" \in Allowed(u)
    /\ Commit("CANCELLED", req)
    /\ CancelAssignments
    /\ UNCHANGED <<rated, onShift>>

\* Shifts begin and end independently of the commands; the snapshot asks only
\* about executors.
ShiftChange(u) ==
    /\ "executor" \in Roles[u]
    /\ onShift' = IF u \in onShift THEN onShift \ {u} ELSE onShift \cup {u}
    /\ UNCHANGED <<req, active, rows, rated, outbox>>

-----------------------------------------------------------------------------
NewRequest(mode) ==
    [status |-> "NEW", confirmed |-> FALSE, returned |-> FALSE, executor |-> NoUser,
     group |-> NoGroup, mode |-> mode, version |-> 0]

\* Rows written before the canonical statuses: a return stored as COMPLETED
\* with the flag, a confirmation stored as EXECUTED with the flag.
LegacyReturned(e) == [NewRequest("resident") EXCEPT !.status = "COMPLETED", !.returned = TRUE,
                                                    !.executor = e]
LegacyConfirmed(e) == [NewRequest("resident") EXCEPT !.status = "EXECUTED", !.confirmed = TRUE,
                                                     !.executor = e]

Init ==
    /\ \/ /\ req \in {NewRequest(m) : m \in {"resident", "manager"}}
          /\ active = NoAssignment
          /\ rows = 0
       \/ \E e \in Users :
             /\ req \in {LegacyReturned(e), LegacyConfirmed(e)}
             /\ active = [type |-> "individual", executor |-> e, group |-> NoGroup, row |-> 1]
             /\ rows = 1
    /\ rated = FALSE
    /\ outbox = <<>>
    /\ onShift = {}

SystemStep ==
    \E p \in DOMAIN Capabilities :
        \/ \E e \in Users : SystemDispatchAssign(p, e) \/ SystemAutoPromote(p, e)
        \/ \E g \in Groups : SystemAssignGroup(p, g)

AssignStep(u) ==
    \/ \E g \in Groups : AssignGroup(u, g)
    \/ \E e \in Users : ManagerAssign(u, e)
    \/ ExecutorClaim(u)

WorkStep(u) ==
    \/ ExecutorPurchase(u) \/ ManagerPurchase(u) \/ ManagerPurchaseDone(u)
    \/ ClarifyRequest(u) \/ ClarifyResolved(u) \/ ExecutorResume(u)
    \/ ExecutorComplete(u) \/ ManagerComplete(u)

AcceptanceStep(u) ==
    \/ ManagerConfirm(u) \/ ManagerReturnToWork(u) \/ ApplicantAccept(u)
    \/ ApplicantReturn(u) \/ ManagerForceAccept(u) \/ Cancel(u)

CommandStep == SystemStep \/ \E u \in Users : AssignStep(u) \/ WorkStep(u) \/ AcceptanceStep(u)

Next == CommandStep \/ \E u \in Users : ShiftChange(u)

Spec == Init /\ [][Next]_vars

-----------------------------------------------------------------------------
(* Properties.                                                              *)

\* Every variable stays in its type; versions and rows respect their bounds.
TypeOK ==
    /\ req \in Request
    /\ active \in Assignment
    /\ rows \in 0..MaxRows
    /\ rated \in BOOLEAN
    /\ outbox \in Seq(Change)
    /\ onShift \subseteq Users

\* A request in progress has an executor, whichever of the eight actions that
\* lead there was taken and however the request left NEW (the canon's own
\* invariant, enforced in one place by _enforce_in_progress_has_executor).
InProgressHasExecutor == req.status = "IN_PROGRESS" => req.executor # NoUser

\* The executor and the group are kept twice, on the request and on its active
\* assignment row, by a patch and a domain operation planned separately; until
\* the request is cancelled the two always tell the same story.  (Filters of
\* the auto-manager read the one, the claim guard reads the other.)
RequestMirrorsAssignment ==
    req.status # "CANCELLED" =>
        /\ active.executor = req.executor
        /\ active.type = "individual" <=> req.executor # NoUser
        /\ active.type = "group" <=> req.group # NoGroup
        /\ active.type = "group" => active.group = req.group

\* A confirmation never outlives the round of work it confirms: were the flag
\* left over from an earlier round, the next completion would be read as
\* already confirmed by the manager.
ConfirmationIsFresh ==
    req.confirmed => Canon(req) \in {"COMPLETED", "APPROVED", "CANCELLED"}

\* A staff report, accepted by the manager, never waits for a resident.
StaffReportNeverAtResident ==
    req.mode = "manager" => Canon(req) \notin {"COMPLETED", "RETURNED"} /\ ~rated

\* A rating belongs to an accepted request, and stays with it.
RatingOnlyWhenAccepted == rated => req.status = "APPROVED"

\* The announcements a reader of the outbox sees form one unbroken history of
\* the public status that ends in the present one: none is missing, none is
\* swallowed by the deduplication of event ids.
AnnouncementsAreAHistory ==
    /\ \A i \in 1..Len(outbox) - 1 : outbox[i].new = outbox[i + 1].old
    /\ outbox # <<>> => outbox[Len(outbox)].new = Public(req)
    /\ outbox = <<>> => req.version = 0 \/ Public(req) = "COMPLETED"

\* A status named by a legacy client means one action: the priorities leave no
\* tie for the iteration order of a set to break.
ResolutionUnambiguous ==
    \A u \in Users, target \in Status, hasRating \in BOOLEAN :
        Cardinality(ResolveCommand(u, target, hasRating)) <= 1

\* Nothing about a closed request changes any more, and nothing is announced.
TerminalIsFinal ==
    [][Canon(req) \in Terminal => UNCHANGED <<req, active, rated, outbox>>]_vars

\* Taking from the pool converts a group row in place; it never takes a row
\* from the executor who already holds it.
HolderIsNeverRobbed ==
    [][active.executor # NoUser /\ active'.row = active.row
          => active'.executor = active.executor]_vars

\* Where a return to work is refused because nobody is assigned, the error says
\* to assign an executor: some action that assigns one accepts that status.
StaffingActions == {"SYSTEM_DISPATCH_ASSIGN", "MANAGER_ASSIGN", "EXECUTOR_CLAIM",
                    "SYSTEM_AUTO_PROMOTE"}
ReturnsToWork == {"MANAGER_PURCHASE_DONE", "CLARIFY_RESOLVED", "MANAGER_RETURN_TO_WORK"}
RefusedReturnCanBeStaffed ==
    \A a \in ReturnsToWork :
        Canon(req) \in From[a] /\ req.executor = NoUser
            => \E b \in StaffingActions : Canon(req) \in From[b]

\* The kernel implements the public life cycle: internal steps (addressing a
\* group, claiming, reassigning, a resident's return) are invisible outside,
\* and every visible step is one edge announced in the same transaction.
L == INSTANCE RequestLifecycle WITH
        status <- Public(req),
        feed <- [i \in 1..Len(outbox) |-> <<outbox[i].old, outbox[i].new>>]
PublicLifecycle == L!Lifecycle

=============================================================================
