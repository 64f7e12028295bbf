------------------------- MODULE AssignmentWriters -------------------------
(***************************************************************************)
(* The writers that change the executor or the assignment of a request     *)
(* without the row lock of the workflow runner, interleaved with it:       *)
(*   duty     - the bot's "assign to the shift on duty" button             *)
(*              (handlers/admin, AssignmentService.assign_to_group);       *)
(*   transfer - moving an executor's open requests to a colleague when a   *)
(*              shift is handed over or an account is deleted              *)
(*              (reassign_executor, apply_executor_reassign);              *)
(*   sync     - the nightly pass that cancels assignments of executors who *)
(*              have no shift that day.                                    *)
(* Each works in an ORM session: what it has loaded stays as it was until  *)
(* the session commits, and the commit writes back only the columns whose  *)
(* value the session changed, on top of whatever others committed since.   *)
(***************************************************************************)
EXTENDS RequestWorkflow

CONSTANT Writers   \* which of these writers run

ASSUME WritersAssumption == Writers \subseteq {"duty", "transfer", "sync"}

VARIABLES
    duty,       \* the session of the duty button
    transfer    \* the session of the shift transfer

writerVars == <<req, active, rows, rated, outbox, onShift, duty, transfer>>

NoDuty == [phase |-> "idle", status |-> "NEW", executor |-> NoUser, group |-> NoGroup,
           to |-> NoGroup, row |-> 0]
NoTransfer == [phase |-> "idle", executor |-> NoUser, row |-> 0, holder |-> NoUser,
               to |-> NoUser]

KeepRequest == UNCHANGED <<req, active, rows, rated, outbox, onShift>>

-----------------------------------------------------------------------------
(* The duty button.                                                         *)

\* The handler loads the request into its session.
DutyLoad(u, g) ==
    /\ "duty" \in Writers
    /\ duty.phase = "idle"
    /\ IsManager(u)
    /\ duty' = [phase |-> "loaded", status |-> Canon(req), executor |-> req.executor,
                group |-> req.group, to |-> g, row |-> 0]
    /\ UNCHANGED transfer /\ KeepRequest

\* auto_assign_request_by_category gives up on a request that has an assignment.
DutyCheck ==
    /\ duty.phase = "loaded"
    /\ duty' = IF active.type # "none" THEN NoDuty ELSE [duty EXCEPT !.phase = "checked"]
    /\ UNCHANGED transfer /\ KeepRequest

\* assign_to_group: its guard looks at the loaded copy; the assignments to be
\* cancelled are queried now.
DutyPlan ==
    /\ duty.phase = "checked"
    /\ duty' = IF duty.executor # NoUser /\ duty.status = "IN_PROGRESS"
               THEN NoDuty
               ELSE [duty EXCEPT !.phase = "planned", !.row = active.row]
    /\ UNCHANGED transfer /\ KeepRequest

\* Mutant: the executor is reset whatever the loaded copy said.
DutyCommitBlind ==
    /\ duty.phase = "planned"
    /\ duty' = NoDuty
    /\ CreateAssignment("group", NoUser, duty.to)
    /\ req' = [req EXCEPT !.group = duty.to, !.executor = NoUser]
    /\ UNCHANGED <<rated, outbox, onShift, transfer>>

\* The commit cancels the rows found, inserts the group row and writes the
\* changed columns.  An active row it does not know of violates the unique
\* index and rolls the session back.
DutyCommit ==
    /\ duty.phase = "planned"
    /\ duty' = NoDuty
    /\ IF active.row # duty.row /\ active.type # "none"
       THEN UNCHANGED <<req, active, rows>>
       ELSE /\ CreateAssignment("group", NoUser, duty.to)
            /\ req' = [req EXCEPT !.group = IF duty.group # duty.to THEN duty.to ELSE @,
                                  !.executor = IF duty.executor # NoUser THEN NoUser ELSE @]
    /\ UNCHANGED <<rated, outbox, onShift, transfer>>

-----------------------------------------------------------------------------
(* The shift transfer.                                                      *)

\* The request is selected by its executor and an open status.
TransferLoad(e) ==
    /\ "transfer" \in Writers
    /\ transfer.phase = "idle"
    /\ req.status \in {"IN_PROGRESS", "PURCHASE", "CLARIFICATION"}
    /\ req.executor \notin {NoUser, e}
    /\ transfer' = [NoTransfer EXCEPT !.phase = "loaded", !.executor = req.executor, !.to = e]
    /\ UNCHANGED duty /\ KeepRequest

\* reassign_executor queries the active assignment of the request.
TransferRow ==
    /\ transfer.phase = "loaded"
    /\ transfer' = [transfer EXCEPT !.phase = "planned",
                                    !.row = IF active.type = "individual" THEN active.row ELSE 0,
                                    !.holder = active.executor]
    /\ UNCHANGED duty /\ KeepRequest

\* The commit rewrites the executor of the request and of the individual row
\* found, which may be cancelled by now.
TransferCommit ==
    /\ transfer.phase = "planned"
    /\ transfer' = NoTransfer
    /\ req' = [req EXCEPT !.executor = transfer.to]
    /\ active' = IF transfer.row # 0 /\ active.row = transfer.row /\ transfer.holder # transfer.to
                 THEN [active EXCEPT !.executor = transfer.to] ELSE active
    /\ UNCHANGED <<rows, rated, outbox, onShift, duty>>

-----------------------------------------------------------------------------
(* The nightly synchronisation cancels the row and leaves the request as it *)
(* is: the reassignment that should follow goes through a dispatcher method *)
(* that does not exist and yields nothing.                                  *)
SyncCancel ==
    /\ "sync" \in Writers
    /\ active.type = "individual" /\ active.executor \notin onShift
    /\ active' = NoAssignment
    /\ UNCHANGED <<req, rows, rated, outbox, onShift, duty, transfer>>

-----------------------------------------------------------------------------
WInit == Init /\ req.status = "NEW" /\ duty = NoDuty /\ transfer = NoTransfer

DutyStep == (\E u \in Users, g \in Groups : DutyLoad(u, g)) \/ DutyCheck \/ DutyPlan \/ DutyCommit
TransferStep == (\E e \in Users : TransferLoad(e)) \/ TransferRow \/ TransferCommit
KernelStep == Next /\ UNCHANGED <<duty, transfer>>

WNext == KernelStep \/ DutyStep \/ TransferStep \/ SyncCancel

WSpec == WInit /\ [][WNext]_writerVars
-----------------------------------------------------------------------------
(* Properties.  InProgressHasExecutor, RequestMirrorsAssignment and the     *)
(* announcement properties of RequestWorkflow are checked here too.         *)

\* The unlocked writers never take part in the status protocol: whatever they
\* interleave with, the status changes only together with its version, and a
\* change the public can see only together with its announcement.
StatusNeverMovesSilently ==
    [][req'.status # req.status =>
          /\ req'.version = req.version + 1
          /\ Public(req') # Public(req) => Len(outbox') = Len(outbox) + 1]_writerVars
=============================================================================
