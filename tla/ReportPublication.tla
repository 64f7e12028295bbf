------------------------- MODULE ReportPublication -------------------------
(***************************************************************************)
(* Publication of work reports: a saga over two stores, the work_reports   *)
(* table and the locks of the media service (MediaFiles), without a        *)
(* two-phase commit.  A publication commits "publishing", validates and    *)
(* locks the files over the network, one commit per lock, and commits      *)
(* "published"; managers edit, reject, reopen and unpublish meanwhile; a   *)
(* reconciliation heals what crashes leave behind.                         *)
(*                                                                         *)
(* Sessions do not expire their objects on commit, and a locking SELECT    *)
(* does not refresh an object the session already holds.  So a session     *)
(* works on its own copy of the row (job.mem), and a commit writes the     *)
(* columns whose value in the copy changed, nothing else.                  *)
(***************************************************************************)
EXTENDS MediaFiles

CONSTANTS
    Reports,      \* one per request: request_number is unique
    Photos,       \* Photos[r]: the files of r's request, nobody else's
    Results,      \* the completion photos; the other files show the problem
    Manual,       \* sessions that publish at a manager's demand
    Automatic,    \* sessions of autopublish_ready_drafts
    SlowPublish   \* may a live publication outlive the threshold of reconcile?

PublicationAssumption ==
    /\ Photos \in [Reports -> SUBSET Media]
    /\ \A r, q \in Reports : r # q => Photos[r] \cap Photos[q] = {}
    /\ Manual \cap Automatic = {}
    /\ SlowPublish \in BOOLEAN

VARIABLES
    eligible,  \* what the request of each report looks like by now
    row,       \* the work_reports table
    aged,      \* reports whose state_changed_at is past the threshold
    job,       \* the publishing sessions
    tail,      \* locks an unpublication has yet to release
    rec        \* the reconciliation pass

vars == <<file, held, sagas, eligible, row, aged, job, tail, rec>>
media == <<file, held, sagas>>

Sessions == Manual \cup Automatic

Status == {"absent", "pending", "needs_media", "publishing", "published", "needs_review", "rejected"}
Editable == {"pending", "needs_media"}
LockHolding == {"published", "publishing", "needs_review"}
Row == [status : Status, media : SUBSET Media, locks : SUBSET Media]
NoRow == [status |-> "absent", media |-> {}, locks |-> {}]

\* hand: the photos just fetched, or the locks just taken.
InSaga == {"validating", "locking", "recording"}
Stage == {"idle", "candidate", "fetched", "ready"} \cup InSaga
Job == [at : Stage, report : Reports, mem : Row, hand : SUBSET Media]

\* one, two: inventory and covered ids, then orphaned and missing ones.
Rec == [at : {"idle", "unstuck", "listed", "compared", "mending"},
        one : SUBSET Media, two : SUBSET Media]
RecIdle == [at |-> "idle", one |-> {}, two |-> {}]

Init ==
    /\ MediaInit
    /\ eligible = [r \in Reports |-> "yes"]
    /\ row = [r \in Reports |-> NoRow]
    /\ aged = {}
    /\ job \in [Sessions -> {j \in [at : {"idle"}, report : Reports, mem : {NoRow}, hand : {{}}] :
                                j.report = CHOOSE r \in Reports : TRUE}]
    /\ tail = [r \in Reports |-> {}]
    /\ rec = RecIdle

-----------------------------------------------------------------------------
\* Helpers.

HasResult(ms) == ms \cap Results # {}
HasBefore(ms) == ms \ Results # {}
ActivePhotos(r) == {m \in Photos[r] : file[m] = "active"}

\* What a commit leaves in the row: changed columns of the copy win.
Pick(now, old, new) == IF new # old THEN new ELSE now
Flushed(now, old, new) ==
    [status |-> Pick(now.status, old.status, new.status),
     media |-> Pick(now.media, old.media, new.media),
     locks |-> Pick(now.locks, old.locks, new.locks)]

Busy(s) == job[s].at \in InSaga
Worked(r) == \E s \in Sessions : Busy(s) /\ job[s].report = r

\* Session s commits its copy as new and goes on to stage at.
Commit(s, new, at, hand) ==
    LET r == job[s].report
    IN /\ row' = [row EXCEPT ![r] = Flushed(@, job[s].mem, new)]
       /\ job' = [job EXCEPT ![s] = [@ EXCEPT !.mem = new, !.at = at, !.hand = hand]]

\* The end of a call: the session and its copy are gone.
Rest(s) == [job EXCEPT ![s] = [at |-> "idle", report |-> job[s].report, mem |-> NoRow, hand |-> {}]]

\* The call ends with a last commit of new.
Close(s, new) ==
    /\ row' = [row EXCEPT ![job[s].report] = Flushed(@, job[s].mem, new)]
    /\ job' = Rest(s)

Quiet == UNCHANGED <<eligible, tail, rec>>

-----------------------------------------------------------------------------
\* Requests and drafts.

\* The request leaves or regains the eligible statuses, or is deleted for good.
RequestChanges(r, e) ==
    /\ eligible[r] # "gone" /\ e # eligible[r]
    /\ eligible' = [eligible EXCEPT ![r] = e]
    /\ UNCHANGED <<media, row, aged, job, tail, rec>>

\* sync_pending_drafts, or a manual report: one row per request.
Draft(r) ==
    /\ row[r].status = "absent" /\ eligible[r] = "yes"
    /\ row' = [row EXCEPT ![r].status = "pending"]
    /\ UNCHANGED <<media, aged, job>> /\ Quiet

MayEdit(status) == status \in Editable

\* apply_media_selection: the result side alone decides.
Selected(rw, ms) ==
    [rw EXCEPT !.media = ms,
               !.status = CASE @ = "pending" /\ ~HasResult(ms) -> "needs_media"
                            [] @ = "needs_media" /\ HasResult(ms) -> "pending"
                            [] OTHER -> @]

\* The PATCH handler has a toggle of its own: both sides decide.
Patched(rw, ms) ==
    [rw EXCEPT !.media = ms,
               !.status = CASE @ = "pending" /\ ~(HasBefore(ms) /\ HasResult(ms)) -> "needs_media"
                            [] @ = "needs_media" /\ HasBefore(ms) /\ HasResult(ms) -> "pending"
                            [] OTHER -> @]

\* Autofill of one report or of a batch, under the row lock; the cap per side
\* is above the number of photos explored.
Autofill(r) ==
    /\ MayEdit(row[r].status)
    /\ row' = [row EXCEPT ![r] = Selected(@, ActivePhotos(r))]
    /\ UNCHANGED <<media, aged, job>> /\ Quiet

\* A manager chooses among the active photos, under the row lock.
Patch(r, ms) ==
    /\ MayEdit(row[r].status)
    /\ ms \subseteq ActivePhotos(r)
    /\ row' = [row EXCEPT ![r] = Patched(@, ms)]
    /\ UNCHANGED <<media, aged, job>> /\ Quiet

Reject(r) ==
    /\ row[r].status \in Editable
    /\ row' = [row EXCEPT ![r].status = "rejected"]
    /\ aged' = aged \ {r}
    /\ UNCHANGED <<media, job>> /\ Quiet

Reopen(r) ==
    /\ row[r].status = "rejected"
    /\ row' = [row EXCEPT ![r].status = "pending"]
    /\ aged' = aged \ {r}
    /\ UNCHANGED <<media, job>> /\ Quiet

\* revoke_stale_publications; the join leaves out deleted requests.
Revoke ==
    LET stale == {r \in Reports : row[r].status = "published" /\ eligible[r] = "no"}
    IN /\ stale # {}
       /\ row' = [r \in Reports |-> IF r \in stale THEN [row[r] EXCEPT !.status = "needs_review"]
                                                   ELSE row[r]]
       /\ aged' = aged \ stale
       /\ UNCHANGED <<media, job>> /\ Quiet

-----------------------------------------------------------------------------
\* publish_report.

\* Mutant: the status is not looked at.
MayPublishAnyway(rw, r) == rw.status # "absent" /\ eligible[r] = "yes" /\ HasResult(rw.media)

MayPublish(rw, r) == rw.status = "pending" /\ eligible[r] = "yes" /\ HasResult(rw.media)

\* Steps 1 to 5 at a manager's demand: a new session reads the row as it is.
StartManual(s, r) ==
    /\ s \in Manual /\ job[s].at = "idle"
    /\ MayPublish(row[r], r)
    /\ row' = [row EXCEPT ![r].status = "publishing"]
    /\ job' = [job EXCEPT ![s] = [at |-> "validating", report |-> r, hand |-> {},
                                  mem |-> [row[r] EXCEPT !.status = "publishing"]]]
    /\ aged' = aged \ {r}
    /\ UNCHANGED media /\ Quiet

\* autopublish loads its candidates without a lock and keeps the objects.
LoadCandidate(s, r) ==
    /\ s \in Automatic /\ job[s].at = "idle"
    /\ row[r].status \in Editable
    /\ job' = [job EXCEPT ![s] = [at |-> "candidate", report |-> r, hand |-> {}, mem |-> row[r]]]
    /\ UNCHANGED <<media, row, aged>> /\ Quiet

\* The photos are fetched over the network, before the row is locked.
FetchSelection(s) ==
    /\ job[s].at = "candidate"
    /\ job' = [job EXCEPT ![s].at = "fetched", ![s].hand = ActivePhotos(job[s].report)]
    /\ UNCHANGED <<media, row, aged>> /\ Quiet

\* The status is checked again in the locking SELECT, on the row; the object
\* it returns is still the copy.
ApplySelection(s) ==
    LET new == Selected(job[s].mem, job[s].hand)
    IN /\ job[s].at = "fetched"
       /\ IF ~MayEdit(row[job[s].report].status) THEN row' = row /\ job' = Rest(s)
          ELSE IF HasResult(new.media) THEN Commit(s, new, "ready", {})
          ELSE Close(s, new)
       /\ UNCHANGED <<media, aged>> /\ Quiet

\* Steps 1 to 5 of an automatic publication: the check reads the copy.
StartAutomatic(s) ==
    /\ job[s].at = "ready"
    /\ IF MayPublish(job[s].mem, job[s].report)
       THEN /\ Commit(s, [job[s].mem EXCEPT !.status = "publishing"], "validating", {})
            /\ aged' = aged \ {job[s].report}
       ELSE job' = Rest(s) /\ UNCHANGED <<row, aged>>
    /\ UNCHANGED media /\ Quiet

\* Step 6, without the row lock.
Validate(s) ==
    /\ job[s].at = "validating"
    /\ job[s].mem.media \subseteq ActivePhotos(job[s].report)
    /\ job' = [job EXCEPT ![s].at = "locking"]
    /\ UNCHANGED <<media, row, aged>> /\ Quiet

\* An invalid file, or no answer: back to pending.
ValidationFails(s) ==
    /\ job[s].at = "validating"
    /\ Close(s, [job[s].mem EXCEPT !.status = "pending"])
    /\ aged' = aged \ {job[s].report}
    /\ UNCHANGED media /\ Quiet

\* Step 7: one lock, then the commit that records it.
AcquireNext(s, m) ==
    /\ job[s].at = "locking" /\ m \in job[s].mem.media \ job[s].hand
    /\ Acquire(m)
    /\ job' = [job EXCEPT ![s].at = "recording", ![s].hand = @ \cup {m}]
    /\ UNCHANGED <<row, aged>> /\ Quiet

Recorded(s) == [job[s].mem EXCEPT !.locks = job[s].hand]

RecordLock(s) ==
    /\ job[s].at = "recording"
    /\ Commit(s, Recorded(s), "locking", job[s].hand)
    /\ UNCHANGED <<media, aged>> /\ Quiet

\* The file is not active, or no answer came (and the lock may be taken all the
\* same): the locks of this attempt are released, some releases may be lost.
AcquireFails(s, m, taken, lost) ==
    /\ job[s].at = "locking" /\ m \in job[s].mem.media \ job[s].hand
    /\ taken => Lockable(m)
    /\ lost \subseteq job[s].hand
    /\ held' = (held \cup (IF taken THEN {m} ELSE {})) \ (job[s].hand \ lost)
    /\ Close(s, [job[s].mem EXCEPT !.status = "pending", !.locks = {}])
    /\ aged' = aged \ {job[s].report}
    /\ UNCHANGED <<file, sagas>> /\ Quiet

\* Steps 8 and 9: the metadata of every locked file is there, and it is public.
Finish(s) ==
    /\ job[s].at = "locking" /\ job[s].hand = job[s].mem.media
    /\ job[s].hand \subseteq ActivePhotos(job[s].report)
    /\ Close(s, [job[s].mem EXCEPT !.status = "published"])
    /\ UNCHANGED <<media, aged>> /\ Quiet

\* Step 8 finds a locked file missing among the active ones: the call fails and
\* leaves the transient status to the reconciliation.
SnapshotFails(s) ==
    /\ job[s].at = "locking" /\ job[s].hand = job[s].mem.media
    /\ ~(job[s].hand \subseteq ActivePhotos(job[s].report))
    /\ job' = Rest(s)
    /\ UNCHANGED <<media, row, aged>> /\ Quiet

\* The process dies, or a call fails in a way nobody compensates.
PublisherDies(s) ==
    /\ job[s].at # "idle"
    /\ job' = Rest(s)
    /\ UNCHANGED <<media, row, aged>> /\ Quiet

-----------------------------------------------------------------------------
\* unpublish_report.

Hidden(rw) == [rw EXCEPT !.status = "rejected", !.locks = {}]

\* Files of one report are never those of another, so the exclusion of locks
\* shared with other live reports leaves the list as it is.
Shared(r) == UNION {row[q].locks : q \in {p \in Reports \ {r} : row[p].status \in LockHolding}}

\* Hidden first; what is to be released is remembered by the call alone.
Unpublish(r) ==
    /\ row[r].status \in {"published", "needs_review"}
    /\ row' = [row EXCEPT ![r] = Hidden(@)]
    /\ tail' = [tail EXCEPT ![r] = @ \cup (row[r].locks \ Shared(r))]
    /\ aged' = aged \ {r}
    /\ UNCHANGED <<media, eligible, job, rec>>

\* Released afterwards, one by one; a release may be lost.
ReleaseNext(r, m) ==
    /\ m \in tail[r]
    /\ Release({m}) \/ UNCHANGED media
    /\ tail' = [tail EXCEPT ![r] = @ \ {m}]
    /\ UNCHANGED <<eligible, row, aged, job, rec>>

UnpublisherDies(r) ==
    /\ tail[r] # {}
    /\ tail' = [tail EXCEPT ![r] = {}]
    /\ UNCHANGED <<media, eligible, row, aged, job, rec>>

-----------------------------------------------------------------------------
\* reconcile_publication_locks, one pass at a time.

StuckWithLocks == {r \in Reports : row[r].status = "publishing" /\ r \in aged /\ row[r].locks # {}}

Stuck == {r \in Reports : row[r].status = "publishing" /\ r \in aged}

\* Time passes over a publication that died, or that is merely slow.
Age(r) ==
    /\ row[r].status = "publishing" /\ r \notin aged
    /\ SlowPublish \/ ~Worked(r)
    /\ aged' = aged \cup {r}
    /\ UNCHANGED <<media, row, job>> /\ Quiet

Unstuck(rw) == [rw EXCEPT !.status = "pending", !.locks = {}]

\* 1: the rows are locked over the releases; some releases may be lost.
RecUnstick(lost) ==
    /\ rec.at = "idle"
    /\ LET locks == UNION {row[r].locks : r \in Stuck}
       IN lost \subseteq locks /\ Release(locks \ lost)
    /\ row' = [r \in Reports |-> IF r \in Stuck THEN Unstuck(row[r]) ELSE row[r]]
    /\ aged' = aged \ Stuck
    /\ rec' = [rec EXCEPT !.at = "unstuck"]
    /\ UNCHANGED <<eligible, job, tail>>

\* 2: the inventory of the media service, then the locks the reports list.
RecList ==
    /\ rec.at = "unstuck"
    /\ rec' = [rec EXCEPT !.at = "listed", !.one = held]
    /\ UNCHANGED <<media, eligible, row, aged, job, tail>>

Covered == UNION {row[r].locks : r \in {q \in Reports : row[q].status \in LockHolding}}

RecCompare ==
    /\ rec.at = "listed"
    /\ rec' = [rec EXCEPT !.at = "compared", !.two = Covered]
    /\ UNCHANGED <<media, eligible, row, aged, job, tail>>

InFlight == \E r \in Reports : row[r].status = "publishing"

\* Orphans are left alone while any publication is under way.
RecDecide ==
    /\ rec.at = "compared"
    /\ rec' = [at |-> "mending",
               one |-> IF InFlight THEN {} ELSE rec.one \ rec.two,
               two |-> rec.two \ rec.one]
    /\ UNCHANGED <<media, eligible, row, aged, job, tail>>

RecRelease(m) ==
    /\ rec.at = "mending" /\ m \in rec.one
    /\ Release({m}) \/ UNCHANGED media
    /\ rec' = [rec EXCEPT !.one = @ \ {m}]
    /\ UNCHANGED <<eligible, row, aged, job, tail>>

\* 3: missing locks are taken again, as far as possible.
RecRelock(m) ==
    /\ rec.at = "mending" /\ rec.one = {} /\ m \in rec.two
    /\ Acquire(m) \/ UNCHANGED media
    /\ rec' = [rec EXCEPT !.two = @ \ {m}]
    /\ UNCHANGED <<eligible, row, aged, job, tail>>

\* 4: the media service recovers its own transits.
RecResolve(old) ==
    /\ rec.at = "mending" /\ rec.one = {} /\ rec.two = {}
    /\ Resolve(old)
    /\ rec' = RecIdle
    /\ UNCHANGED <<eligible, row, aged, job, tail>>

\* The pass dies, or the inventory cannot be had.  With nothing left to mend it
\* ends as RecResolve of nothing does.
RecDies ==
    /\ rec.at # "idle"
    /\ ~(rec.at = "mending" /\ rec.one = {} /\ rec.two = {})
    /\ rec' = RecIdle
    /\ UNCHANGED <<media, eligible, row, aged, job, tail>>

RecProgress ==
    \/ \E lost \in SUBSET Media : RecUnstick(lost)
    \/ RecList \/ RecCompare \/ RecDecide
    \/ \E m \in Media : RecRelease(m) \/ RecRelock(m)
    \/ \E old \in SUBSET Media : RecResolve(old)

-----------------------------------------------------------------------------
MediaStep ==
    /\ \E m \in Media, kind \in Reservation : SagaStep(m, kind)
    /\ UNCHANGED <<eligible, row, aged, job, tail, rec>>

ReportStep(r) ==
    \/ \E e \in {"yes", "no", "gone"} : RequestChanges(r, e)
    \/ Draft(r) \/ Autofill(r) \/ Reject(r) \/ Reopen(r) \/ Age(r)
    \/ \E ms \in SUBSET Media : Patch(r, ms)
    \/ Unpublish(r) \/ UnpublisherDies(r)
    \/ \E m \in Media : ReleaseNext(r, m)

PublisherProgress(s) ==
    \/ FetchSelection(s) \/ ApplySelection(s) \/ StartAutomatic(s)
    \/ Validate(s) \/ ValidationFails(s) \/ RecordLock(s) \/ Finish(s)
    \/ SnapshotFails(s)
    \/ \E m \in Media : AcquireNext(s, m)
    \/ \E m \in Media, taken \in BOOLEAN, lost \in SUBSET Media : AcquireFails(s, m, taken, lost)

SessionStep(s) ==
    \/ \E r \in Reports : StartManual(s, r) \/ LoadCandidate(s, r)
    \/ PublisherProgress(s)
    \/ PublisherDies(s)

Next ==
    \/ MediaStep
    \/ \E r \in Reports : ReportStep(r)
    \/ Revoke
    \/ \E s \in Sessions : SessionStep(s)
    \/ RecProgress
    \/ RecDies

Spec == Init /\ [][Next]_vars

\* Every HTTP call has a timeout, so a publication goes on or fails; time
\* passes; the scheduler runs the reconciliation for ever, its passes do not
\* die for ever, and a call repeated for ever is answered some time.
Fairness ==
    /\ \A s \in Sessions : WF_vars(PublisherProgress(s))
    /\ \A r \in Reports : WF_vars(Age(r))
    /\ WF_vars(RecProgress) /\ <>[][~RecDies]_vars
    /\ \A m \in Media : /\ SF_vars(RecRelease(m) /\ m \notin held')
                        /\ SF_vars(RecRelock(m) /\ m \in held')

FairSpec == Spec /\ Fairness

-----------------------------------------------------------------------------
TypeOK ==
    /\ MediaTypeOK
    /\ eligible \in [Reports -> {"yes", "no", "gone"}]
    /\ row \in [Reports -> Row]
    /\ aged \subseteq Reports
    /\ job \in [Sessions -> Job]
    /\ tail \in [Reports -> SUBSET Media]
    /\ rec \in Rec

\* The status of every report lives the life its model documents, whatever
\* the order of publications, compensations, crashes and maintenance.
Lifecycle == INSTANCE PublicationLifecycle WITH phase <- [r \in Reports |-> row[r].status]
LifecycleSpec == Lifecycle!Spec

\* At most one publication of a report is under way.
OnePublisher ==
    \A s, t \in Sessions : Busy(s) /\ Busy(t) /\ job[s].report = job[t].report => s = t

\* A report does not stay in the transient status, whatever died.
StuckHeals ==
    \A r \in Reports : row[r].status = "publishing" ~> row[r].status # "publishing"

\* A public photo that lost its lock, and is still there, is locked again.
LostLockHeals ==
    \A r \in Reports, m \in Media :
        row[r].status = "published" /\ m \in row[r].media \ held ~>
            m \in held \/ row[r].status # "published" \/ file[m] # "active"

\* A lock nobody needs any more is released.
OrphanHeals ==
    \A r \in Reports : \A m \in Photos[r] :
        row[r].status = "rejected" /\ m \in held ~> m \notin held \/ row[r].status # "rejected"

\* reconcile_publication_locks heals what crashes leave behind: no report stays
\* "publishing", a public photo that lost its lock is locked again, a lock nobody
\* needs is released.
SagaHeals == StuckHeals /\ LostLockHeals /\ OrphanHeals
=============================================================================
