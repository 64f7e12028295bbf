--------------------------- MODULE OperationsProofs ---------------------------
(***************************************************************************)
(* Theorems about the publication of work reports with the media service   *)
(* under it, about the comparison with InfraSafe, about automatic          *)
(* assignment and about the readings of a meter.                           *)
(*                                                                         *)
(* Publication, for any reports, files and sessions: types, the locks of   *)
(* files, and the life of a report's status.  Those about locks need that  *)
(* no archiving or deletion outlives the threshold of its recovery.        *)
(*                                                                         *)
(* Comparison, for any requests, any processes and any pools of            *)
(* connections: types, and one comparison at a time.                       *)
(*                                                                         *)
(* Automatic assignment, for any requests and executors: nobody displaced; *)
(* types, which need that the choice of an executor is one who is on duty  *)
(* and that the passes of a tick, numbered by rank, fit into its slots;    *)
(* a tick spreads its work evenly, and keeps to its limit.                 *)
(*                                                                         *)
(* Readings of a meter, for any months, values and sessions: types, and    *)
(* that the history of a reading ends with the value the reading has,      *)
(* although sessions compute on copies and lock nothing.  The invariant    *)
(* says of a job that waits for its commit what its copies and its         *)
(* revision have in common: a recalculated month keeps the value of its    *)
(* copy, so that the commit does not write that column, and the revision   *)
(* of the month itself goes from the value that was read to the value that *)
(* is written.                                                             *)
(*                                                                         *)
(* Last, the scenarios of MCOperations: their behaviours are behaviours of *)
(* every component, the outbox, the stock and the intake of requests       *)
(* included.                                                               *)
(***************************************************************************)
EXTENDS MCOperations, MaterialLedgerProofs, RequestIntakeProofs,
        FiniteSetTheorems, SequenceTheorems, WellFoundedInduction, TLAPS

-----------------------------------------------------------------------------
\* The media service by itself.

LEMMA MediaTypeInit == MediaInit => MediaTypeOK
BY DEF MediaInit, MediaTypeOK, FileStatus

LEMMA MediaTypeStep == MediaTypeOK /\ [MediaNext]_mediaVars => MediaTypeOK'
<1> SUFFICES ASSUME MediaTypeOK, [MediaNext]_mediaVars PROVE MediaTypeOK'
    OBVIOUS
<1> USE DEF MediaTypeOK, FileStatus, Reservation
<1>1. ASSUME NEW m \in Media, NEW kind \in Reservation, SagaStep(m, kind) PROVE MediaTypeOK'
  <2>1. CASE Reserve(m, kind)
    BY <2>1 DEF Reserve
  <2>2. CASE Conclude(m, kind)
    BY <2>2 DEF Conclude, Outcome
  <2>3. CASE Abandon(m, kind)
    BY <2>3 DEF Abandon
  <2>4. QED
    BY <1>1, <2>1, <2>2, <2>3 DEF SagaStep
<1>2. ASSUME NEW m \in Media, Acquire(m) PROVE MediaTypeOK'
  BY <1>2 DEF Acquire
<1>3. ASSUME NEW ms \in SUBSET Media, Release(ms) PROVE MediaTypeOK'
  BY <1>3 DEF Release
<1>4. ASSUME NEW old \in SUBSET Media, Resolve(old) PROVE MediaTypeOK'
  BY <1>4 DEF Resolve, Resolved
<1>5. CASE UNCHANGED mediaVars
  BY <1>5 DEF mediaVars
<1>6. QED
  BY <1>1, <1>2, <1>3, <1>4, <1>5 DEF MediaNext

\* The media service keeps its variables to their kinds, whatever dies on the way.
THEOREM MediaTypeCorrect == MediaSpec => []MediaTypeOK
BY MediaTypeInit, MediaTypeStep, PTL DEF MediaSpec

-----------------------------------------------------------------------------
\* A live saga finds its file as it left it.
SagasHold == \A m \in Media, kind \in Reservation : <<m, kind>> \in sagas => file[m] = kind

MediaInv == MediaTypeOK /\ LockedStaysActive /\ SagasHold

LEMMA MediaInvInit == MediaInit => MediaInv
BY MediaTypeInit DEF MediaInit, MediaInv, LockedStaysActive, SagasHold

LEMMA MediaInvStep ==
  ASSUME SlowSagas = {}, MediaInv, [MediaNext]_mediaVars PROVE MediaInv'
<1> USE DEF MediaInv
<1>0. MediaTypeOK'
  BY MediaTypeStep
<1> SUFFICES LockedStaysActive' /\ SagasHold'
  BY <1>0
<1> USE DEF MediaTypeOK, FileStatus, Reservation, LockedStaysActive, SagasHold
<1>1. ASSUME NEW m \in Media, NEW kind \in Reservation, SagaStep(m, kind)
      PROVE LockedStaysActive' /\ SagasHold'
  <2>1. CASE Reserve(m, kind)
    BY <2>1 DEF Reserve, Reservable
  <2>2. CASE Conclude(m, kind)
    <3>1. file[m] = kind /\ m \notin held
      BY <2>2 DEF Conclude
    <3>2. PICK outcome \in {Outcome(kind), "active"} : file' = [file EXCEPT ![m] = outcome]
      BY <2>2 DEF Conclude
    <3>3. LockedStaysActive'
      BY <2>2, <3>1, <3>2 DEF Conclude
    <3>4. ASSUME NEW n \in Media, NEW k \in Reservation, <<n, k>> \in sagas'
          PROVE file'[n] = k
      BY <2>2, <3>1, <3>2, <3>4 DEF Conclude
    <3>5. QED
      BY <3>3, <3>4
  <2>3. CASE Abandon(m, kind)
    BY <2>3 DEF Abandon
  <2>4. QED
    BY <1>1, <2>1, <2>2, <2>3 DEF SagaStep
<1>2. ASSUME NEW m \in Media, Acquire(m) PROVE LockedStaysActive' /\ SagasHold'
  BY <1>2 DEF Acquire, Lockable
<1>3. ASSUME NEW ms \in SUBSET Media, Release(ms) PROVE LockedStaysActive' /\ SagasHold'
  BY <1>3 DEF Release
<1>4. ASSUME NEW old \in SUBSET Media, Resolve(old) PROVE LockedStaysActive' /\ SagasHold'
  BY <1>4, SlowSagas = {} DEF Resolve, Resolved, Stale
<1>5. CASE UNCHANGED mediaVars
  BY <1>5 DEF mediaVars
<1>6. QED
  BY <1>1, <1>2, <1>3, <1>4, <1>5 DEF MediaNext

\* A file a publication holds is active: archiving, deleting and their recovery never
\* overtake the lock, as long as no saga outlives the threshold of the recovery.
THEOREM MediaLockSafe == SlowSagas = {} => (MediaSpec => []LockedStaysActive)
<1> SUFFICES ASSUME SlowSagas = {} PROVE MediaSpec => []LockedStaysActive
    OBVIOUS
<1>1. MediaInv /\ [MediaNext]_mediaVars => MediaInv'
  BY MediaInvStep
<1>2. MediaInv => LockedStaysActive
  BY DEF MediaInv
<1>3. QED
  BY MediaInvInit, <1>1, <1>2, PTL DEF MediaSpec

\* The recovery of a dead deletion gives no file back: only the live saga may.
THEOREM MediaNotRevived == SlowSagas = {} => (MediaSpec => NeverRevivedBlindly)
<1> SUFFICES ASSUME SlowSagas = {} PROVE MediaSpec => NeverRevivedBlindly
    OBVIOUS
<1>1. MediaInv /\ [MediaNext]_mediaVars => MediaInv'
  BY MediaInvStep
<1>2. ASSUME MediaInv, [MediaNext]_mediaVars,
             NEW m \in Media, file[m] = "deleting", file'[m] = "active"
      PROVE <<m, "deleting">> \in sagas
  <2> USE DEF MediaInv, MediaTypeOK, Reservation, SagasHold
  <2>1. ASSUME NEW n \in Media, NEW kind \in Reservation, SagaStep(n, kind)
        PROVE <<m, "deleting">> \in sagas
    <3>1. CASE Reserve(n, kind)
      BY <1>2, <3>1 DEF Reserve, Reservable
    <3>2. CASE Conclude(n, kind)
      BY <1>2, <3>2 DEF Conclude
    <3>3. CASE Abandon(n, kind)
      BY <1>2, <3>3 DEF Abandon
    <3>4. QED
      BY <2>1, <3>1, <3>2, <3>3 DEF SagaStep
  <2>2. ASSUME NEW old \in SUBSET Media, Resolve(old) PROVE FALSE
    BY <1>2, <2>2 DEF Resolve, Resolved
  <2>3. QED
    BY <1>2, <2>1, <2>2 DEF MediaNext, Acquire, Release, mediaVars
<1>3. MediaInv /\ [MediaNext]_mediaVars
      => [\A m \in Media : file[m] = "deleting" /\ file'[m] = "active" => <<m, "deleting">> \in sagas]_mediaVars
  BY <1>2
<1>4. QED
  BY MediaInvInit, <1>1, <1>3, PTL DEF MediaSpec, NeverRevivedBlindly

-----------------------------------------------------------------------------
\* The saga above it.

LEMMA FlushedTyped == \A now, old, new \in Row : Flushed(now, old, new) \in Row
BY DEF Flushed, Pick, Row

LEMMA SelectedTyped ==
  \A x \in Row, ms \in SUBSET Media : Selected(x, ms) \in Row /\ Patched(x, ms) \in Row
<1> SUFFICES ASSUME NEW x \in Row, NEW ms \in SUBSET Media PROVE Selected(x, ms) \in Row /\ Patched(x, ms) \in Row
    OBVIOUS
<1>1. \A st \in Status : [x EXCEPT !.media = ms, !.status = st] \in Row
  BY DEF Row
<1>2. \E st \in Status : Selected(x, ms) = [x EXCEPT !.media = ms, !.status = st]
  BY DEF Selected, Row, Status
<1>3. \E st \in Status : Patched(x, ms) = [x EXCEPT !.media = ms, !.status = st]
  BY DEF Patched, Row, Status
<1>4. QED
  BY <1>1, <1>2, <1>3

LEMMA SagaTypeInit == PublicationAssumption /\ Init => TypeOK
<1> SUFFICES ASSUME Init PROVE TypeOK
    OBVIOUS
<1>1. NoRow \in Row
  BY DEF NoRow, Row, Status
<1>2. job \in [Sessions -> Job]
  BY <1>1 DEF Init, Job, Stage
<1>3. RecIdle \in Rec
  BY DEF RecIdle, Rec
<1>4. QED
  BY <1>1, <1>2, <1>3, MediaTypeInit DEF Init, TypeOK

\* What a commit and the end of a call leave behind.
LEMMA CommitTyped ==
  ASSUME TypeOK, NEW s \in Sessions, NEW new \in Row
  PROVE  /\ Close(s, new) => row' \in [Reports -> Row] /\ job' \in [Sessions -> Job]
         /\ job' = Rest(s) => job' \in [Sessions -> Job]
         /\ \A at \in Stage, hand \in SUBSET Media :
                Commit(s, new, at, hand) => row' \in [Reports -> Row] /\ job' \in [Sessions -> Job]
<1>0. job[s] \in Job /\ job[s].report \in Reports /\ job[s].mem \in Row /\ row[job[s].report] \in Row
  BY DEF TypeOK, Job
<1>1. NoRow \in Row /\ "idle" \in Stage
  BY DEF NoRow, Row, Status, Stage
<1>2. Rest(s) \in [Sessions -> Job]
  BY <1>0, <1>1 DEF Rest, TypeOK, Job
<1>3. Flushed(row[job[s].report], job[s].mem, new) \in Row
  BY <1>0, FlushedTyped
<1>4. ASSUME NEW at \in Stage, NEW hand \in SUBSET Media, Commit(s, new, at, hand)
      PROVE  row' \in [Reports -> Row] /\ job' \in [Sessions -> Job]
  <2> DEFINE j == [job[s] EXCEPT !.mem = new, !.at = at, !.hand = hand]
  <2>1. j \in Job
    BY <1>0 DEF Job
  <2>2. job' = [job EXCEPT ![s] = j]
    BY <1>4 DEF Commit
  <2> HIDE DEF j
  <2>3. QED
    BY <1>3, <1>4, <2>1, <2>2 DEF Commit, TypeOK
<1>5. QED
  BY <1>2, <1>3, <1>4 DEF Close, TypeOK

\* What each kind of step leaves to its kinds.
LEMMA ReportTyped ==
  ASSUME PublicationAssumption, TypeOK, NEW r \in Reports, ReportStep(r)
  PROVE  TypeOK'
<1>0. row[r] \in Row /\ Photos[r] \subseteq Media /\ ActivePhotos(r) \subseteq Media
  BY DEF TypeOK, PublicationAssumption, ActivePhotos
<1>1. \A st \in Status : [row[r] EXCEPT !.status = st] \in Row
  BY <1>0 DEF Row
<1>2. Hidden(row[r]) \in Row /\ row[r].locks \subseteq Media
  BY <1>0 DEF Hidden, Row, Status
<1>3. ASSUME NEW e \in {"yes", "no", "gone"}, RequestChanges(r, e) PROVE TypeOK'
  BY <1>3 DEF RequestChanges, TypeOK, MediaTypeOK, media
<1>4. CASE Draft(r) \/ Reject(r) \/ Reopen(r)
  <2>1. \E st \in Status : row' = [row EXCEPT ![r] = [row[r] EXCEPT !.status = st]]
    BY <1>4 DEF Draft, Reject, Reopen, Status
  <2>2. row' \in [Reports -> Row] /\ aged' \subseteq aged
    BY <1>1, <1>4, <2>1 DEF TypeOK, Draft, Reject, Reopen
  <2>3. UNCHANGED <<media, eligible, job, tail, rec>>
    BY <1>4 DEF Draft, Reject, Reopen, Quiet
  <2>4. QED
    BY <2>2, <2>3 DEF TypeOK, MediaTypeOK, media
<1>5. ASSUME NEW ms \in SUBSET Media, Autofill(r) \/ Patch(r, ms) PROVE TypeOK'
  <2>1. row' \in [Reports -> Row]
    BY <1>0, <1>5, SelectedTyped DEF Autofill, Patch, TypeOK
  <2>2. UNCHANGED <<media, eligible, aged, job, tail, rec>>
    BY <1>5 DEF Autofill, Patch, Quiet
  <2>3. QED
    BY <2>1, <2>2 DEF TypeOK, MediaTypeOK, media
<1>6. CASE Age(r)
  BY <1>6 DEF Age, Quiet, TypeOK, MediaTypeOK, media
<1>7. CASE Unpublish(r)
  <2>1. row' \in [Reports -> Row] /\ tail' \in [Reports -> SUBSET Media] /\ aged' \subseteq aged
    BY <1>2, <1>7 DEF Unpublish, TypeOK
  <2>2. UNCHANGED <<media, eligible, job, rec>>
    BY <1>7 DEF Unpublish
  <2>3. QED
    BY <2>1, <2>2 DEF TypeOK, MediaTypeOK, media
<1>8. CASE UnpublisherDies(r)
  BY <1>8 DEF UnpublisherDies, TypeOK, MediaTypeOK, media
<1>9. ASSUME NEW m \in Media, ReleaseNext(r, m) PROVE TypeOK'
  <2>1. held' \subseteq held /\ file' = file /\ sagas' = sagas
    BY <1>9 DEF ReleaseNext, Release, media
  <2>2. QED
    BY <1>9, <2>1 DEF ReleaseNext, TypeOK, MediaTypeOK
<1>10. QED
  BY <1>3, <1>4, <1>5, <1>6, <1>7, <1>8, <1>9 DEF ReportStep

LEMMA SessionTyped ==
  ASSUME PublicationAssumption, TypeOK, NEW s \in Sessions, SessionStep(s)
  PROVE  TypeOK'
<1> DEFINE j == job[s]
           x == job[s].mem
<1>0. /\ j \in Job /\ j.report \in Reports /\ x \in Row /\ j.hand \subseteq Media
      /\ ActivePhotos(j.report) \subseteq Media /\ x.media \subseteq Media
      /\ NoRow \in Row
      /\ "idle" \in Stage /\ "candidate" \in Stage /\ "fetched" \in Stage /\ "ready" \in Stage
      /\ "validating" \in Stage /\ "locking" \in Stage /\ "recording" \in Stage
  BY DEF TypeOK, Job, Row, PublicationAssumption, ActivePhotos, NoRow, Status, Stage, InSaga
<1>1. \A st \in Status : [x EXCEPT !.status = st] \in Row /\ [x EXCEPT !.status = st, !.locks = {}] \in Row
  BY <1>0 DEF Row
<1> HIDE DEF j, x
<1>2. ASSUME NEW k \in Job, job' = [job EXCEPT ![s] = k], UNCHANGED <<eligible, tail, rec>>,
             row' \in [Reports -> Row], aged' \subseteq aged, UNCHANGED media
      PROVE  TypeOK'
  BY <1>2 DEF TypeOK, MediaTypeOK, media
<1>3. ASSUME UNCHANGED <<eligible, tail, rec>>, row' \in [Reports -> Row], job' \in [Sessions -> Job],
             aged' \subseteq aged, held' \subseteq Media, UNCHANGED <<file, sagas>>
      PROVE  TypeOK'
  BY <1>3 DEF TypeOK, MediaTypeOK
<1>4. ASSUME NEW r \in Reports, StartManual(s, r) \/ LoadCandidate(s, r) PROVE TypeOK'
  <2>1. [row[r] EXCEPT !.status = "publishing"] \in Row /\ row[r] \in Row
    BY DEF TypeOK, Row, Status
  <2>2. CASE StartManual(s, r)
    <3> DEFINE k == [at |-> "validating", report |-> r, hand |-> {},
                     mem |-> [row[r] EXCEPT !.status = "publishing"]]
    <3>1. k \in Job
      BY <1>0, <2>1 DEF Job
    <3>2. job' = [job EXCEPT ![s] = k]
      BY <2>2 DEF StartManual
    <3> HIDE DEF k
    <3>3. QED
      BY <1>2, <2>1, <2>2, <3>1, <3>2 DEF StartManual, Quiet, TypeOK
  <2>3. CASE LoadCandidate(s, r)
    <3> DEFINE k == [at |-> "candidate", report |-> r, hand |-> {}, mem |-> row[r]]
    <3>1. k \in Job
      BY <1>0, <2>1 DEF Job
    <3>2. job' = [job EXCEPT ![s] = k]
      BY <2>3 DEF LoadCandidate
    <3> HIDE DEF k
    <3>3. QED
      BY <1>2, <2>3, <3>1, <3>2 DEF LoadCandidate, Quiet, TypeOK
  <2>4. QED
    BY <1>4, <2>2, <2>3
<1>5. CASE FetchSelection(s)
  <2> DEFINE k == [j EXCEPT !.at = "fetched", !.hand = ActivePhotos(j.report)]
  <2>1. k \in Job
    BY <1>0 DEF Job
  <2>2. job' = [job EXCEPT ![s] = k]
    BY <1>5 DEF FetchSelection, j
  <2> HIDE DEF k
  <2>3. QED
    BY <1>2, <1>5, <2>1, <2>2 DEF FetchSelection, Quiet, TypeOK
<1>6. CASE ApplySelection(s)
  <2> DEFINE new == Selected(x, j.hand)
  <2>1. new \in Row
    BY <1>0, SelectedTyped
  <2>2. (job' = Rest(s) /\ row' = row) \/ Commit(s, new, "ready", {}) \/ Close(s, new)
    BY <1>6 DEF ApplySelection, j, x
  <2> HIDE DEF new
  <2>3. row' \in [Reports -> Row] /\ job' \in [Sessions -> Job]
    BY <1>0, <2>1, <2>2, CommitTyped DEF TypeOK
  <2>4. QED
    BY <1>3, <1>6, <2>3 DEF ApplySelection, Quiet, TypeOK, MediaTypeOK, media
<1>7. CASE StartAutomatic(s)
  <2> DEFINE new == [x EXCEPT !.status = "publishing"]
  <2>1. new \in Row
    BY <1>1 DEF Status
  <2>2. (job' = Rest(s) /\ row' = row) \/ Commit(s, new, "validating", {})
    BY <1>7 DEF StartAutomatic, x
  <2> HIDE DEF new
  <2>3. row' \in [Reports -> Row] /\ job' \in [Sessions -> Job]
    BY <1>0, <2>1, <2>2, CommitTyped DEF TypeOK
  <2>4. aged' \subseteq aged
    BY <1>7 DEF StartAutomatic
  <2>5. QED
    BY <1>3, <1>7, <2>3, <2>4 DEF StartAutomatic, Quiet, TypeOK, MediaTypeOK, media
<1>8. CASE Validate(s)
  <2> DEFINE k == [j EXCEPT !.at = "locking"]
  <2>1. k \in Job
    BY <1>0 DEF Job
  <2>2. job' = [job EXCEPT ![s] = k]
    BY <1>8 DEF Validate, j
  <2> HIDE DEF k
  <2>3. QED
    BY <1>2, <1>8, <2>1, <2>2 DEF Validate, Quiet, TypeOK
<1>9. CASE ValidationFails(s) \/ Finish(s)
  <2>1. \E st \in Status : Close(s, [x EXCEPT !.status = st])
    BY <1>9 DEF ValidationFails, Finish, Status, x
  <2>2. row' \in [Reports -> Row] /\ job' \in [Sessions -> Job]
    BY <1>1, <2>1, CommitTyped
  <2>3. QED
    BY <1>3, <1>9, <2>2 DEF ValidationFails, Finish, Quiet, TypeOK, MediaTypeOK, media
<1>10. CASE RecordLock(s)
  <2>1. Recorded(s) \in Row
    BY <1>0 DEF Recorded, Row, j, x
  <2>2. Commit(s, Recorded(s), "locking", j.hand)
    BY <1>10 DEF RecordLock, j
  <2>3. row' \in [Reports -> Row] /\ job' \in [Sessions -> Job]
    BY <1>0, <2>1, <2>2, CommitTyped
  <2>4. QED
    BY <1>3, <1>10, <2>3 DEF RecordLock, Quiet, TypeOK, MediaTypeOK, media
<1>11. CASE SnapshotFails(s) \/ PublisherDies(s)
  <2>1. job' = Rest(s) /\ UNCHANGED <<media, row, aged, eligible, tail, rec>>
    BY <1>11 DEF SnapshotFails, PublisherDies, Quiet
  <2>2. job' \in [Sessions -> Job]
    BY <1>0, <2>1, CommitTyped
  <2>3. QED
    BY <1>3, <2>1, <2>2 DEF TypeOK, MediaTypeOK, media
<1>12. ASSUME NEW m \in Media, AcquireNext(s, m) PROVE TypeOK'
  <2> DEFINE k == [j EXCEPT !.at = "recording", !.hand = @ \cup {m}]
  <2>1. k \in Job
    BY <1>0 DEF Job
  <2>2. job' = [job EXCEPT ![s] = k]
    BY <1>12 DEF AcquireNext, j
  <2> HIDE DEF k
  <2>3. job' \in [Sessions -> Job]
    BY <2>1, <2>2 DEF TypeOK
  <2>4. QED
    BY <1>3, <1>12, <2>3 DEF AcquireNext, Acquire, Quiet, TypeOK, MediaTypeOK
<1>13. ASSUME NEW m \in Media, NEW taken \in BOOLEAN, NEW lost \in SUBSET Media,
              AcquireFails(s, m, taken, lost)
       PROVE  TypeOK'
  <2>1. Close(s, [x EXCEPT !.status = "pending", !.locks = {}]) /\ held' \subseteq held \cup {m}
    BY <1>13 DEF AcquireFails, x
  <2>2. row' \in [Reports -> Row] /\ job' \in [Sessions -> Job]
    BY <1>1, <2>1, CommitTyped DEF Status
  <2>3. QED
    BY <1>3, <1>13, <2>1, <2>2 DEF AcquireFails, Quiet, TypeOK, MediaTypeOK
<1>14. QED
  BY <1>4, <1>5, <1>6, <1>7, <1>8, <1>9, <1>10, <1>11, <1>12, <1>13 DEF SessionStep, PublisherProgress

LEMMA RecTyped == ASSUME TypeOK, RecProgress \/ RecDies PROVE TypeOK'
<1>0. rec \in Rec /\ rec.one \subseteq Media /\ rec.two \subseteq Media /\ RecIdle \in Rec
      /\ \A r \in Reports : row[r].locks \subseteq Media
  BY DEF TypeOK, Rec, RecIdle, Row
<1>1. ASSUME NEW lost \in SUBSET Media, RecUnstick(lost) PROVE TypeOK'
  <2>1. \A r \in Reports : Unstuck(row[r]) \in Row
    BY DEF TypeOK, Unstuck, Row, Status
  <2>2. [rec EXCEPT !.at = "unstuck"] \in Rec
    BY <1>0 DEF Rec
  <2>3. QED
    BY <1>1, <2>1, <2>2 DEF RecUnstick, Release, TypeOK, MediaTypeOK
<1>2. CASE RecList
  <2>1. [rec EXCEPT !.at = "listed", !.one = held] \in Rec
    BY <1>0 DEF Rec, TypeOK, MediaTypeOK
  <2>2. QED
    BY <1>2, <2>1 DEF RecList, TypeOK, MediaTypeOK, media
<1>3. CASE RecCompare
  <2>1. Covered \subseteq Media
    BY <1>0 DEF Covered
  <2>2. [rec EXCEPT !.at = "compared", !.two = Covered] \in Rec
    BY <1>0, <2>1 DEF Rec
  <2>3. QED
    BY <1>3, <2>2 DEF RecCompare, TypeOK, MediaTypeOK, media
<1>4. CASE RecDecide
  <2>1. rec' \in Rec
    BY <1>0, <1>4 DEF RecDecide, Rec
  <2>2. QED
    BY <1>4, <2>1 DEF RecDecide, TypeOK, MediaTypeOK, media
<1>5. ASSUME NEW m \in Media, RecRelease(m) PROVE TypeOK'
  <2>1. [rec EXCEPT !.one = @ \ {m}] \in Rec
    BY <1>0 DEF Rec
  <2>2. held' \subseteq held /\ UNCHANGED <<file, sagas>>
    BY <1>5 DEF RecRelease, Release, media
  <2>3. QED
    BY <1>5, <2>1, <2>2 DEF RecRelease, TypeOK, MediaTypeOK
<1>6. ASSUME NEW m \in Media, RecRelock(m) PROVE TypeOK'
  <2>1. [rec EXCEPT !.two = @ \ {m}] \in Rec
    BY <1>0 DEF Rec
  <2>2. held' \subseteq held \cup {m} /\ UNCHANGED <<file, sagas>>
    BY <1>6 DEF RecRelock, Acquire, media
  <2>3. QED
    BY <1>6, <2>1, <2>2 DEF RecRelock, TypeOK, MediaTypeOK
<1>7. ASSUME NEW old \in SUBSET Media, RecResolve(old) PROVE TypeOK'
  <2>1. MediaNext
    BY <1>7 DEF RecResolve, MediaNext
  <2>2. MediaTypeOK'
    BY <2>1, MediaTypeStep DEF TypeOK
  <2>3. QED
    BY <1>0, <1>7, <2>2 DEF RecResolve, TypeOK
<1>8. CASE RecDies
  BY <1>0, <1>8 DEF RecDies, TypeOK, MediaTypeOK, media
<1>9. QED
  BY <1>1, <1>2, <1>3, <1>4, <1>5, <1>6, <1>7, <1>8 DEF RecProgress

LEMMA SagaTypeStep == ASSUME PublicationAssumption, TypeOK, [Next]_vars PROVE TypeOK'
<1>1. CASE MediaStep
  <2>1. MediaNext
    BY <1>1 DEF MediaStep, MediaNext
  <2>2. QED
    BY <1>1, <2>1, MediaTypeStep DEF MediaStep, TypeOK
<1>2. CASE Revoke
  <2>1. \A r \in Reports : [row[r] EXCEPT !.status = "needs_review"] \in Row
    BY DEF TypeOK, Row, Status
  <2>2. row' \in [Reports -> Row] /\ aged' \subseteq aged /\ UNCHANGED <<media, eligible, job, tail, rec>>
    BY <1>2, <2>1 DEF Revoke, Quiet, TypeOK
  <2>3. QED
    BY <2>2 DEF TypeOK, MediaTypeOK, media
<1>3. CASE UNCHANGED vars
  BY <1>3 DEF vars, TypeOK, MediaTypeOK
<1>4. QED
  BY <1>1, <1>2, <1>3, ReportTyped, SessionTyped, RecTyped DEF Next

\* The table, the sessions and the media service keep to their kinds.
THEOREM PublicationTypeCorrect == PublicationAssumption => (Spec => []TypeOK)
<1> SUFFICES ASSUME PublicationAssumption PROVE Spec => []TypeOK
    OBVIOUS
<1>1. Init => TypeOK
  BY SagaTypeInit
<1>2. TypeOK /\ [Next]_vars => TypeOK'
  BY SagaTypeStep
<1>3. QED
  BY <1>1, <1>2, PTL DEF Spec

-----------------------------------------------------------------------------
\* Every step of the saga asks of the media service what the service offers, or takes a
\* lock of an active file and gives others back.
LEMMA SagaKeepsLocks ==
  ASSUME PublicationAssumption, SlowSagas = {}, TypeOK, MediaInv, [Next]_vars PROVE MediaInv'
<1>1. ASSUME UNCHANGED <<file, sagas>>, held' \subseteq Media, \A m \in held' \ held : file[m] = "active"
      PROVE  MediaInv'
  BY <1>1 DEF MediaInv, MediaTypeOK, LockedStaysActive, SagasHold
<1>2. ASSUME UNCHANGED media PROVE MediaInv'
  BY <1>2 DEF MediaInv, MediaTypeOK, LockedStaysActive, SagasHold, media
<1>3. ASSUME [MediaNext]_mediaVars PROVE MediaInv'
  BY <1>3, MediaInvStep
<1>4. held \subseteq Media
  BY DEF TypeOK, MediaTypeOK
<1>5. CASE MediaStep
  BY <1>3, <1>5 DEF MediaStep, MediaNext
<1>6. ASSUME NEW r \in Reports, ReportStep(r) PROVE MediaInv'
  <2>1. ASSUME NEW m \in Media, ReleaseNext(r, m) PROVE MediaInv'
    BY <1>1, <1>2, <1>4, <2>1 DEF ReleaseNext, Release
  <2>2. QED
    BY <1>2, <1>6, <2>1 DEF ReportStep, RequestChanges, Draft, Autofill, Patch, Reject, Reopen, Age, Unpublish,
                            UnpublisherDies
<1>7. ASSUME NEW s \in Sessions, SessionStep(s) PROVE MediaInv'
  <2>1. ASSUME NEW m \in Media, AcquireNext(s, m) PROVE MediaInv'
    BY <1>1, <1>4, <2>1 DEF AcquireNext, Acquire, Lockable
  <2>2. ASSUME NEW m \in Media, NEW taken \in BOOLEAN, NEW lost \in SUBSET Media,
               AcquireFails(s, m, taken, lost)
        PROVE  MediaInv'
    BY <1>1, <1>4, <2>2 DEF AcquireFails, Lockable
  <2>3. QED
    BY <1>2, <1>7, <2>1, <2>2 DEF SessionStep, PublisherProgress, StartManual, LoadCandidate, FetchSelection,
          ApplySelection, StartAutomatic, Validate, ValidationFails, RecordLock, Finish, SnapshotFails, PublisherDies
<1>8. CASE RecProgress
  <2>1. ASSUME NEW lost \in SUBSET Media, RecUnstick(lost) PROVE MediaInv'
    BY <1>1, <1>4, <2>1 DEF RecUnstick, Release
  <2>2. ASSUME NEW m \in Media, RecRelease(m) PROVE MediaInv'
    BY <1>1, <1>2, <1>4, <2>2 DEF RecRelease, Release
  <2>3. ASSUME NEW m \in Media, RecRelock(m) PROVE MediaInv'
    BY <1>1, <1>2, <1>4, <2>3 DEF RecRelock, Acquire, Lockable
  <2>4. ASSUME NEW old \in SUBSET Media, RecResolve(old) PROVE MediaInv'
    BY <1>3, <2>4 DEF RecResolve, MediaNext
  <2>5. QED
    BY <1>2, <1>8, <2>1, <2>2, <2>3, <2>4 DEF RecProgress, RecList, RecCompare, RecDecide
<1>9. CASE Revoke \/ RecDies \/ UNCHANGED vars
  BY <1>2, <1>9 DEF Revoke, RecDies, vars, media
<1>10. QED
  BY <1>5, <1>6, <1>7, <1>8, <1>9 DEF Next

\* Whatever the saga, its compensations, unpublications and the reconciliation do, and
\* wherever they die, the photos they hold are active.
THEOREM PublicationLockSafe ==
  PublicationAssumption /\ SlowSagas = {} => (Spec => []LockedStaysActive)
<1> SUFFICES ASSUME PublicationAssumption, SlowSagas = {} PROVE Spec => []LockedStaysActive
    OBVIOUS
<1>1. Init => TypeOK /\ MediaInv
  BY SagaTypeInit, MediaInvInit DEF Init
<1>2. TypeOK /\ MediaInv /\ [Next]_vars => (TypeOK /\ MediaInv)'
  BY SagaTypeStep, SagaKeepsLocks
<1>3. MediaInv => LockedStaysActive
  BY DEF MediaInv
<1>4. QED
  BY <1>1, <1>2, <1>3, PTL DEF Spec

-----------------------------------------------------------------------------
\* A publication at a manager's demand that is under way finds its report "publishing",
\* alone, and the reconciliation leaves its report alone.
UnderWay ==
    /\ \A s \in Sessions : job[s].at = "idle" \/ Busy(s)
    /\ \A s \in Sessions : Busy(s) => /\ row[job[s].report].status = "publishing"
                                      /\ job[s].mem.status = "publishing"
LeftAlone == \A r \in aged : row[r].status = "publishing" => ~Worked(r)

WInv == TypeOK /\ UnderWay /\ OnePublisher /\ LeftAlone

Manually == PublicationAssumption /\ Automatic = {} /\ SlowPublish = FALSE

\* The edges of the statuses, a pair each.
Steps(old, new) == new = old \/ <<old, new>> \in Lifecycle!Edge

LEMMA WInit == ASSUME Manually, Init PROVE WInv
<1>1. TypeOK
  BY SagaTypeInit DEF Manually
<1>2. \A s \in Sessions : job[s].at = "idle"
  BY DEF Init
<1>3. \A s \in Sessions : ~Busy(s)
  BY <1>2 DEF Busy, InSaga
<1>4. QED
  BY <1>1, <1>2, <1>3 DEF Init, WInv, UnderWay, OnePublisher, LeftAlone

\* A report nobody publishes changes its status.
LEMMA FreeStep ==
  ASSUME WInv, TypeOK', UNCHANGED job, aged' \subseteq aged,
         \A r \in Reports : row'[r].status # row[r].status =>
             row[r].status # "publishing" /\ row'[r].status # "publishing"
  PROVE  WInv'
<1>1. \A s \in Sessions : Busy(s)' <=> Busy(s)
  BY DEF Busy
<1>2. \A s \in Sessions : job[s].report \in Reports
  BY DEF WInv, TypeOK, Job
<1>3. UnderWay'
  BY <1>1, <1>2 DEF WInv, UnderWay
<1>4. OnePublisher'
  BY <1>1 DEF WInv, OnePublisher
<1>5. LeftAlone'
  BY <1>1 DEF WInv, LeftAlone, Worked, TypeOK
<1>6. QED
  BY <1>3, <1>4, <1>5 DEF WInv

\* A publication goes on with its report, or comes to an end.
LEMMA PublisherStep ==
  ASSUME WInv, TypeOK', NEW s \in Sessions, Busy(s),
         \A t \in Sessions \ {s} : job'[t] = job[t],
         \A r \in Reports \ {job[s].report} : row'[r] = row[r],
         aged' \subseteq aged,
         \/ job'[s].at = "idle"
         \/ /\ Busy(s)' /\ job'[s].report = job[s].report /\ job'[s].mem.status = "publishing"
            /\ row'[job[s].report].status = "publishing"
  PROVE  WInv'
<1>1. \A t \in Sessions \ {s} : (Busy(t)' <=> Busy(t)) /\ (Busy(t) => job[t].report # job[s].report)
  BY DEF Busy, WInv, OnePublisher
<1>2. \A t \in Sessions : job[t].report \in Reports
  BY DEF WInv, TypeOK, Job
<1>3. Busy(s)' => job'[s].at # "idle"
  BY DEF Busy, InSaga
<1>4. UnderWay'
  <2>1. ASSUME NEW t \in Sessions \ {s}
        PROVE  /\ job'[t].at = "idle" \/ Busy(t)'
               /\ Busy(t)' => row'[job'[t].report].status = "publishing" /\ job'[t].mem.status = "publishing"
    BY <1>1, <1>2 DEF WInv, UnderWay
  <2>2. /\ job'[s].at = "idle" \/ Busy(s)'
        /\ Busy(s)' => row'[job'[s].report].status = "publishing" /\ job'[s].mem.status = "publishing"
    BY <1>3
  <2>3. QED
    BY <2>1, <2>2 DEF UnderWay
<1>5. OnePublisher'
  BY <1>1, <1>3 DEF WInv, OnePublisher
<1>6. LeftAlone'
  <2>1. ASSUME NEW r \in aged', row'[r].status = "publishing" PROVE ~Worked(r)'
    <3>1. r \in aged /\ r \in Reports
      BY DEF WInv, TypeOK
    <3>2. CASE r = job[s].report
      <4>1. Worked(r) /\ row[r].status = "publishing"
        BY <3>2 DEF Worked, WInv, UnderWay
      <4>2. QED
        BY <3>1, <4>1 DEF WInv, LeftAlone
    <3>3. CASE r # job[s].report
      <4>1. ~Worked(r)
        BY <2>1, <3>1, <3>3 DEF WInv, LeftAlone
      <4>2. QED
        BY <1>1, <1>3, <3>3, <4>1 DEF Worked
    <3>4. QED
      BY <3>2, <3>3
  <2>2. QED
    BY <2>1 DEF LeftAlone
<1>7. QED
  BY <1>4, <1>5, <1>6 DEF WInv

LEMMA ReportLives ==
  ASSUME Manually, WInv, TypeOK', NEW r \in Reports, ReportStep(r)
  PROVE  WInv' /\ \A q \in Reports : Steps(row[q].status, row'[q].status)
<1>0. TypeOK /\ row \in [Reports -> Row] /\ row[r] \in Row /\ SlowPublish = FALSE
  BY DEF WInv, TypeOK, Manually
<1>1. ASSUME UNCHANGED row PROVE \A q \in Reports : Steps(row[q].status, row'[q].status)
  BY <1>1 DEF Steps
\* One report changes its status, and neither state is that of a publication.
<1>2. ASSUME NEW x, row' = [row EXCEPT ![r] = x], UNCHANGED job, aged' \subseteq aged,
             Steps(row[r].status, x.status),
             x.status # row[r].status => row[r].status # "publishing" /\ x.status # "publishing"
      PROVE  WInv' /\ \A q \in Reports : Steps(row[q].status, row'[q].status)
  <2>1. \A q \in Reports : row'[q] = IF q = r THEN x ELSE row[q]
    BY <1>0, <1>2
  <2>2. WInv'
    BY <1>2, <2>1, FreeStep
  <2>3. \A q \in Reports : Steps(row[q].status, row'[q].status)
    BY <1>2, <2>1 DEF Steps
  <2>4. QED
    BY <2>2, <2>3
<1>3. ASSUME UNCHANGED <<row, job>>, aged' \subseteq aged PROVE WInv'
  BY <1>3, FreeStep
<1>4. CASE Draft(r) \/ Reject(r) \/ Reopen(r)
  <2>1. PICK st \in Status : /\ row' = [row EXCEPT ![r] = [row[r] EXCEPT !.status = st]]
                             /\ st # "publishing" /\ row[r].status # "publishing"
                             /\ <<row[r].status, st>> \in Lifecycle!Edge
    BY <1>4 DEF Draft, Reject, Reopen, Status, Editable, Lifecycle!Edge
  <2>2. [row[r] EXCEPT !.status = st].status = st
    BY <1>0 DEF Row
  <2>3. UNCHANGED job /\ aged' \subseteq aged
    BY <1>4 DEF Draft, Reject, Reopen
  <2>4. QED
    BY <1>2, <2>1, <2>2, <2>3 DEF Steps
<1>5. ASSUME NEW ms \in SUBSET Media, Autofill(r) \/ Patch(r, ms)
      PROVE  WInv' /\ \A q \in Reports : Steps(row[q].status, row'[q].status)
  <2>1. row[r].status \in Editable
    BY <1>5 DEF Autofill, Patch, MayEdit
  <2>2. \A ns \in SUBSET Media :
          /\ Selected(row[r], ns).status \in Editable
          /\ Patched(row[r], ns).status \in Editable
    BY <1>0, <2>1 DEF Selected, Patched, Editable, Row
  <2>3. ActivePhotos(r) \in SUBSET Media
    BY DEF ActivePhotos, Manually, PublicationAssumption
  <2>4. PICK x : row' = [row EXCEPT ![r] = x] /\ x.status \in Editable
    BY <1>5, <2>2, <2>3 DEF Autofill, Patch
  <2>5. Steps(row[r].status, x.status)
    BY <2>1, <2>4 DEF Steps, Editable, Lifecycle!Edge
  <2>6. UNCHANGED job /\ aged' \subseteq aged
    BY <1>5 DEF Autofill, Patch
  <2>7. row[r].status # "publishing" /\ x.status # "publishing"
    BY <2>1, <2>4 DEF Editable
  <2>8. QED
    BY <1>2, <2>4, <2>5, <2>6, <2>7
<1>6. CASE Unpublish(r)
  <2>1. row' = [row EXCEPT ![r] = Hidden(row[r])] /\ Hidden(row[r]).status = "rejected"
    BY <1>0, <1>6 DEF Unpublish, Hidden, Row
  <2>2. /\ row[r].status \in {"published", "needs_review"} /\ UNCHANGED job /\ aged' \subseteq aged
    BY <1>6 DEF Unpublish
  <2>3. Steps(row[r].status, "rejected")
    BY <2>2 DEF Steps, Lifecycle!Edge
  <2>4. QED
    BY <1>2, <2>1, <2>2, <2>3
<1>7. CASE Age(r)
  <2>1. /\ aged' = aged \cup {r} /\ ~Worked(r) /\ UNCHANGED <<row, job>>
    BY <1>0, <1>7 DEF Age
  <2>2. \A q \in Reports : Worked(q)' <=> Worked(q)
    BY <2>1 DEF Worked, Busy
  <2>3. UnderWay' /\ OnePublisher'
    BY <2>1 DEF WInv, UnderWay, OnePublisher, Busy
  <2>4. LeftAlone'
    BY <1>0, <2>1, <2>2 DEF WInv, LeftAlone, TypeOK
  <2>5. QED
    BY <1>1, <2>1, <2>3, <2>4 DEF WInv
<1>8. ASSUME NEW m \in Media, ReleaseNext(r, m)
      PROVE  WInv' /\ \A q \in Reports : Steps(row[q].status, row'[q].status)
  BY <1>1, <1>3, <1>8 DEF ReleaseNext
<1>9. ASSUME NEW e \in {"yes", "no", "gone"}, RequestChanges(r, e) \/ UnpublisherDies(r)
      PROVE  WInv' /\ \A q \in Reports : Steps(row[q].status, row'[q].status)
  BY <1>1, <1>3, <1>9 DEF RequestChanges, UnpublisherDies
<1>10. QED
  BY <1>4, <1>5, <1>6, <1>7, <1>8, <1>9 DEF ReportStep

LEMMA SessionLives ==
  ASSUME Manually, WInv, TypeOK', NEW s \in Sessions, SessionStep(s)
  PROVE  WInv' /\ \A q \in Reports : Steps(row[q].status, row'[q].status)
<1> DEFINE r == job[s].report
           x == job[s].mem
<1>0. /\ row \in [Reports -> Row] /\ job \in [Sessions -> Job] /\ r \in Reports /\ x \in Row
      /\ row[r] \in Row /\ s \notin Automatic
      /\ job[s].at = "idle" \/ Busy(s)
      /\ Busy(s) => row[r].status = "publishing" /\ x.status = "publishing"
      /\ Rest(s)[s].at = "idle" /\ \A t \in Sessions \ {s} : Rest(s)[t] = job[t]
  BY DEF WInv, TypeOK, Job, Manually, UnderWay, Rest
<1> HIDE DEF r, x
<1>1. ASSUME UNCHANGED row PROVE \A q \in Reports : Steps(row[q].status, row'[q].status)
  BY <1>1 DEF Steps
\* The call ends.
<1>2. ASSUME Busy(s), NEW new, new.status \in {"pending", "published"}, Close(s, new), aged' \subseteq aged
      PROVE  WInv' /\ \A q \in Reports : Steps(row[q].status, row'[q].status)
  <2>1. row' = [row EXCEPT ![r] = Flushed(row[r], x, new)] /\ job' = Rest(s)
    BY <1>2 DEF Close, r, x
  <2>2. Flushed(row[r], x, new).status = new.status
    BY <1>0, <1>2 DEF Flushed, Pick
  <2>3. \A q \in Reports : row'[q] = IF q = r THEN Flushed(row[r], x, new) ELSE row[q]
    BY <1>0, <2>1
  <2>4. WInv'
    BY <1>0, <1>2, <2>1, <2>3, PublisherStep DEF r
  <2>5. \A q \in Reports : Steps(row[q].status, row'[q].status)
    BY <1>0, <1>2, <2>2, <2>3 DEF Steps, Lifecycle!Edge
  <2>6. QED
    BY <2>4, <2>5
\* The publication goes on.
<1>3. ASSUME Busy(s), NEW j, job' = [job EXCEPT ![s] = j], j.at \in InSaga, j.report = r,
             j.mem.status = "publishing", UNCHANGED aged,
             row' = row \/ \E y : row' = [row EXCEPT ![r] = y] /\ y.status = "publishing"
      PROVE  WInv' /\ \A q \in Reports : Steps(row[q].status, row'[q].status)
  <2>1. job'[s] = j /\ \A t \in Sessions \ {s} : job'[t] = job[t]
    BY <1>0, <1>3
  <2>2. row'[r].status = "publishing" /\ \A q \in Reports \ {r} : row'[q] = row[q]
    BY <1>0, <1>3
  <2>3. Busy(s)'
    BY <1>3, <2>1 DEF Busy
  <2>4. WInv'
    BY <1>3, <2>1, <2>2, <2>3, PublisherStep DEF r
  <2>5. \A q \in Reports : Steps(row[q].status, row'[q].status)
    BY <1>0, <1>3, <2>2 DEF Steps
  <2>6. QED
    BY <2>4, <2>5
<1>4. ASSUME NEW q \in Reports, StartManual(s, q)
      PROVE  WInv' /\ \A p \in Reports : Steps(row[p].status, row'[p].status)
  <2> DEFINE y == [row[q] EXCEPT !.status = "publishing"]
             j == [at |-> "validating", report |-> q, hand |-> {}, mem |-> y]
  <2>1. /\ row' = [row EXCEPT ![q] = y] /\ job' = [job EXCEPT ![s] = j] /\ aged' = aged \ {q}
        /\ row[q].status = "pending" /\ job[s].at = "idle"
    BY <1>4 DEF StartManual, MayPublish
  <2>2. y.status = "publishing" /\ j.at = "validating" /\ j.report = q /\ j.mem = y
    BY <1>0 DEF Row
  <2> HIDE DEF y, j
  <2>3. /\ \A p \in Reports : row'[p] = IF p = q THEN y ELSE row[p]
        /\ \A t \in Sessions : job'[t] = IF t = s THEN j ELSE job[t]
    BY <1>0, <2>1
  <2>4. \A t \in Sessions : /\ Busy(t)' <=> t = s \/ Busy(t)
                            /\ Busy(t) => t # s /\ job[t].report # q /\ job[t].report \in Reports
    BY <1>0, <2>1, <2>2, <2>3 DEF Busy, InSaga, WInv, UnderWay, Job
  <2>5. UnderWay'
    <3>1. ASSUME NEW t \in Sessions
          PROVE  /\ job'[t].at = "idle" \/ Busy(t)'
                 /\ Busy(t)' => row'[job'[t].report].status = "publishing" /\ job'[t].mem.status = "publishing"
      <4>1. CASE t = s
        BY <2>2, <2>3, <2>4, <4>1
      <4>2. CASE t # s
        BY <2>3, <2>4, <4>2 DEF WInv, UnderWay
      <4>3. QED
        BY <4>1, <4>2
    <3>2. QED
      BY <3>1 DEF UnderWay
  <2>6. OnePublisher'
    BY <2>2, <2>3, <2>4 DEF WInv, OnePublisher
  <2>7. LeftAlone'
    <3>1. ASSUME NEW p \in aged', row'[p].status = "publishing" PROVE ~Worked(p)'
      <4>1. p \in aged /\ p # q /\ p \in Reports
        BY <2>1, <3>1 DEF WInv, TypeOK
      <4>2. ~Worked(p)
        BY <2>3, <3>1, <4>1 DEF WInv, LeftAlone
      <4>3. QED
        BY <2>2, <2>3, <2>4, <4>1, <4>2 DEF Worked
    <3>2. QED
      BY <3>1 DEF LeftAlone
  <2>8. \A p \in Reports : Steps(row[p].status, row'[p].status)
    BY <2>1, <2>2, <2>3 DEF Steps, Lifecycle!Edge
  <2>9. QED
    BY <2>5, <2>6, <2>7, <2>8 DEF WInv
<1>5. ASSUME NEW q \in Reports,
             LoadCandidate(s, q) \/ FetchSelection(s) \/ ApplySelection(s) \/ StartAutomatic(s)
      PROVE  FALSE
  BY <1>0, <1>5 DEF LoadCandidate, FetchSelection, ApplySelection, StartAutomatic, Busy, InSaga
<1>6. CASE Validate(s)
  <2> DEFINE j == [job[s] EXCEPT !.at = "locking"]
  <2>1. j.at \in InSaga /\ j.report = r /\ j.mem = x
    BY <1>0 DEF Job, InSaga, r, x
  <2>2. Busy(s) /\ job' = [job EXCEPT ![s] = j] /\ UNCHANGED <<row, aged>>
    BY <1>6 DEF Validate, Busy, InSaga
  <2> HIDE DEF j
  <2>3. QED
    BY <1>0, <1>3, <2>1, <2>2
<1>7. ASSUME NEW m \in Media, AcquireNext(s, m)
      PROVE  WInv' /\ \A q \in Reports : Steps(row[q].status, row'[q].status)
  <2> DEFINE j == [job[s] EXCEPT !.at = "recording", !.hand = @ \cup {m}]
  <2>1. j.at \in InSaga /\ j.report = r /\ j.mem = x
    BY <1>0 DEF Job, InSaga, r, x
  <2>2. Busy(s) /\ job' = [job EXCEPT ![s] = j] /\ UNCHANGED <<row, aged>>
    BY <1>7 DEF AcquireNext, Busy, InSaga
  <2> HIDE DEF j
  <2>3. QED
    BY <1>0, <1>3, <2>1, <2>2
<1>8. CASE RecordLock(s)
  <2> DEFINE j == [job[s] EXCEPT !.mem = Recorded(s), !.at = "locking", !.hand = job[s].hand]
             y == Flushed(row[r], x, Recorded(s))
  <2>1. Recorded(s).status = "publishing"
    BY <1>0, <1>8 DEF RecordLock, Recorded, Row, Busy, InSaga, x
  <2>2. j.at \in InSaga /\ j.report = r /\ j.mem = Recorded(s)
    BY <1>0 DEF Job, InSaga, r
  <2>3. Busy(s) /\ job' = [job EXCEPT ![s] = j] /\ UNCHANGED aged /\ row' = [row EXCEPT ![r] = y]
    BY <1>8 DEF RecordLock, Commit, Busy, InSaga, r, x
  <2>4. y.status = "publishing"
    BY <1>0, <2>1, <2>3 DEF Flushed, Pick
  <2> HIDE DEF j, y
  <2>5. QED
    BY <1>3, <2>1, <2>2, <2>3, <2>4
<1>9. CASE ValidationFails(s) \/ Finish(s)
  <2>1. \A st \in {"pending", "published"} : [x EXCEPT !.status = st].status = st
    BY <1>0 DEF Row
  <2>2. PICK new : Close(s, new) /\ new.status \in {"pending", "published"}
    BY <1>9, <2>1 DEF ValidationFails, Finish, x
  <2>3. Busy(s) /\ aged' \subseteq aged
    BY <1>9 DEF ValidationFails, Finish, Busy, InSaga
  <2>4. QED
    BY <1>2, <2>2, <2>3
<1>10. ASSUME NEW m \in Media, NEW taken \in BOOLEAN, NEW lost \in SUBSET Media,
              AcquireFails(s, m, taken, lost)
       PROVE  WInv' /\ \A q \in Reports : Steps(row[q].status, row'[q].status)
  <2>1. [x EXCEPT !.status = "pending", !.locks = {}].status = "pending"
    BY <1>0 DEF Row
  <2>2. PICK new : Close(s, new) /\ new.status = "pending"
    BY <1>10, <2>1 DEF AcquireFails, x
  <2>3. Busy(s) /\ aged' \subseteq aged
    BY <1>10 DEF AcquireFails, Busy, InSaga
  <2>4. QED
    BY <1>2, <2>2, <2>3
<1>11. CASE SnapshotFails(s) \/ PublisherDies(s)
  <2>1. UNCHANGED <<row, aged>> /\ job' = Rest(s) /\ job[s].at # "idle"
    BY <1>11 DEF SnapshotFails, PublisherDies
  <2>2. WInv'
    BY <1>0, <2>1, PublisherStep
  <2>3. QED
    BY <1>1, <2>1, <2>2
<1>12. QED
  BY <1>4, <1>5, <1>6, <1>7, <1>8, <1>9, <1>10, <1>11, <1>0 DEF SessionStep, PublisherProgress

LEMMA WStep ==
  ASSUME Manually, WInv, [Next]_vars
  PROVE  WInv' /\ \A q \in Reports : Steps(row[q].status, row'[q].status)
<1>0. TypeOK /\ TypeOK' /\ row \in [Reports -> Row]
  BY SagaTypeStep DEF WInv, Manually, TypeOK
<1>1. ASSUME UNCHANGED <<row, aged, job>> PROVE WInv' /\ \A q \in Reports : Steps(row[q].status, row'[q].status)
  BY <1>0, <1>1, FreeStep DEF Steps
<1>2. CASE Revoke
  <2>1. \A q \in Reports :
          \/ row'[q] = row[q]
          \/ row[q].status = "published" /\ row'[q].status = "needs_review"
    BY <1>0, <1>2 DEF Revoke, Row
  <2>2. UNCHANGED job /\ aged' \subseteq aged
    BY <1>2 DEF Revoke
  <2>3. WInv'
    BY <1>0, <2>1, <2>2, FreeStep
  <2>4. QED
    BY <2>1, <2>3 DEF Steps, Lifecycle!Edge
<1>3. ASSUME NEW lost \in SUBSET Media, RecUnstick(lost)
      PROVE  WInv' /\ \A q \in Reports : Steps(row[q].status, row'[q].status)
  <2>1. /\ UNCHANGED job /\ aged' = aged \ Stuck
        /\ \A q \in Reports \ Stuck : row'[q] = row[q]
        /\ \A q \in Stuck : row[q].status = "publishing" /\ row'[q].status = "pending" /\ ~Worked(q)
    BY <1>0, <1>3 DEF RecUnstick, Unstuck, Row, Stuck, WInv, LeftAlone
  <2>2. \A t \in Sessions : /\ Busy(t)' <=> Busy(t)
                            /\ Busy(t) => job[t].report \in Reports \ Stuck
    BY <2>1 DEF Busy, Worked, WInv, TypeOK, Job
  <2>3. UnderWay' /\ OnePublisher'
    BY <2>1, <2>2 DEF WInv, UnderWay, OnePublisher
  <2>4. \A q \in Reports : Worked(q)' <=> Worked(q)
    BY <2>1, <2>2 DEF Worked
  <2>5. LeftAlone'
    BY <1>0, <2>1, <2>4 DEF WInv, LeftAlone, TypeOK
  <2>6. \A q \in Reports : Steps(row[q].status, row'[q].status)
    BY <2>1 DEF Steps, Lifecycle!Edge
  <2>7. QED
    BY <1>0, <2>3, <2>5, <2>6 DEF WInv
<1>4. CASE MediaStep \/ RecDies \/ UNCHANGED vars
  BY <1>1, <1>4 DEF MediaStep, RecDies, vars
<1>5. CASE RecProgress
  BY <1>1, <1>3, <1>5 DEF RecProgress, RecList, RecCompare, RecDecide, RecRelease, RecRelock, RecResolve
<1>6. QED
  BY <1>0, <1>2, <1>4, <1>5, ReportLives, SessionLives DEF Next

\* Publications at a manager's demand, one after the other or side by side, their
\* compensations, crashes and the reconciliation move a report's status only along the
\* edges its model documents, provided the reconciliation does not overtake a live one.
THEOREM PublicationImplementsLifecycle == Manually => (Spec => LifecycleSpec)
<1> SUFFICES ASSUME Manually PROVE Spec => LifecycleSpec
    OBVIOUS
<1>1. Init => WInv
  BY WInit
<1>2. WInv /\ [Next]_vars => WInv'
  BY WStep
<1>3. Init => Lifecycle!Init
  BY DEF Init, Lifecycle!Init, NoRow
<1>4. ASSUME WInv, [Next]_vars PROVE [Lifecycle!Next]_([r \in Reports |-> row[r].status])
  <2>1. \A r \in Reports : row'[r].status \in Lifecycle!Phase
    BY <1>4, WStep DEF WInv, TypeOK, Row, Status, Lifecycle!Phase
  <2>2. \A r \in Reports : row'[r].status # row[r].status => <<row[r].status, row'[r].status>> \in Lifecycle!Edge
    BY <1>4, WStep DEF Steps
  <2>3. QED
    BY <2>1, <2>2 DEF Lifecycle!Next
<1>5. QED
  BY <1>1, <1>2, <1>3, <1>4, PTL DEF Spec, LifecycleSpec, Lifecycle!Spec

-----------------------------------------------------------------------------
(* The comparison with InfraSafe *)

\* A lock that is held is held at least once; who compares still has the connection
\* that holds it.
Counted == lock.conn # NoConnection => lock.times # 0
ComparesUnderLock ==
    \A w \in Workers : run[w].at = "locked" => run[w].conn \in Pool(w) /\ lock.conn = run[w].conn

RInv == ReconciliationTypeOK /\ Counted /\ ComparesUnderLock

LEMMA IdleTyped == ASSUME ReconciliationAssumption PROVE Idle \in Run /\ Idle.at = "idle"
<1>1. 0 \in State
  BY DEF State, ReconciliationAssumption
<1>2. QED
  BY <1>1 DEF Idle, Run

LEMMA TypesAtStart == ASSUME ReconciliationAssumption, ReconciliationInit PROVE RInv
<1>1. 0 \in State /\ MaxLosses \in Nat /\ MaxDeploys \in Nat
  BY DEF State, ReconciliationAssumption
<1>2. ReconciliationTypeOK
  BY <1>1, IdleTyped DEF ReconciliationInit, ReconciliationTypeOK, Unlocked
<1>3. QED
  BY <1>2, IdleTyped DEF ReconciliationInit, RInv, Counted, ComparesUnderLock, Unlocked

\* Giving back keeps the lock to its kind, and takes it from nobody else's connection.
LEMMA GiveBack ==
  ASSUME ReconciliationAssumption, RInv, NEW c \in Connections
  PROVE  /\ GivenBack(c) \in [conn : Connections \cup {NoConnection}, times : Nat]
         /\ GivenBack(c).conn # NoConnection => GivenBack(c).times # 0
         /\ lock.conn # c => GivenBack(c) = lock
<1>1. lock \in [conn : Connections \cup {NoConnection}, times : Nat]
  BY DEF RInv, ReconciliationTypeOK
<1>2. CASE lock.conn # c
  BY <1>1, <1>2 DEF RInv, Counted, GivenBack
<1>3. CASE lock.conn = c /\ lock.times = 1
  BY <1>3 DEF GivenBack, Unlocked
<1>4. CASE lock.conn = c /\ lock.times # 1
  <2> DEFINE l == [lock EXCEPT !.times = @ - 1]
  <2>1. lock.times # 0
    BY <1>4 DEF RInv, Counted, ReconciliationAssumption
  <2>2. GivenBack(c) = l /\ lock.times - 1 \in Nat \ {0}
    BY <1>1, <1>4, <2>1 DEF GivenBack
  <2>3. l \in [conn : Connections \cup {NoConnection}, times : Nat] /\ l.times = lock.times - 1
    BY <1>1, <2>2
  <2>4. QED
    BY <1>4, <2>2, <2>3
<1>5. QED
  BY <1>2, <1>3, <1>4

\* Connections of two processes are different.
LEMMA OwnPools == \A v, w \in Workers : \A c : c \in Pool(v) /\ c \in Pool(w) => v = w
BY DEF Pool

LEMMA ReconciliationStep == ASSUME ReconciliationAssumption, RInv, [ReconciliationNext]_reconciliationVars PROVE RInv'
<1>0. /\ ReconciliationTypeOK /\ Counted /\ ComparesUnderLock /\ NoConnection \notin Connections
      /\ \A w \in Workers : run[w] \in Run /\ Pool(w) \subseteq Connections
      /\ MaxStatus \in Nat \ {0} /\ MaxLosses \in Nat /\ MaxDeploys \in Nat /\ 0 \in State
      /\ Idle \in Run /\ Idle.at = "idle"
  BY IdleTyped DEF RInv, ReconciliationTypeOK, ReconciliationAssumption, Pool, State
\* Steps that leave the lock and the runs alone.
<1>1. ASSUME ReconciliationTypeOK', UNCHANGED <<lock, run>> PROVE RInv'
  BY <1>0, <1>1 DEF RInv, Counted, ComparesUnderLock
<1>2. ASSUME NEW S \in SUBSET Event PROVE Enqueued(S) \subseteq Event
  BY <1>0, <1>2 DEF Enqueued, ReconciliationTypeOK
<1>3. ASSUME NEW r \in Requests, Create(r) PROVE RInv'
  <2>1. 1 \in State
    BY <1>0 DEF State
  <2>2. [kind |-> "created", req |-> r, status |-> 1, run |-> 0] \in Event
    BY <2>1 DEF Event
  <2>3. ReconciliationTypeOK'
    BY <1>0, <1>2, <1>3, <2>1, <2>2 DEF Create, ReconciliationTypeOK
  <2>4. QED
    BY <1>1, <1>3, <2>3 DEF Create
<1>4. ASSUME NEW r \in Requests, Change(r) PROVE RInv'
  <2>1. local[r] + 1 \in State
    BY <1>0, <1>4 DEF Change, State
  <2>2. [kind |-> "changed", req |-> r, status |-> local[r] + 1, run |-> 0] \in Event
    BY <2>1 DEF Event
  <2>3. ReconciliationTypeOK'
    BY <1>0, <1>2, <1>4, <2>1, <2>2 DEF Change, ReconciliationTypeOK
  <2>4. QED
    BY <1>1, <1>4, <2>3 DEF Change
<1>5. ASSUME NEW e \in queue, Deliver(e) PROVE RInv'
  <2>1. e \in Event
    BY <1>0, <1>5 DEF ReconciliationTypeOK
  <2>2. Id(e) \in {"created", "changed", "repair"} \X Requests \X State \X (RunIds \cup {0})
    BY <1>0, <2>1 DEF Id, Event
  <2>3. remote' \in [Requests -> State]
    BY <1>0, <1>5, <2>1 DEF Deliver, ReconciliationTypeOK, Event
  <2>4. ReconciliationTypeOK'
    BY <1>0, <1>5, <2>2, <2>3 DEF Deliver, ReconciliationTypeOK
  <2>5. QED
    BY <1>1, <1>5, <2>4 DEF Deliver
<1>6. ASSUME NEW e \in queue, GiveUp(e) PROVE RInv'
  <2>1. losses' \in 0..MaxLosses
    BY <1>0, <1>6 DEF GiveUp, ReconciliationTypeOK
  <2>2. ReconciliationTypeOK'
    BY <1>0, <1>6, <2>1 DEF GiveUp, ReconciliationTypeOK
  <2>3. QED
    BY <1>1, <1>6, <2>2 DEF GiveUp
<1>7. ASSUME NEW r \in Requests, RemoteForgets(r) PROVE RInv'
  <2>1. losses' \in 0..MaxLosses
    BY <1>0, <1>7 DEF RemoteForgets, ReconciliationTypeOK
  <2>2. ReconciliationTypeOK'
    BY <1>0, <1>7, <2>1 DEF RemoteForgets, ReconciliationTypeOK
  <2>3. QED
    BY <1>1, <1>7, <2>2 DEF RemoteForgets
<1>8. CASE Deploy
  <2>1. deploys' \in 0..MaxDeploys
    BY <1>0, <1>8 DEF Deploy, ReconciliationTypeOK
  <2>2. QED
    BY <1>0, <1>8, <2>1 DEF Deploy, ReconciliationTypeOK, RInv, Counted, ComparesUnderLock, Unlocked
\* A step of one run that keeps the lock.
<1>9. ASSUME NEW w \in Workers, NEW t \in Run, run' = [run EXCEPT ![w] = t], t.at # "locked",
             UNCHANGED <<local, remote, enabled, lock, deploys>>, losses' \in 0..MaxLosses,
             queue' \subseteq Event, seen' \subseteq seen
      PROVE  RInv'
  BY <1>0, <1>9 DEF ReconciliationTypeOK, RInv, Counted, ComparesUnderLock
<1>10. ASSUME NEW w \in Workers, Fetch(w) PROVE RInv'
  <2> DEFINE u(b) == [run[w] EXCEPT !.at = "fetched", !.orphans = b, !.known = {r \in Requests : remote[r] # 0}]
  <2>0. PICK b \in BOOLEAN :
          /\ IF b THEN losses < MaxLosses /\ losses' = losses + 1 ELSE losses' = losses
          /\ run' = [run EXCEPT ![w] = u(b)]
    BY <1>10 DEF Fetch
  <2> DEFINE t == u(b)
  <2>1. t \in Run /\ t.at # "locked"
    BY <1>0 DEF Run
  <2>2. run' = [run EXCEPT ![w] = t] /\ losses' \in 0..MaxLosses
    BY <1>0, <2>0 DEF ReconciliationTypeOK
  <2> HIDE DEF t
  <2>3. QED
    BY <1>0, <1>9, <1>10, <2>1, <2>2 DEF Fetch, ReconciliationTypeOK
<1>11. ASSUME NEW w \in Workers, Repair(w) PROVE RInv'
  <2> DEFINE t == [run[w] EXCEPT !.at = "committed", !.conn = NoConnection]
  <2>1. t \in Run /\ t.at # "locked" /\ run[w].rows \in [Requests -> State]
    BY <1>0 DEF Run
  <2>2. PICK n \in Fresh :
          /\ queue' = Enqueued({[kind |-> "repair", req |-> r, status |-> run[w].rows[r], run |-> RunId(n)]
                                  : r \in Oldest(Missing(w))})
          /\ seen' = Forgotten(n)
    BY <1>11 DEF Repair
  <2>3. n \in RunIds /\ Oldest(Missing(w)) \subseteq Requests
    BY DEF Fresh, Oldest, Missing
  <2>4. {[kind |-> "repair", req |-> r, status |-> run[w].rows[r], run |-> RunId(n)]
           : r \in Oldest(Missing(w))} \subseteq Event
    BY <2>1, <2>3 DEF Event, RunId
  <2>5. queue' \subseteq Event /\ seen' \subseteq seen
    BY <1>2, <2>2, <2>4 DEF Forgotten
  <2>6. run' = [run EXCEPT ![w] = t]
    BY <1>0, <1>11 DEF Repair, ReconciliationTypeOK
  <2> HIDE DEF t
  <2>7. QED
    BY <1>0, <1>9, <1>11, <2>1, <2>5, <2>6 DEF Repair, ReconciliationTypeOK
\* The lock is given back on a connection of w's pool.
<1>12. ASSUME NEW w \in Workers, NEW c \in Pool(w), lock' = GivenBack(c), run' = [run EXCEPT ![w] = Idle],
              UNCHANGED <<local, remote, enabled, queue, seen, losses, deploys>>
       PROVE  RInv'
  <2>1. ReconciliationTypeOK' /\ Counted'
    BY <1>0, <1>12, GiveBack DEF ReconciliationTypeOK, Counted
  <2>2. ASSUME NEW v \in Workers, run'[v].at = "locked"
        PROVE  run'[v].conn \in Pool(v) /\ lock'.conn = run'[v].conn
    <3>1. v # w /\ run'[v] = run[v]
      BY <1>0, <1>12, <2>2 DEF ReconciliationTypeOK
    <3>2. run[v].conn \in Pool(v) /\ lock.conn = run[v].conn
      BY <1>0, <2>2, <3>1 DEF ComparesUnderLock
    <3>3. lock' = lock
      BY <1>0, <1>12, <3>1, <3>2, OwnPools, GiveBack
    <3>4. QED
      BY <3>1, <3>2, <3>3
  <2>3. ComparesUnderLock'
    BY <2>2 DEF ComparesUnderLock, Pool
  <2>4. QED
    BY <2>1, <2>3 DEF RInv
<1>13. ASSUME NEW w \in Workers, InSync(w) PROVE RInv'
  BY <1>0, <1>12, <1>13 DEF InSync, ComparesUnderLock
<1>14. ASSUME NEW w \in Workers, NEW c \in Pool(w), Unlock(w, c) PROVE RInv'
  BY <1>12, <1>14 DEF Unlock
<1>15. ASSUME NEW w \in Workers, NEW c \in Pool(w), Compare(w, c) PROVE RInv'
  <2>1. CASE ~LockFree(c)
    BY <1>0, <1>9, <1>15, <2>1 DEF Compare, ReconciliationTypeOK
  <2>2. CASE LockFree(c)
    <3> DEFINE t == [run[w] EXCEPT !.at = "locked", !.rows = local, !.conn = c]
    <3>1. t \in Run /\ t.conn = c /\ c \in Connections
      BY <1>0, <1>15 DEF Run, ReconciliationTypeOK
    <3>2. /\ run' = [run EXCEPT ![w] = t] /\ lock' = Again(c)
          /\ UNCHANGED <<local, remote, enabled, queue, seen, losses, deploys>>
      BY <1>15, <2>2 DEF Compare
    <3> HIDE DEF t
    <3>3. Again(c).conn = c /\ Again(c).times \in Nat \ {0}
          /\ Again(c) \in [conn : Connections \cup {NoConnection}, times : Nat]
      BY <1>0, <3>1 DEF Again, ReconciliationTypeOK
    <3>4. ReconciliationTypeOK' /\ Counted'
      BY <1>0, <3>1, <3>2, <3>3 DEF ReconciliationTypeOK, Counted
    <3>5. ASSUME NEW v \in Workers, run'[v].at = "locked"
          PROVE  run'[v].conn \in Pool(v) /\ lock'.conn = run'[v].conn
      <4>1. CASE v = w
        BY <1>0, <3>1, <3>2, <3>3, <4>1 DEF ReconciliationTypeOK
      <4>2. CASE v # w
        <5>1. run[v].conn \in Pool(v) /\ lock.conn = run[v].conn /\ run'[v] = run[v]
          BY <1>0, <3>2, <3>5, <4>2 DEF ComparesUnderLock, ReconciliationTypeOK
        <5>2. lock.conn = c
          BY <1>0, <2>2, <5>1 DEF LockFree
        <5>3. QED
          BY <4>2, <5>1, <5>2, OwnPools
      <4>3. QED
        BY <4>1, <4>2
    <3>6. ComparesUnderLock'
      BY <3>5 DEF ComparesUnderLock, Pool
    <3>7. QED
      BY <3>4, <3>6 DEF RInv
  <2>3. QED
    BY <2>1, <2>2
<1>16. ASSUME NEW c \in Connections, Recycle(c) PROVE RInv'
  <2>1. /\ lock' = Unlocked /\ UNCHANGED <<local, remote, enabled, queue, seen, run, losses, deploys>>
        /\ \A w \in Workers : run[w].at # "locked"
    BY <1>0, <1>16 DEF Recycle, ComparesUnderLock
  <2>2. QED
    BY <1>0, <2>1 DEF ReconciliationTypeOK, RInv, Counted, ComparesUnderLock, Unlocked
<1>17. CASE UNCHANGED reconciliationVars
  BY <1>0, <1>17 DEF reconciliationVars, ReconciliationTypeOK, RInv, Counted, ComparesUnderLock
<1>18. QED
  BY <1>3, <1>4, <1>5, <1>6, <1>7, <1>8, <1>10, <1>11, <1>13, <1>14, <1>15, <1>16, <1>17 DEF ReconciliationNext, RunStep

\* Requests, announcements, the lock and the runs keep to their kinds.
THEOREM ReconciliationTypeCorrect == ReconciliationAssumption => (ReconciliationSpec => []ReconciliationTypeOK)
<1> SUFFICES ASSUME ReconciliationAssumption PROVE ReconciliationSpec => []ReconciliationTypeOK
    OBVIOUS
<1>1. ReconciliationInit => RInv
  BY TypesAtStart
<1>2. RInv /\ [ReconciliationNext]_reconciliationVars => RInv'
  BY ReconciliationStep
<1>3. RInv => ReconciliationTypeOK
  BY DEF RInv
<1>4. QED
  BY <1>1, <1>2, <1>3, PTL DEF ReconciliationSpec

\* Although the unlock goes out on whatever connection the session draws after its
\* commit, so that a lock may stay behind, be taken again by its own connection or be
\* dropped with it, no two processes compare at one time.
THEOREM ComparedOneAtATime == ReconciliationAssumption => (ReconciliationSpec => []OneAtATime)
<1> SUFFICES ASSUME ReconciliationAssumption PROVE ReconciliationSpec => []OneAtATime
    OBVIOUS
<1>1. ReconciliationInit => RInv
  BY TypesAtStart
<1>2. RInv /\ [ReconciliationNext]_reconciliationVars => RInv'
  BY ReconciliationStep
<1>3. RInv => OneAtATime
  BY OwnPools DEF RInv, ComparesUnderLock, OneAtATime
<1>4. QED
  BY <1>1, <1>2, <1>3, PTL DEF ReconciliationSpec

-----------------------------------------------------------------------------
\* A new request has no executor: whoever gives it one moves it to "in progress".
Unassigned(x) ==
    /\ x = [at |-> x.at, executor |-> x.executor, group |-> x.group]
    /\ x.at \in {"absent", "new"} => x.executor = None

Rows == DOMAIN request = Numbers /\ \A r \in Numbers : Unassigned(request[r])

\* No request, or rows of the time before.
LEMMA RowsInit == DispatchInit => Rows
BY DEF DispatchInit, Rows, Unassigned, Absent

\* What the commands of the kernel do to the rows.
LEMMA GiveKeepsRows == ASSUME NEW r, NEW e, Rows, Give(r, e) PROVE Rows'
BY DEF Rows, Unassigned, Give

LEMMA AddressKeepsRows == ASSUME NEW r, NEW g, Rows, Address(r, g) PROVE Rows'
<1>1. request' = [request EXCEPT ![r].group = g]
  BY DEF Address
<1>2. DOMAIN request' = Numbers
  BY <1>1 DEF Rows
<1>3. ASSUME NEW s \in Numbers PROVE Unassigned(request'[s])
  BY <1>1 DEF Rows, Unassigned
<1>4. QED
  BY <1>2, <1>3 DEF Rows

\* The step of NeverDisplaced.
LeavesTheRestAlone ==
    \A r \in Numbers :
        <<tick, dispatch>>' # <<tick, dispatch>> /\ request[r].at # "absent" /\ ~Waiting(r)
            => request'[r] = request[r]

\* Commands decide on the row as it is.
LEMMA RowsStep == ASSUME Rows, [DispatchNext]_dispatchVars PROVE Rows' /\ LeavesTheRestAlone
<1>1. CASE CreateRequest
  <2>1. PICK r \in Numbers : request[r].at = "absent" /\ request' = [request EXCEPT ![r].at = "new"]
    BY <1>1 DEF CreateRequest
  <2>2. \A s \in Numbers : s # r => request'[s] = request[s]
    BY <2>1 DEF Rows
  <2>3. Unassigned(request'[r])
    BY <2>1 DEF Rows, Unassigned
  <2>4. DOMAIN request' = Numbers
    BY <2>1 DEF Rows
  <2>5. QED
    BY <2>1, <2>2, <2>3, <2>4 DEF Rows, LeavesTheRestAlone, Unassigned
<1>2. ASSUME NEW r, NEW e, Claim(r, e) \/ ManagerAssign(r, e) PROVE Rows' /\ LeavesTheRestAlone
  BY <1>2, GiveKeepsRows DEF Claim, ManagerAssign, LeavesTheRestAlone
<1>3. ASSUME NEW r, NEW g, ManagerGroup(r, g) PROVE Rows' /\ LeavesTheRestAlone
  BY <1>3, AddressKeepsRows DEF ManagerGroup, LeavesTheRestAlone
<1>4. ASSUME NEW r \in Numbers, CloseRequest(r) PROVE Rows' /\ LeavesTheRestAlone
  BY <1>4 DEF CloseRequest, Rows, Unassigned, LeavesTheRestAlone
<1>5. CASE UNCHANGED request
  BY <1>5 DEF Rows, LeavesTheRestAlone
<1>6. ASSUME NEW r \in Numbers, DispatchApply(r), ~UNCHANGED request PROVE Rows' /\ LeavesTheRestAlone
  <2>1. /\ CanDispatch(r)
        /\ \/ Address(r, SpecOf[r])
           \/ Give(r, dispatch[r].to)
    BY <1>6 DEF DispatchApply
  <2>2. Rows'
    BY <2>1, GiveKeepsRows, AddressKeepsRows
  <2>3. LeavesTheRestAlone
    BY <2>1 DEF Rows, Unassigned, LeavesTheRestAlone, CanDispatch, DispatchFrom, Waiting, Give, Address
  <2>4. QED
    BY <2>2, <2>3
<1>7. ASSUME Process, ~UNCHANGED request PROVE Rows' /\ LeavesTheRestAlone
  <2>1. PICK r, e : /\ CanPromote(r) \/ CanDispatch(r)
                    /\ Address(r, SpecOf[r]) \/ Give(r, e)
    BY <1>7 DEF Process, ProcessMain, ProcessResidual
  <2>2. Rows'
    BY <2>1, GiveKeepsRows, AddressKeepsRows
  <2>3. LeavesTheRestAlone
    BY <2>1 DEF Rows, Unassigned, LeavesTheRestAlone, CanDispatch, CanPromote, DispatchFrom, Waiting, Give, Address
  <2>4. QED
    BY <2>2, <2>3
<1>8. QED
  BY <1>1, <1>2, <1>3, <1>4, <1>5, <1>6, <1>7 DEF DispatchNext, Automation, Failures, Claims, Managers, Groups, Closings,
         dispatchVars, SwitchMode, Tick, TickStart, Load, QueueDone, TickFails, Restart, DispatchPick, DispatchLost, ShiftChange

\* SYSTEM_AUTO_PROMOTE and SYSTEM_DISPATCH_ASSIGN decide on the locked row: whoever has
\* taken or closed a request since the tick or the dispatch read it, keeps it.
THEOREM AutomationDisplacesNobody == DispatchSpec => NeverDisplaced
<1>1. DispatchSpec => []Rows
  BY RowsInit, RowsStep, PTL DEF DispatchSpec
<1>2. Rows /\ [DispatchNext]_dispatchVars => [LeavesTheRestAlone]_dispatchVars
  BY RowsStep
<1>3. QED
  BY <1>1, <1>2, PTL DEF DispatchSpec, NeverDisplaced, LeavesTheRestAlone

-----------------------------------------------------------------------------
\* Automatic assignment: types, and a tick that never has more in hand than its slots.

\* Of some numbers, one is the least.
LEMMA LeastOf == ASSUME NEW S, S \subseteq Nat, S # {} PROVE \E x \in S : \A y \in S : x <= y
<1> DEFINE Less == {ss \in Nat \X Nat : ss[1] < ss[2]}
<1>1. IsWellFoundedOn(Less, Nat)
  BY NatLessThanWellFounded, Zenon DEF OpToRel
<1>2. PICK x \in S : \A y \in S : ~(<<y, x>> \in Less)
  BY <1>1, WFMin
<1>3. \A y \in S : ~(y < x)
  BY <1>2
<1>4. QED
  BY <1>3

\* select_executor: of those who can do it and are on duty, one of the least loaded.
LEMMA LeastLoaded ==
    ASSUME Executors \subseteq Nat, NEW spec, NEW duty \in SUBSET Executors, NEW load \in [Executors -> Nat],
           Fit(spec, duty) # {}
    PROVE  /\ Select(spec, duty, load) \in Fit(spec, duty)
           /\ \A f \in Fit(spec, duty) : load[Select(spec, duty, load)] <= load[f]
<1> DEFINE F == Fit(spec, duty)
           L == {load[e] : e \in F}
           Best(e) == \A f \in F : load[e] < load[f] \/ (load[e] = load[f] /\ e <= f)
<1>1. F \subseteq Executors
  BY DEF Fit
<1>2. L \subseteq Nat /\ L # {}
  BY <1>1
<1>3. PICK n \in L : \A y \in L : n <= y
  BY <1>2, LeastOf
<1> DEFINE E == {e \in F : load[e] = n}
<1>4. E \subseteq Nat /\ E # {}
  BY <1>1
<1>5. PICK e \in E : \A f \in E : e <= f
  BY <1>4, LeastOf
<1>6. ASSUME NEW f \in F PROVE load[e] < load[f] \/ (load[e] = load[f] /\ e <= f)
  <2>1. n <= load[f] /\ load[e] = n /\ load[f] \in Nat /\ n \in Nat
    BY <1>1, <1>2, <1>3
  <2>2. CASE load[f] = n
    BY <1>5, <2>1, <2>2
  <2>3. CASE load[f] # n
    BY <2>1, <2>3
  <2>4. QED
    BY <2>2, <2>3
<1>7. \E x \in F : Best(x)
  BY <1>6
<1> DEFINE best == CHOOSE x \in F : Best(x)
<1>8. Select(spec, duty, load) = best
  BY DEF Select
<1>9. best \in F /\ Best(best)
  <2> HIDE DEF F, Best
  <2>1. QED
    BY <1>7, Zenon
<1>10. \A f \in F : load[best] \in Nat /\ load[f] \in Nat
  <2> HIDE DEF best
  <2>1. QED
    BY <1>1, <1>9
<1> HIDE DEF best
<1>11. QED
  BY <1>8, <1>9, <1>10

\* Whoever is chosen can do it and is on duty.
LEMMA SelectFits ==
    ASSUME Executors \subseteq Nat, NEW spec, NEW duty \in SUBSET Executors, NEW load \in [Executors -> Nat]
    PROVE  Select(spec, duty, load) \in Fit(spec, duty) \cup {None}
<1>1. CASE Fit(spec, duty) = {}
  BY <1>1 DEF Select
<1>2. CASE Fit(spec, duty) # {}
  BY <1>2, LeastLoaded
<1>3. QED
  BY <1>1, <1>2

\* The requests are numbered by those before them.
LEMMA Ranks ==
    ASSUME NEW S, S \subseteq Nat, IsFiniteSet(S)
    PROVE  /\ \A r \in S : Before(S, r) \in 0..(Cardinality(S) - 1)
           /\ \A r, k \in S : Before(S, r) = Before(S, k) => r = k
           /\ Cardinality(S) \in Nat
<1> DEFINE B(r) == {s \in S : s < r}
<1>1. Cardinality(S) \in Nat /\ \A r \in S : IsFiniteSet(B(r)) /\ Cardinality(B(r)) \in Nat
  BY FS_Subset, FS_CardinalityType
<1>2. ASSUME NEW r \in S PROVE Cardinality(B(r)) < Cardinality(S)
  <2>1. B(r) \in SUBSET S /\ B(r) # S
    OBVIOUS
  <2> HIDE DEF B
  <2>2. QED
    BY <1>1, <2>1, FS_Subset
<1>3. ASSUME NEW r \in S, NEW k \in S, k < r PROVE Cardinality(B(k)) < Cardinality(B(r))
  <2>1. B(k) \in SUBSET B(r) /\ B(k) # B(r)
    <3>1. k \in B(r) /\ k \notin B(k)
      BY <1>3
    <3>2. \A s \in B(k) : s \in B(r)
      BY <1>3
    <3>3. QED
      BY <3>1, <3>2
  <2> HIDE DEF B
  <2>2. QED
    BY <1>1, <2>1, FS_Subset
<1>4. ASSUME NEW r \in S, NEW k \in S, Cardinality(B(r)) = Cardinality(B(k)) PROVE r = k
  <2>1. ~(k < r) /\ ~(r < k)
    BY <1>1, <1>3, <1>4
  <2>2. QED
    BY <2>1
<1>5. QED
  BY <1>1, <1>2, <1>4 DEF Before

\* The first n are n at most.
LEMMA FirstBounded ==
    ASSUME NEW S, S \subseteq Nat, IsFiniteSet(S), NEW n \in Nat
    PROVE  First(S, n) \subseteq S /\ IsFiniteSet(First(S, n)) /\ Cardinality(First(S, n)) \in 0..n
<1> DEFINE F == First(S, n)
           rank == [r \in F |-> Before(S, r)]
<1>1. F \subseteq S
  BY DEF First
<1>2. \A r \in F : Before(S, r) \in 0..(n - 1)
  <2> TAKE r \in F
  <2>1. r \in S /\ Before(S, r) < n
    BY DEF First
  <2>2. Before(S, r) \in 0..(Cardinality(S) - 1) /\ Cardinality(S) \in Nat
    BY <2>1, Ranks
  <2>3. QED
    BY <2>1, <2>2
<1>3. \A r, k \in F : rank[r] = rank[k] => r = k
  BY <1>1, Ranks
<1>4. rank \in Injection(F, 0..(n - 1))
  <2>1. rank \in [F -> 0..(n - 1)]
    BY <1>2
  <2> HIDE DEF F, rank
  <2>2. QED
    BY <1>3, <2>1 DEF Injection, IsInjective
<1>5. IsFiniteSet(0..(n - 1)) /\ Cardinality(0..(n - 1)) = n
  BY FS_Interval
<1> HIDE DEF F, rank
<1>6. IsFiniteSet(F) /\ Cardinality(F) <= n /\ Cardinality(F) \in Nat
  BY <1>4, <1>5, FS_Injection, FS_CardinalityType
<1>7. QED
  BY <1>1, <1>6 DEF F

\* No element twice.
Distinct(s) == \A i, j \in DOMAIN s : s[i] = s[j] => i = j

\* What is put in order is a sequence of all of it.
LEMMA OrderTyped ==
    ASSUME NEW S, S \subseteq Nat, IsFiniteSet(S)
    PROVE  InOrder(S) \in Seq(S) /\ Len(InOrder(S)) = Cardinality(S) /\ Distinct(InOrder(S))
<1> DEFINE c == Cardinality(S)
           rank == [r \in S |-> Before(S, r)]
<1>1. c \in Nat /\ IsFiniteSet(0..(c - 1)) /\ Cardinality(0..(c - 1)) = c
  <2>1. c \in Nat
    BY Ranks
  <2> HIDE DEF c
  <2>2. QED
    BY <2>1, FS_Interval
<1>2. rank \in Injection(S, 0..(c - 1))
  <2>1. rank \in [S -> 0..(c - 1)] /\ \A r, k \in S : rank[r] = rank[k] => r = k
    BY Ranks
  <2> HIDE DEF c, rank
  <2>2. QED
    BY <2>1 DEF Injection, IsInjective
<1>3. rank \in Surjection(S, 0..(c - 1))
  <2> HIDE DEF rank
  <2>1. QED
    BY <1>1, <1>2, FS_Injection
<1> DEFINE At(i) == CHOOSE r \in S : Before(S, r) = i - 1
<1>4. ASSUME NEW i \in 1..c PROVE At(i) \in S /\ Before(S, At(i)) = i - 1
  <2>1. i - 1 \in 0..(c - 1)
    BY <1>1
  <2>2. \E r \in S : rank[r] = i - 1
    BY <1>3, <2>1 DEF Surjection
  <2>3. QED
    BY <2>2
<1> HIDE DEF At
<1>5. InOrder(S) = [i \in 1..c |-> At(i)]
  BY DEF InOrder, At
<1>6. InOrder(S) \in [1..c -> S]
  BY <1>4, <1>5
<1>7. Distinct(InOrder(S))
  <2> SUFFICES ASSUME NEW i \in 1..c, NEW j \in 1..c, At(i) = At(j) PROVE i = j
    BY <1>5 DEF Distinct
  <2>1. i - 1 = j - 1
    BY <1>4
  <2>2. QED
    BY <2>1
<1>8. QED
  BY <1>1, <1>6, <1>7, SeqDef

\* Two sequences of different elements, one after the other.
LEMMA DistinctConcat ==
    ASSUME NEW S, NEW T, S \cap T = {}, NEW s \in Seq(S), NEW t \in Seq(T), Distinct(s), Distinct(t)
    PROVE  Distinct(s \o t)
<1> DEFINE m == Len(s)
           n == Len(t)
<1>1. /\ m \in Nat /\ DOMAIN s = 1..m /\ \A i \in 1..m : s[i] \in S
      /\ n \in Nat /\ DOMAIN t = 1..n /\ \A i \in 1..n : t[i] \in T
  BY LenProperties, ElementOfSeq
<1>2. /\ s \in Seq(S \cup T) /\ t \in Seq(S \cup T)
  BY SeqMonotonic
<1>3. /\ DOMAIN (s \o t) = 1..(m + n)
      /\ \A i \in 1..(m + n) : (s \o t)[i] = IF i <= m THEN s[i] ELSE t[i - m]
  BY <1>1, <1>2, ConcatProperties, LenProperties
<1> HIDE DEF m, n
<1>4. SUFFICES ASSUME NEW i \in 1..(m + n), NEW j \in 1..(m + n), (s \o t)[i] = (s \o t)[j] PROVE i = j
  BY <1>3 DEF Distinct
<1>5. CASE i <= m /\ j <= m
  <2>1. i \in 1..m /\ j \in 1..m /\ s[i] = s[j]
    BY <1>1, <1>3, <1>4, <1>5
  <2>2. QED
    BY <1>1, <2>1 DEF Distinct
<1>6. CASE ~(i <= m) /\ ~(j <= m)
  <2>1. i - m \in 1..n /\ j - m \in 1..n /\ t[i - m] = t[j - m]
    BY <1>1, <1>3, <1>4, <1>6
  <2>2. i - m = j - m
    BY <1>1, <2>1 DEF Distinct
  <2>3. QED
    BY <1>1, <2>2
<1>7. CASE i <= m /\ ~(j <= m)
  <2>1. i \in 1..m /\ j - m \in 1..n /\ s[i] = t[j - m]
    BY <1>1, <1>3, <1>4, <1>7
  <2>2. QED
    BY <1>1, <2>1
<1>8. CASE ~(i <= m) /\ j <= m
  <2>1. j \in 1..m /\ i - m \in 1..n /\ s[j] = t[i - m]
    BY <1>1, <1>3, <1>4, <1>8
  <2>2. QED
    BY <1>1, <2>1
<1>9. QED
  BY <1>5, <1>6, <1>7, <1>8

LEMMA GreaterOfTwo == ASSUME NEW a \in Int, NEW b \in Int PROVE Max({a, b}) = IF a >= b THEN a ELSE b
<1> DEFINE m == IF a >= b THEN a ELSE b
<1>1. m \in {a, b} /\ \A y \in {a, b} : m >= y
  OBVIOUS
<1>2. \A x \in {a, b} : (\A y \in {a, b} : x >= y) => x = m
  OBVIOUS
<1>3. QED
  BY <1>1, <1>2 DEF Max

LEMMA LesserOfTwo == ASSUME NEW a \in Int, NEW b \in Int PROVE Min({a, b}) = IF a <= b THEN a ELSE b
<1> DEFINE m == IF a <= b THEN a ELSE b
<1>1. m \in {a, b} /\ \A y \in {a, b} : m <= y
  OBVIOUS
<1>2. \A x \in {a, b} : (\A y \in {a, b} : x <= y) => x = m
  OBVIOUS
<1>3. QED
  BY <1>1, <1>2 DEF Min

\* The share of the second queue leaves the first one something, or is nothing.
LEMMA ShareBounded == ASSUME CountsAssumption PROVE ResidualShare \in 0..(Limit - 1)
<1>1. Limit \in 1..50 /\ Limit \div 4 \in Nat
  BY DEF CountsAssumption
<1>2. Max({1, Limit \div 4}) \in Nat
  BY <1>1, GreaterOfTwo
<1>3. Max({0, Limit - 1}) = Limit - 1
  BY <1>1, GreaterOfTwo
<1> DEFINE a == Max({1, Limit \div 4})
           b == Max({0, Limit - 1})
<1>4. a \in Int /\ b \in Int
  BY <1>1, <1>2, <1>3
<1>5. Min({a, b}) = IF a <= b THEN a ELSE b
  <2> HIDE DEF a, b
  <2>1. QED
    BY <1>4, LesserOfTwo
<1>6. a \in Nat /\ b = Limit - 1 /\ ResidualShare = Min({a, b})
  BY <1>2, <1>3 DEF ResidualShare
<1> HIDE DEF a, b
<1>7. QED
  BY <1>1, <1>5, <1>6

-----------------------------------------------------------------------------
Request ==
    [at : {"absent", "new", "progress", "closed"}, executor : Executors \cup {None}, group : Specs \cup {NoGroup}]
Todo == [number : Numbers, spec : Specs \cup {NoGroup}]
Given == [Executors -> Nat]

TickRecord ==
    [queue : {"none", "main", "residual"}, loaded : BOOLEAN, todo : Seq(Todo), last : Numbers \cup {None},
     reserve : 0..(Limit - 1), duty : SUBSET Executors, load : Given, start : Given, given : Given]

\* A tick holds a share of the slots for each queue, and asks for no more.
Share(t) == IF t.queue = "main" THEN Limit - t.reserve ELSE t.reserve
TickKind(t) ==
    /\ t \in TickRecord
    /\ t.queue = "none" => t = NoTick
    /\ ~t.loaded => t.todo = <<>>
    /\ Len(t.todo) <= Share(t)

DispatchKinds ==
    /\ request \in [Numbers -> Request]
    /\ onDuty \subseteq Executors /\ mode \in {"off", "resting", "on"}
    /\ dispatch \in [Numbers -> [at : {"done", "due", "picked"}, to : Executors \cup {None}]]
    /\ cursor \in [{"main", "residual"} -> Numbers \cup {None}]
    /\ cooldown \in [Numbers -> 0..Cooldown]
    /\ faults \in 0..MaxFaults

DispatchInv == DispatchKinds /\ TickKind(tick)

LEMMA NoTickKind == ASSUME CountsAssumption PROVE TickKind(NoTick)
<1>1. NoOne \in Given
  BY DEF NoOne, Given
<1>2. <<>> \in Seq(Todo) /\ Len(<<>>) = 0
  BY EmptySeq
<1>3. Limit \in 1..50
  BY DEF CountsAssumption
<1>4. QED
  BY <1>1, <1>2, <1>3 DEF TickKind, TickRecord, Share, NoTick

LEMMA DispatchKindsInit == ASSUME CountsAssumption, PeopleAssumption, DispatchInit PROVE DispatchInv
<1>1. TickKind(tick)
  BY NoTickKind DEF DispatchInit
<1>2. request \in [Numbers -> Request]
  BY DEF DispatchInit, Request, Absent, PeopleAssumption
<1>3. QED
  BY <1>1, <1>2 DEF DispatchInit, DispatchInv, DispatchKinds, Done, CountsAssumption

\* Loads are numbers.
LEMMA LoadsTyped == ASSUME N \in Nat PROVE Loads \in Given
<1>1. IsFiniteSet(Numbers)
  BY FS_Interval DEF Numbers
<1>2. ASSUME NEW e \in Executors PROVE Cardinality(Open(e)) \in Nat
  <2>1. Open(e) \in SUBSET Numbers
    BY DEF Open
  <2>2. QED
    BY <1>1, <2>1, FS_Subset, FS_CardinalityType
<1>3. QED
  BY <1>2 DEF Loads, Given

\* A batch fills the slots of its pass at most, the round from the start included, and
\* names no request twice.
LEMMA BatchBounded ==
    ASSUME CountsAssumption, DispatchInv, NEW q \in {"main", "residual"}, NEW slots \in Nat
    PROVE  Batch(q, slots) \in Seq(Numbers) /\ Len(Batch(q, slots)) <= slots /\ Distinct(Batch(q, slots))
<1> DEFINE F == Forward(q, slots)
           W == Wrapped(q, slots)
           ahead == {r \in Queue(q) : r > cursor[q]}
           left == slots - Cardinality(F)
           reach == Max({slots * Multiplier, slots + left})
           first == Ready(First(ahead, slots * Multiplier))
           again == Ready(First(Queue(q), reach)) \ F
<1>1. Numbers \subseteq Nat /\ IsFiniteSet(Numbers) /\ Multiplier \in Nat
  BY FS_Interval DEF Numbers, CountsAssumption
<1>2. Queue(q) \subseteq Numbers
  BY DEF Queue
<1>3. slots * Multiplier \in Nat
  BY <1>1
<1>4. F \subseteq Numbers /\ IsFiniteSet(F) /\ Cardinality(F) \in 0..slots
  <2>1. ahead \subseteq Nat /\ IsFiniteSet(ahead)
    BY <1>1, <1>2, FS_Subset
  <2> HIDE DEF ahead
  <2>2. First(ahead, slots * Multiplier) \subseteq ahead
    BY <1>3, <2>1, FirstBounded
  <2>3. first \subseteq ahead
    BY <2>2 DEF Ready
  <2> HIDE DEF first
  <2>4. first \subseteq Nat /\ IsFiniteSet(first)
    BY <2>1, <2>3, FS_Subset
  <2>5. F = First(first, slots)
    BY DEF Forward, first, ahead
  <2>6. F \subseteq first /\ IsFiniteSet(F) /\ Cardinality(F) \in 0..slots
    BY <2>4, <2>5, FirstBounded
  <2>7. QED
    BY <1>2, <2>3, <2>6 DEF ahead
<1> HIDE DEF F
<1>5. left \in Nat /\ reach \in Nat
  BY <1>3, <1>4, GreaterOfTwo
<1>6. W \subseteq Numbers /\ IsFiniteSet(W) /\ Cardinality(W) \in 0..left /\ W \cap F = {}
  <2>1. Queue(q) \subseteq Nat /\ IsFiniteSet(Queue(q))
    BY <1>1, <1>2, FS_Subset
  <2> HIDE DEF reach, left
  <2>2. First(Queue(q), reach) \subseteq Queue(q)
    BY <1>5, <2>1, FirstBounded
  <2>3. again \subseteq Queue(q) /\ again \cap F = {}
    BY <2>2 DEF Ready
  <2> HIDE DEF again
  <2>4. again \subseteq Nat /\ IsFiniteSet(again)
    BY <2>1, <2>3, FS_Subset
  <2>5. W = First(again, left)
    BY DEF Wrapped, F, left, reach, again
  <2>6. W \subseteq again /\ IsFiniteSet(W) /\ Cardinality(W) \in 0..left
    BY <1>5, <2>4, <2>5, FirstBounded
  <2>7. QED
    BY <1>2, <2>3, <2>6
<1> HIDE DEF W
<1> DEFINE f == InOrder(F)
           w == InOrder(W)
<1>7. /\ f \in Seq(F) /\ Len(f) = Cardinality(F) /\ Distinct(f)
      /\ w \in Seq(W) /\ Len(w) = Cardinality(W) /\ Distinct(w)
  <2>1. F \subseteq Nat /\ W \subseteq Nat
    BY <1>1, <1>4, <1>6
  <2>2. QED
    BY <1>4, <1>6, <2>1, OrderTyped
<1>8. Batch(q, slots) = f \o w
  BY DEF Batch, F, W
<1> HIDE DEF f, w
<1>9. f \in Seq(Numbers) /\ w \in Seq(Numbers)
  BY <1>4, <1>6, <1>7, SeqMonotonic
<1>10. f \o w \in Seq(Numbers) /\ Len(f \o w) = Cardinality(F) + Cardinality(W)
  BY <1>7, <1>9, ConcatProperties
<1>11. Distinct(f \o w)
  BY <1>6, <1>7, DistinctConcat
<1>12. QED
  BY <1>4, <1>6, <1>8, <1>10, <1>11

-----------------------------------------------------------------------------
\* The rows, as the commands leave them.
LEMMA GiveTyped ==
    ASSUME request \in [Numbers -> Request], NEW r \in Numbers, NEW e \in Executors \cup {None}, Give(r, e)
    PROVE  request' \in [Numbers -> Request]
BY DEF Give, Request

LEMMA AddressTyped ==
    ASSUME request \in [Numbers -> Request], NEW r \in Numbers, NEW g \in Specs \cup {NoGroup}, Address(r, g)
    PROVE  request' \in [Numbers -> Request]
BY DEF Address, Request

\* People.
LEMMA PeopleTyped ==
    ASSUME PeopleAssumption, DispatchInv,
           \/ CreateRequest \/ SwitchMode \/ Closings \/ Claims \/ Managers \/ Groups
           \/ \E e \in Executors : ShiftChange(e)
    PROVE  DispatchInv'
<1> USE DEF DispatchInv, DispatchKinds
<1>0. UNCHANGED tick => TickKind(tick)'
  BY DEF TickKind
<1>1. CASE CreateRequest
  <2>1. PICK r \in Numbers : /\ request' = [request EXCEPT ![r].at = "new"]
                             /\ dispatch' = [dispatch EXCEPT ![r] = Due]
    BY <1>1 DEF CreateRequest
  <2>2. request' \in [Numbers -> Request]
    <3>1. [request[r] EXCEPT !.at = "new"] \in Request
      BY DEF Request
    <3>2. QED
      BY <2>1, <3>1
  <2>3. dispatch' \in [Numbers -> [at : {"done", "due", "picked"}, to : Executors \cup {None}]]
    BY <2>1 DEF Due
  <2>4. QED
    BY <1>0, <1>1, <2>2, <2>3 DEF CreateRequest
<1>2. CASE SwitchMode \/ \E e \in Executors : ShiftChange(e)
  <2>1. onDuty' \subseteq Executors /\ mode' \in {"off", "resting", "on"}
    BY <1>2 DEF SwitchMode, ShiftChange
  <2>2. UNCHANGED <<request, dispatch, cursor, cooldown, tick, faults>>
    BY <1>2 DEF SwitchMode, ShiftChange
  <2>3. QED
    BY <1>0, <2>1, <2>2
<1>3. CASE Closings
  <2>1. PICK r \in Numbers : CloseRequest(r)
    BY <1>3 DEF Closings
  <2>2. request' \in [Numbers -> Request]
    <3>1. [request[r] EXCEPT !.at = "closed"] \in Request
      BY DEF Request
    <3>2. request' = [request EXCEPT ![r] = [request[r] EXCEPT !.at = "closed"]]
      BY <2>1 DEF CloseRequest
    <3>3. QED
      BY <3>1, <3>2
  <2>3. QED
    BY <1>0, <2>1, <2>2 DEF CloseRequest
<1>4. CASE Claims \/ Managers
  <2>1. PICK r \in Numbers, e \in Executors : Claim(r, e) \/ ManagerAssign(r, e)
    BY <1>4 DEF Claims, Managers
  <2>2. request' \in [Numbers -> Request]
    BY <2>1, GiveTyped DEF Claim, ManagerAssign
  <2>3. QED
    BY <1>0, <2>1, <2>2 DEF Claim, ManagerAssign
<1>5. CASE Groups
  <2>1. PICK r \in Numbers, g \in Specs : ManagerGroup(r, g)
    BY <1>5 DEF Groups
  <2>2. request' \in [Numbers -> Request]
    BY <2>1, AddressTyped DEF ManagerGroup
  <2>3. QED
    BY <1>0, <2>1, <2>2 DEF ManagerGroup
<1>6. QED
  BY <1>1, <1>2, <1>3, <1>4, <1>5

\* The dispatch after creation.
LEMMA DispatchTyped ==
    ASSUME CountsAssumption, PeopleAssumption, DispatchInv, NEW r \in Numbers,
           DispatchPick(r) \/ DispatchApply(r) \/ DispatchLost(r)
    PROVE  DispatchInv'
<1> USE DEF DispatchInv, DispatchKinds
<1>1. CASE DispatchPick(r)
  <2>1. Select(SpecOf[r], onDuty, Loads) \in Executors \cup {None}
    <3>1. Loads \in [Executors -> Nat]
      BY LoadsTyped DEF CountsAssumption, Given
    <3>2. QED
      BY <3>1, SelectFits DEF PeopleAssumption, Fit
  <2>2. QED
    BY <1>1, <2>1 DEF DispatchPick, Picked, Done
<1>2. CASE DispatchApply(r)
  <2>1. request' \in [Numbers -> Request]
    BY <1>2, GiveTyped, AddressTyped DEF DispatchApply, PeopleAssumption
  <2>2. QED
    BY <1>2, <2>1 DEF DispatchApply, Done
<1>3. CASE DispatchLost(r)
  BY <1>3 DEF DispatchLost, Done, CountsAssumption
<1>4. QED
  BY <1>1, <1>2, <1>3

\* The tick.
LEMMA AgedTyped == ASSUME CountsAssumption, DispatchInv PROVE Aged \in [Numbers -> 0..Cooldown]
<1>1. ASSUME NEW r \in Numbers PROVE Max({0, cooldown[r] - 1}) \in 0..Cooldown
  <2>1. cooldown[r] \in 0..Cooldown /\ Cooldown \in Nat
    BY DEF DispatchInv, DispatchKinds, CountsAssumption
  <2> DEFINE c == cooldown[r] - 1
  <2>2. c \in Int /\ c <= Cooldown
    BY <2>1
  <2> HIDE DEF c
  <2>3. Max({0, c}) = IF 0 >= c THEN 0 ELSE c
    BY <2>2, GreaterOfTwo
  <2>4. QED
    BY <2>1, <2>2, <2>3 DEF c
<1>2. QED
  BY <1>1 DEF Aged

LEMMA StartTyped == ASSUME CountsAssumption, DispatchInv, TickStart PROVE DispatchInv'
<1> USE DEF DispatchInv, DispatchKinds
<1>1. cooldown' \in [Numbers -> 0..Cooldown]
  BY AgedTyped DEF TickStart
<1> DEFINE share == IF Queue("residual") = {} THEN 0 ELSE ResidualShare
<1>2. Loads \in Given /\ share \in 0..(Limit - 1) /\ Limit \in Nat \ {0}
  <2>1. Limit \in Nat \ {0} /\ ResidualShare \in 0..(Limit - 1)
    BY ShareBounded DEF CountsAssumption
  <2>2. QED
    BY <2>1, LoadsTyped DEF CountsAssumption
<1>3. TickKind(tick')
  <2>1. CASE tick' = NoTick
    BY <2>1, NoTickKind
  <2>2. CASE tick' = [NoTick EXCEPT !.queue = "main", !.duty = onDuty, !.load = Loads, !.start = Loads, !.reserve = share]
    <3> HIDE DEF share
    <3>1. tick' = [queue |-> "main", loaded |-> FALSE, todo |-> <<>>, last |-> None, reserve |-> share,
                   duty |-> onDuty, load |-> Loads, start |-> Loads, given |-> NoOne]
      BY <2>2 DEF NoTick
    <3>2. NoOne \in Given /\ <<>> \in Seq(Todo) /\ Len(<<>>) = 0
      BY EmptySeq DEF NoOne, Given
    <3>3. QED
      BY <1>2, <3>1, <3>2 DEF TickKind, TickRecord, Share
  <2>3. QED
    BY <2>1, <2>2 DEF TickStart
<1>4. QED
  BY <1>1, <1>3 DEF TickStart, TickKind

LEMMA LoadTyped == ASSUME CountsAssumption, PeopleAssumption, DispatchInv, Load PROVE DispatchInv'
<1> DEFINE batch == Batch(tick.queue, Slots)
           todo == [i \in DOMAIN batch |-> Item(tick.queue, batch[i])]
           last == IF batch = <<>> THEN None ELSE Last(batch)
<1>0. tick.queue \in {"none", "main", "residual"} /\ tick.reserve \in 0..(Limit - 1) /\ tick.queue # "none"
  BY DEF Load, DispatchInv, TickKind, TickRecord
<1>1. tick.queue \in {"main", "residual"} /\ Slots \in Nat /\ Slots = Share(tick)
  BY <1>0 DEF Slots, Share, CountsAssumption
<1>2. batch \in Seq(Numbers) /\ Len(batch) <= Slots
  BY <1>1, BatchBounded
<1>3. tick' = [tick EXCEPT !.loaded = TRUE, !.todo = todo, !.last = last]
  BY DEF Load
<1>4. DOMAIN batch = 1..Len(batch) /\ Len(batch) \in Nat /\ \A i \in 1..Len(batch) : batch[i] \in Numbers
  <2> HIDE DEF batch
  <2>1. QED
    BY <1>2, ElementOfSeq, LenProperties
<1>5. \A r \in Numbers : Item(tick.queue, r) \in Todo
  BY DEF Item, Todo, DispatchInv, DispatchKinds, Request, PeopleAssumption
<1>6. todo \in Seq(Todo) /\ Len(todo) = Len(batch)
  <2> DEFINE m == Len(batch)
  <2> HIDE DEF batch
  <2>1. todo \in [1..m -> Todo]
    BY <1>4, <1>5
  <2> HIDE DEF todo, m
  <2>2. m \in Nat
    BY <1>4 DEF m
  <2>3. QED
    BY <2>1, <2>2, SeqDef DEF m
<1>7. last \in Numbers \cup {None}
  <2> HIDE DEF batch
  <2>1. batch # <<>> => Len(batch) \in 1..Len(batch)
    BY <1>2, <1>4, EmptySeq
  <2>2. QED
    BY <1>4, <2>1 DEF Last
<1> HIDE DEF batch, todo, last
<1>8. TickKind(tick')
  <2>1. tick \in TickRecord
    BY DEF DispatchInv, TickKind
  <2>2. tick' \in TickRecord
    BY <1>3, <1>6, <1>7, <2>1 DEF TickRecord
  <2>3. /\ tick'.queue = tick.queue /\ tick'.loaded = TRUE /\ tick'.todo = todo /\ tick'.reserve = tick.reserve
    BY <1>3, <2>1 DEF TickRecord
  <2>4. Share(tick') = Share(tick)
    BY <2>3 DEF Share
  <2>5. QED
    BY <1>1, <1>2, <1>6, <2>2, <2>3, <2>4 DEF TickKind
<1>9. QED
  BY <1>8 DEF Load, DispatchInv, DispatchKinds, TickKind

\* What is done with an item: its command, the load it bears, its cooldown.
LEMMA ProcessTyped == ASSUME CountsAssumption, PeopleAssumption, DispatchInv, Process PROVE DispatchInv'
<1> DEFINE item == Head(tick.todo)
           r == item.number
           e == Select(item.spec, tick.duty, tick.load)
<1>1. tick.todo \in Seq(Todo) /\ tick.todo # <<>> /\ tick.loaded
  BY DEF Process, DispatchInv, TickKind, TickRecord
<1>2. item \in Todo /\ Tail(tick.todo) \in Seq(Todo) /\ Len(Tail(tick.todo)) = Len(tick.todo) - 1 /\ Len(tick.todo) \in Nat
  BY <1>1, HeadTailProperties, LenProperties
<1>3. r \in Numbers
  BY <1>2 DEF Todo
<1>4. e \in Executors \cup {None} /\ tick.queue # "none"
  <2>1. e \in Fit(item.spec, tick.duty) \cup {None}
    BY SelectFits DEF DispatchInv, TickKind, TickRecord, Given, PeopleAssumption
  <2>2. tick.queue # "none"
    BY <1>1 DEF DispatchInv, TickKind, NoTick
  <2>3. QED
    BY <2>1, <2>2 DEF Fit, DispatchInv, TickKind, TickRecord
<1>5. \/ tick' = Passed
      \/ e # None /\ tick' = Served(e)
  BY DEF Process, ProcessMain, ProcessResidual
<1>6. \/ UNCHANGED cooldown
      \/ Cool(r)
  BY DEF Process, ProcessMain, ProcessResidual
<1>7. \/ UNCHANGED request
      \/ Address(r, SpecOf[r])
      \/ e # None /\ Give(r, e)
  BY DEF Process, ProcessMain, ProcessResidual
<1> HIDE DEF r, e
<1>8. request' \in [Numbers -> Request]
  BY <1>3, <1>4, <1>7, GiveTyped, AddressTyped DEF DispatchInv, DispatchKinds, PeopleAssumption
<1>9. cooldown' \in [Numbers -> 0..Cooldown]
  BY <1>3, <1>6 DEF Cool, DispatchInv, DispatchKinds, CountsAssumption
<1>10. TickKind(tick')
  <2>1. tick \in TickRecord /\ Len(tick.todo) <= Share(tick) /\ Share(tick) \in Int
    BY DEF DispatchInv, TickKind, TickRecord, Share, CountsAssumption
  <2>2. tick' \in TickRecord
    <3>1. CASE tick' = Passed
      BY <1>2, <2>1, <3>1 DEF Passed, TickRecord
    <3>2. CASE e # None /\ tick' = Served(e)
      <4>1. Bump(e) \in Given /\ [tick.given EXCEPT ![e] = @ + 1] \in Given
        BY <1>4, <2>1, <3>2 DEF Bump, Given, TickRecord
      <4>2. tick' = [tick EXCEPT !.todo = Tail(tick.todo), !.load = Bump(e), !.given = [tick.given EXCEPT ![e] = @ + 1]]
        BY <2>1, <3>2 DEF Served, TickRecord
      <4>3. QED
        BY <1>2, <2>1, <4>1, <4>2 DEF TickRecord
    <3>3. QED
      BY <1>5, <3>1, <3>2
  <2>3. /\ tick'.queue = tick.queue /\ tick'.loaded = tick.loaded /\ tick'.todo = Tail(tick.todo)
        /\ tick'.reserve = tick.reserve
    BY <1>5, <2>1 DEF Passed, Served, TickRecord
  <2>4. Share(tick') = Share(tick)
    BY <2>3 DEF Share
  <2>5. QED
    BY <1>1, <1>2, <1>4, <2>1, <2>2, <2>3, <2>4 DEF TickKind
<1>11. QED
  BY <1>8, <1>9, <1>10 DEF Process, DispatchInv, DispatchKinds, TickKind

LEMMA TickEndTyped ==
    ASSUME CountsAssumption, DispatchInv, QueueDone \/ TickFails \/ Restart
    PROVE  DispatchInv'
<1>1. TickKind(NoTick)
  BY NoTickKind
<1>2. CASE QueueDone
  <2>1. cursor' \in [{"main", "residual"} -> Numbers \cup {None}]
    <3>1. tick.last \in Numbers \cup {None}
      BY DEF DispatchInv, TickKind, TickRecord
    <3>2. QED
      BY <1>2, <3>1 DEF QueueDone, CursorMoved, DispatchInv, DispatchKinds
  <2>2. TickKind(tick')
    <3>1. CASE tick' = NoTick
      BY <1>1, <3>1
    <3>2. CASE tick' = [tick EXCEPT !.queue = "residual", !.loaded = FALSE, !.last = None]
      <4>1. tick \in TickRecord /\ tick.todo = <<>> /\ Len(<<>>) = 0
        BY <1>2, EmptySeq DEF QueueDone, DispatchInv, TickKind
      <4>2. tick' \in TickRecord
        BY <3>2, <4>1 DEF TickRecord
      <4>3. tick'.queue = "residual" /\ tick'.todo = <<>> /\ tick'.reserve = tick.reserve /\ tick.reserve \in 0..(Limit - 1)
        BY <3>2, <4>1 DEF TickRecord
      <4>4. Share(tick') >= 0
        BY <4>3 DEF Share, CountsAssumption
      <4>5. QED
        BY <4>1, <4>2, <4>3, <4>4 DEF TickKind
    <3>3. QED
      BY <1>2, <3>1, <3>2 DEF QueueDone
  <2>3. QED
    BY <1>2, <2>1, <2>2 DEF QueueDone, DispatchInv, DispatchKinds, TickKind
<1>3. CASE TickFails \/ Restart
  <2>1. tick' = NoTick /\ faults' \in 0..MaxFaults
    BY <1>3 DEF TickFails, Restart, DispatchInv, DispatchKinds, CountsAssumption
  <2>2. cursor' \in [{"main", "residual"} -> Numbers \cup {None}] /\ cooldown' \in [Numbers -> 0..Cooldown]
    BY <1>3 DEF TickFails, Restart, DispatchInv, DispatchKinds, CountsAssumption
  <2>3. QED
    BY <1>1, <1>3, <2>1, <2>2 DEF TickFails, Restart, DispatchInv, DispatchKinds, TickKind
<1>4. QED
  BY <1>2, <1>3

LEMMA DispatchStep ==
    ASSUME CountsAssumption, PeopleAssumption, DispatchInv, [DispatchNext]_dispatchVars PROVE DispatchInv'
<1>1. CASE UNCHANGED dispatchVars
  BY <1>1 DEF dispatchVars, DispatchInv, DispatchKinds, TickKind
<1>2. CASE \E r \in Numbers : DispatchPick(r) \/ DispatchApply(r) \/ DispatchLost(r)
  BY <1>2, DispatchTyped
<1>3. CASE TickStart
  BY <1>3, StartTyped
<1>4. CASE Load
  BY <1>4, LoadTyped
<1>5. CASE Process
  BY <1>5, ProcessTyped
<1>6. CASE QueueDone \/ TickFails \/ Restart
  BY <1>6, TickEndTyped
<1>7. CASE \/ CreateRequest \/ SwitchMode \/ Closings \/ Claims \/ Managers \/ Groups
           \/ \E e \in Executors : ShiftChange(e)
  BY <1>7, PeopleTyped
<1>8. QED
  BY <1>1, <1>2, <1>3, <1>4, <1>5, <1>6, <1>7 DEF DispatchNext, Automation, Failures, Tick

\* AutoAssignWorker: rows, choices and cursors keep to their kinds, and a tick never has
\* more in hand than the slots of its queue, whoever changes requests beside it.
THEOREM DispatchTypeCorrect == CountsAssumption /\ PeopleAssumption => (DispatchSpec => []DispatchTypeOK)
<1> SUFFICES ASSUME CountsAssumption, PeopleAssumption PROVE DispatchSpec => []DispatchTypeOK
    OBVIOUS
<1>1. DispatchInit => DispatchInv
  BY DispatchKindsInit
<1>2. DispatchInv /\ [DispatchNext]_dispatchVars => DispatchInv'
  BY DispatchStep
<1>3. DispatchInv => DispatchTypeOK
  BY DEF DispatchInv, DispatchKinds, TickKind, TickRecord, Share, DispatchTypeOK, Request, Todo, Slots
<1>4. QED
  BY <1>1, <1>2, <1>3, PTL DEF DispatchSpec

-----------------------------------------------------------------------------
\* A tick counts what it gives.
Figures(t) == <<t.duty, t.load, t.start, t.given>>

LoadsCounted(t) == \A e \in Executors : t.load[e] = t.start[e] + t.given[e]

\* Whoever was given something was among the least loaded of those who can do as much.
Even(t) ==
    \A e, f \in t.duty : Skills[e] \subseteq Skills[f] /\ t.given[e] > 0 => t.load[e] <= t.load[f] + 1

\* What the tick may have given and have in hand: the slots of the queues it has begun.
Room(t) == IF t.queue = "residual" /\ t.loaded THEN Limit ELSE Limit - t.reserve

Spent(t) ==
    /\ \A i, j \in DOMAIN t.todo : t.todo[i].number = t.todo[j].number => i = j
    /\ t.queue = "main" /\ ~t.loaded => t.given = NoOne
    /\ SumFunction(t.given) + Len(t.todo) <= Room(t)

\* What the steps do to the tick.
Beginning(share) ==
    [queue |-> "main", loaded |-> FALSE, todo |-> <<>>, last |-> None, reserve |-> share,
     duty |-> onDuty, load |-> Loads, start |-> Loads, given |-> NoOne]

LEMMA TickSteps ==
    ASSUME CountsAssumption, PeopleAssumption, DispatchInv, [DispatchNext]_dispatchVars
    PROVE  \/ UNCHANGED tick
           \/ tick' = NoTick
           \/ \E share \in 0..(Limit - 1) : tick' = Beginning(share)
           \/ Load
           \/ Process
           \/ QueueDone /\ tick' = [tick EXCEPT !.queue = "residual", !.loaded = FALSE, !.last = None]
<1>1. CASE TickStart
  <2> DEFINE share == IF Queue("residual") = {} THEN 0 ELSE ResidualShare
  <2>1. share \in 0..(Limit - 1)
    <3>1. ResidualShare \in 0..(Limit - 1) /\ Limit \in 1..50
      BY ShareBounded DEF CountsAssumption
    <3>2. QED
      BY <3>1
  <2>2. \/ tick' = NoTick
        \/ tick' = [NoTick EXCEPT !.queue = "main", !.duty = onDuty, !.load = Loads, !.start = Loads, !.reserve = share]
    BY <1>1 DEF TickStart
  <2> HIDE DEF share
  <2>3. tick' = NoTick \/ tick' = Beginning(share)
    BY <2>2 DEF NoTick, Beginning
  <2>4. QED
    BY <2>1, <2>3
<1>2. CASE QueueDone
  BY <1>2 DEF QueueDone
<1>3. CASE TickFails \/ Restart
  BY <1>3 DEF TickFails, Restart
<1>4. CASE \/ CreateRequest \/ SwitchMode \/ Closings \/ Claims \/ Managers \/ Groups
           \/ \E e \in Executors : ShiftChange(e)
           \/ \E r \in Numbers : DispatchPick(r) \/ DispatchApply(r) \/ DispatchLost(r)
  BY <1>4 DEF CreateRequest, SwitchMode, Closings, CloseRequest, Claims, Claim, Managers, ManagerAssign,
              Groups, ManagerGroup, ShiftChange, DispatchPick, DispatchApply, DispatchLost
<1>5. CASE UNCHANGED dispatchVars
  BY <1>5 DEF dispatchVars
<1>6. QED
  BY <1>1, <1>2, <1>3, <1>4, <1>5 DEF DispatchNext, Automation, Failures, Tick

\* An item is passed over, or given to one of the least loaded of those who can do it.
LEMMA ProcessSteps ==
    ASSUME PeopleAssumption, DispatchInv, Process
    PROVE  /\ tick.todo \in Seq(Todo) /\ tick.todo # <<>> /\ tick.loaded
           /\ \/ tick' = Passed
              \/ \E e \in Fit(Head(tick.todo).spec, tick.duty) :
                    /\ \A f \in Fit(Head(tick.todo).spec, tick.duty) : tick.load[e] <= tick.load[f]
                    /\ tick' = [tick EXCEPT !.todo = Tail(tick.todo), !.load = Bump(e),
                                            !.given = [tick.given EXCEPT ![e] = @ + 1]]
<1> DEFINE spec == Head(tick.todo).spec
           e == Select(spec, tick.duty, tick.load)
<1>1. /\ tick.todo \in Seq(Todo) /\ tick.todo # <<>> /\ tick.loaded
      /\ tick.duty \in SUBSET Executors /\ tick.load \in [Executors -> Nat] /\ tick \in TickRecord
  BY DEF Process, DispatchInv, TickKind, TickRecord, Given
<1>2. tick' = Passed \/ (e # None /\ tick' = Served(e))
  BY DEF Process, ProcessMain, ProcessResidual
<1>3. e # None => Fit(spec, tick.duty) # {}
  BY DEF Select
<1>4. e # None => e \in Fit(spec, tick.duty) /\ \A f \in Fit(spec, tick.duty) : tick.load[e] <= tick.load[f]
  <2>1. Executors \subseteq Nat
    BY DEF PeopleAssumption
  <2>2. QED
    BY <1>1, <1>3, <2>1, LeastLoaded
<1> HIDE DEF e
<1>5. Served(e) = [tick EXCEPT !.todo = Tail(tick.todo), !.load = Bump(e), !.given = [tick.given EXCEPT ![e] = @ + 1]]
  BY <1>1 DEF Served, TickRecord
<1>6. QED
  BY <1>1, <1>2, <1>4, <1>5

LEMMA FairStart == LoadsCounted(NoTick) /\ Even(NoTick)
BY DEF LoadsCounted, Even, NoTick, NoOne

LEMMA FairStep ==
    ASSUME CountsAssumption, PeopleAssumption, DispatchInv, LoadsCounted(tick), Even(tick), [DispatchNext]_dispatchVars
    PROVE  LoadsCounted(tick') /\ Even(tick')
<1>0. tick \in TickRecord
  BY DEF DispatchInv, TickKind
<1>1. CASE Figures(tick') = Figures(tick)
  BY <1>1 DEF Figures, LoadsCounted, Even
<1>2. CASE tick' = NoTick
  BY <1>2, FairStart
<1>3. ASSUME NEW share \in 0..(Limit - 1), tick' = Beginning(share) PROVE LoadsCounted(tick') /\ Even(tick')
  <2>1. onDuty \subseteq Executors /\ Loads \in [Executors -> Nat]
    BY LoadsTyped DEF DispatchInv, DispatchKinds, CountsAssumption, Given
  <2>2. QED
    BY <1>3, <2>1 DEF LoadsCounted, Even, Beginning, NoOne
<1>4. CASE \/ Load
           \/ QueueDone /\ tick' = [tick EXCEPT !.queue = "residual", !.loaded = FALSE, !.last = None]
  <2>1. Figures(tick') = Figures(tick)
    BY <1>0, <1>4 DEF Load, Figures, TickRecord
  <2>2. QED
    BY <1>1, <2>1
<1>5. CASE Process
  <2>1. CASE tick' = Passed
    <3>1. Figures(tick') = Figures(tick)
      BY <1>0, <2>1 DEF Passed, Figures, TickRecord
    <3>2. QED
      BY <1>1, <3>1
  <2>2. ASSUME NEW e \in Fit(Head(tick.todo).spec, tick.duty),
               \A f \in Fit(Head(tick.todo).spec, tick.duty) : tick.load[e] <= tick.load[f],
               tick' = [tick EXCEPT !.todo = Tail(tick.todo), !.load = Bump(e),
                                    !.given = [tick.given EXCEPT ![e] = @ + 1]]
        PROVE  LoadsCounted(tick') /\ Even(tick')
    <3>1. /\ tick.duty \subseteq Executors
          /\ tick.load \in [Executors -> Nat] /\ tick.start \in [Executors -> Nat] /\ tick.given \in [Executors -> Nat]
      BY <1>0 DEF TickRecord, Given
    <3>2. e \in tick.duty /\ e \in Executors
      BY <3>1 DEF Fit
    <3>3. /\ tick'.duty = tick.duty /\ tick'.start = tick.start
          /\ tick'.load = [tick.load EXCEPT ![e] = @ + 1]
          /\ tick'.given = [tick.given EXCEPT ![e] = @ + 1]
      BY <1>0, <2>2 DEF TickRecord, Bump
    <3>4. LoadsCounted(tick')
      BY <3>1, <3>2, <3>3 DEF LoadsCounted
    <3>5. ASSUME NEW g \in tick.duty, NEW f \in tick.duty, Skills[g] \subseteq Skills[f], tick'.given[g] > 0
          PROVE  tick'.load[g] <= tick'.load[f] + 1
      <4>1. tick.load[g] \in Nat /\ tick.load[f] \in Nat /\ tick'.load[f] >= tick.load[f]
        BY <3>1, <3>2, <3>3
      <4>2. CASE g = e
        <5>1. f \in Fit(Head(tick.todo).spec, tick.duty)
          BY <3>5, <4>2 DEF Fit
        <5>2. tick.load[g] <= tick.load[f] /\ tick'.load[g] = tick.load[g] + 1
          BY <2>2, <3>1, <3>2, <3>3, <4>2, <5>1
        <5>3. tick'.load[f] \in Nat
          BY <3>1, <3>2, <3>3
        <5>4. QED
          BY <4>1, <5>2, <5>3
      <4>3. CASE g # e
        <5>1. tick'.given[g] = tick.given[g] /\ tick'.load[g] = tick.load[g]
          BY <3>1, <3>3, <4>3
        <5>2. tick.load[g] <= tick.load[f] + 1
          BY <3>5, <5>1 DEF Even
        <5>3. tick'.load[f] \in Nat
          BY <3>1, <3>2, <3>3
        <5>4. QED
          BY <4>1, <5>1, <5>2, <5>3
      <4>4. QED
        BY <4>2, <4>3
    <3>6. QED
      BY <3>3, <3>4, <3>5 DEF Even
  <2>3. QED
    BY <1>5, <2>1, <2>2, ProcessSteps
<1>6. CASE UNCHANGED tick
  BY <1>6 DEF LoadsCounted, Even
<1>7. QED
  BY <1>2, <1>3, <1>4, <1>5, <1>6, TickSteps

\* _bump_load: the loads are read once, at the beginning of a tick.  Since what the tick
\* gives is counted at once, a batch of similar requests is not given to one executor: of
\* two on duty, whoever can do less has at most one more, for any executors and requests
\* and whatever people do during the tick.
THEOREM TickSpreadsWork == CountsAssumption /\ PeopleAssumption => (DispatchSpec => []SpreadsEvenly)
<1> SUFFICES ASSUME CountsAssumption, PeopleAssumption PROVE DispatchSpec => []SpreadsEvenly
    OBVIOUS
<1> DEFINE Inv == DispatchInv /\ LoadsCounted(tick) /\ Even(tick)
<1>1. DispatchInit => Inv
  BY DispatchKindsInit, FairStart DEF DispatchInit
<1>2. Inv /\ [DispatchNext]_dispatchVars => Inv'
  BY DispatchStep, FairStep
<1>3. Inv => SpreadsEvenly
  <2> SUFFICES ASSUME Inv, NEW e \in tick.duty, NEW f \in tick.duty, Skills[e] \subseteq Skills[f], tick.given[e] > 0
               PROVE  tick.start[e] + tick.given[e] <= tick.start[f] + tick.given[f] + 1
    BY DEF SpreadsEvenly
  <2>1. tick.duty \subseteq Executors
    BY DEF DispatchInv, TickKind, TickRecord
  <2>2. QED
    BY <2>1 DEF LoadsCounted, Even
<1>4. QED
  BY <1>1, <1>2, <1>3, PTL DEF DispatchSpec

-----------------------------------------------------------------------------
LEMMA NothingGiven == ASSUME IsFiniteSet(Executors) PROVE SumFunction(NoOne) = 0
<1>1. DOMAIN NoOne = Executors /\ \A e \in Executors : NoOne[e] = 0
  BY DEF NoOne
<1> HIDE DEF NoOne
<1>2. SumFunctionOnSet(NoOne, Executors) = SumFunctionOnSet(NoOne, {})
  BY <1>1, SumSupport DEF Ints
<1>3. QED
  BY <1>1, <1>2, SumEmpty DEF SumFunction

LEMMA OneMore ==
    ASSUME IsFiniteSet(Executors), NEW given \in [Executors -> Nat], NEW e \in Executors
    PROVE  SumFunction([given EXCEPT ![e] = @ + 1]) = SumFunction(given) + 1 /\ SumFunction(given) \in Nat
<1> DEFINE more == [given EXCEPT ![e] = @ + 1]
           others == Executors \ {e}
<1>1. /\ DOMAIN given = Executors /\ DOMAIN more = Executors
      /\ Nats(given, Executors) /\ Ints(given, Executors) /\ Ints(more, Executors)
      /\ more[e] = given[e] + 1 /\ \A x \in others : given[x] = more[x]
  BY DEF Nats, Ints
<1>2. IsFiniteSet(others) /\ Ints(given, others)
  BY <1>1, FS_RemoveElement DEF Ints
<1> HIDE DEF more, others
<1>3. SumFunctionOnSet(given, others) = SumFunctionOnSet(more, others) /\ SumFunctionOnSet(given, others) \in Int
  BY <1>1, <1>2, SumSame, SumInt
<1>4. /\ SumFunctionOnSet(given, Executors) = given[e] + SumFunctionOnSet(given, others)
      /\ SumFunctionOnSet(more, Executors) = more[e] + SumFunctionOnSet(more, others)
  BY <1>1, SumStep DEF others
<1>5. SumFunctionOnSet(given, Executors) \in Nat /\ given[e] \in Nat
  BY <1>1, SumNat
<1>6. SumFunction(more) = SumFunction(given) + 1 /\ SumFunction(given) \in Nat
  BY <1>1, <1>3, <1>4, <1>5 DEF SumFunction
<1>7. QED
  BY <1>6 DEF more

LEMMA SpentStart == ASSUME CountsAssumption, IsFiniteSet(Executors) PROVE Spent(NoTick)
<1>1. SumFunction(NoOne) = 0 /\ Len(<<>>) = 0 /\ DOMAIN <<>> = {}
  BY NothingGiven, EmptySeq
<1>2. QED
  BY <1>1 DEF Spent, Room, NoTick, CountsAssumption

LEMMA SpentStep ==
    ASSUME CountsAssumption, PeopleAssumption, IsFiniteSet(Executors), DispatchInv, Spent(tick),
           [DispatchNext]_dispatchVars
    PROVE  Spent(tick')
<1> DEFINE sum == SumFunction(tick.given)
<1>1. /\ tick \in TickRecord /\ tick.queue \in {"none", "main", "residual"} /\ tick.reserve \in 0..(Limit - 1)
      /\ tick.given \in [Executors -> Nat] /\ tick.todo \in Seq(Todo) /\ Limit \in Nat
  BY DEF DispatchInv, TickKind, TickRecord, Given, CountsAssumption
<1>2. sum \in Nat /\ Len(tick.todo) \in Nat /\ DOMAIN tick.todo = 1..Len(tick.todo)
  <2>1. Nats(tick.given, Executors) /\ DOMAIN tick.given = Executors
    BY <1>1 DEF Nats
  <2>2. QED
    BY <1>1, <2>1, SumNat, LenProperties DEF SumFunction
<1>3. CASE UNCHANGED tick
  BY <1>3 DEF Spent, Room
<1>4. CASE tick' = NoTick
  BY <1>4, SpentStart
<1>5. ASSUME NEW share \in 0..(Limit - 1), tick' = Beginning(share) PROVE Spent(tick')
  <2>1. SumFunction(NoOne) = 0 /\ Len(<<>>) = 0 /\ DOMAIN <<>> = {}
    BY NothingGiven, EmptySeq
  <2>2. QED
    BY <1>1, <1>5, <2>1 DEF Spent, Room, Beginning
<1>6. CASE Load
  <2> DEFINE batch == Batch(tick.queue, Slots)
             todo == [i \in DOMAIN batch |-> Item(tick.queue, batch[i])]
  <2>1. /\ tick.queue \in {"main", "residual"} /\ Slots \in Nat /\ ~tick.loaded /\ tick.todo = <<>>
        /\ Slots = Share(tick)
    BY <1>1, <1>6 DEF Load, Slots, Share, DispatchInv, TickKind
  <2>2. batch \in Seq(Numbers) /\ Len(batch) <= Slots /\ Distinct(batch)
    BY <2>1, BatchBounded
  <2>3. /\ tick'.queue = tick.queue /\ tick'.loaded = TRUE /\ tick'.todo = todo
        /\ tick'.reserve = tick.reserve /\ tick'.given = tick.given
    BY <1>1, <1>6 DEF Load, TickRecord
  <2> HIDE DEF batch
  <2>4. DOMAIN todo = DOMAIN batch /\ \A i \in DOMAIN batch : todo[i].number = batch[i]
    BY DEF Item
  <2>5. Len(todo) = Len(batch) /\ Len(batch) \in Nat
    <3>1. DOMAIN batch = 1..Len(batch) /\ Len(batch) \in Nat
      BY <2>2, LenProperties
    <3> DEFINE m == Len(batch)
    <3>2. m \in Nat /\ todo = [i \in 1..m |-> Item(tick.queue, batch[i])]
      BY <3>1
    <3> HIDE DEF m, todo
    <3>3. Len(todo) = m
      BY <3>2
    <3>4. QED
      BY <3>1, <3>3 DEF m
  <2> HIDE DEF todo
  <2>6. \A i, j \in DOMAIN tick'.todo : tick'.todo[i].number = tick'.todo[j].number => i = j
    BY <2>2, <2>3, <2>4 DEF Distinct
  <2>7. sum + Len(todo) <= Room(tick')
    <3>1. CASE tick.queue = "main"
      <4>1. sum = 0
        BY <2>1, <3>1, NothingGiven DEF Spent
      <4>2. QED
        BY <1>1, <2>1, <2>2, <2>3, <2>5, <3>1, <4>1 DEF Room, Share
    <3>2. CASE tick.queue = "residual"
      <4>1. sum <= Limit - tick.reserve
        BY <1>2, <2>1, <3>2, EmptySeq DEF Spent, Room
      <4>2. QED
        BY <1>1, <1>2, <2>1, <2>2, <2>3, <2>5, <3>2, <4>1 DEF Room, Share
    <3>3. QED
      BY <2>1, <3>1, <3>2
  <2>8. QED
    BY <2>3, <2>6, <2>7 DEF Spent
<1>7. CASE Process
  <2>1. tick.todo # <<>> /\ tick.loaded
    BY <1>7, ProcessSteps
  <2> DEFINE rest == Tail(tick.todo)
  <2>2. Len(rest) = Len(tick.todo) - 1 /\ DOMAIN rest = 1..Len(rest) /\ \A i \in 1..Len(rest) : rest[i] = tick.todo[i + 1]
    <3>1. rest \in Seq(Todo)
      BY <1>1, <2>1, HeadTailProperties
    <3>2. QED
      BY <1>1, <2>1, <3>1, HeadTailProperties, LenProperties
  <2>3. /\ tick'.queue = tick.queue /\ tick'.loaded = tick.loaded /\ tick'.todo = rest
        /\ tick'.reserve = tick.reserve
        /\ tick'.given = tick.given \/ \E e \in Executors : tick'.given = [tick.given EXCEPT ![e] = @ + 1]
    <3>1. tick.duty \subseteq Executors
      BY <1>1 DEF TickRecord
    <3>2. CASE tick' = Passed
      BY <1>1, <3>2 DEF Passed, TickRecord
    <3>3. ASSUME NEW e \in Fit(Head(tick.todo).spec, tick.duty),
                 tick' = [tick EXCEPT !.todo = rest, !.load = Bump(e), !.given = [tick.given EXCEPT ![e] = @ + 1]]
          PROVE  /\ tick'.queue = tick.queue /\ tick'.loaded = tick.loaded /\ tick'.todo = rest
                 /\ tick'.reserve = tick.reserve
                 /\ \E x \in Executors : tick'.given = [tick.given EXCEPT ![x] = @ + 1]
      <4>1. e \in Executors
        BY <3>1 DEF Fit
      <4>2. QED
        BY <1>1, <3>3, <4>1 DEF TickRecord
    <3>4. QED
      BY <1>7, <3>2, <3>3, ProcessSteps
  <2>4. SumFunction(tick'.given) <= sum + 1 /\ SumFunction(tick'.given) \in Nat
    <3>1. tick'.given = tick.given => SumFunction(tick'.given) = sum
      OBVIOUS
    <3>2. ASSUME NEW e \in Executors, tick'.given = [tick.given EXCEPT ![e] = @ + 1]
          PROVE  SumFunction(tick'.given) = sum + 1
      BY <1>1, <3>2, OneMore
    <3>3. SumFunction(tick'.given) = sum \/ SumFunction(tick'.given) = sum + 1
      BY <2>3, <3>1, <3>2
    <3> HIDE DEF sum
    <3>4. QED
      BY <1>2, <3>3
  <2> HIDE DEF rest
  <2>5. \A i, j \in DOMAIN rest : rest[i].number = rest[j].number => i = j
    <3> SUFFICES ASSUME NEW i \in 1..Len(rest), NEW j \in 1..Len(rest), rest[i].number = rest[j].number PROVE i = j
      BY <2>2
    <3>1. i + 1 \in DOMAIN tick.todo /\ j + 1 \in DOMAIN tick.todo
      BY <1>2, <2>2
    <3>2. tick.todo[i + 1].number = tick.todo[j + 1].number
      BY <2>2
    <3>3. i + 1 = j + 1
      BY <3>1, <3>2 DEF Spent
    <3>4. QED
      BY <3>3
  <2>6. Room(tick') = Room(tick) /\ Room(tick) \in Int /\ sum + Len(tick.todo) <= Room(tick)
    BY <1>1, <2>3 DEF Room, Spent
  <2>7. SumFunction(tick'.given) + Len(rest) <= Room(tick')
    BY <1>2, <2>2, <2>4, <2>6
  <2>8. QED
    BY <2>1, <2>3, <2>5, <2>7 DEF Spent
<1>8. CASE QueueDone /\ tick' = [tick EXCEPT !.queue = "residual", !.loaded = FALSE, !.last = None]
  <2>1. /\ tick'.queue = "residual" /\ tick'.loaded = FALSE /\ tick'.todo = tick.todo
        /\ tick'.reserve = tick.reserve /\ tick'.given = tick.given
    BY <1>1, <1>8 DEF TickRecord
  <2>2. tick.queue = "main" \/ tick' = NoTick
    BY <1>8 DEF QueueDone
  <2>3. tick.queue = "main"
    BY <2>1, <2>2 DEF NoTick
  <2>4. QED
    BY <1>1, <1>2, <2>1, <2>3 DEF Spent, Room
<1>9. QED
  BY <1>3, <1>4, <1>5, <1>6, <1>7, <1>8, TickSteps

\* _process_queue goes round when it has slots left, and max_requests_per_run is shared
\* between the queues: still a pass never takes a request twice, and a tick gives no more
\* than its limit.
THEOREM TickKeepsLimit ==
    CountsAssumption /\ PeopleAssumption /\ IsFiniteSet(Executors) => (DispatchSpec => []WithinLimit)
<1> SUFFICES ASSUME CountsAssumption, PeopleAssumption, IsFiniteSet(Executors) PROVE DispatchSpec => []WithinLimit
    OBVIOUS
<1> DEFINE Inv == DispatchInv /\ Spent(tick)
<1>1. DispatchInit => Inv
  BY DispatchKindsInit, SpentStart DEF DispatchInit
<1>2. Inv /\ [DispatchNext]_dispatchVars => Inv'
  BY DispatchStep, SpentStep
<1>3. Inv => WithinLimit
  <2> SUFFICES ASSUME Inv PROVE SumFunction(tick.given) + Len(tick.todo) <= Limit
    BY DEF WithinLimit, Spent
  <2>1. /\ tick.reserve \in 0..(Limit - 1) /\ tick.given \in [Executors -> Nat] /\ tick.todo \in Seq(Todo)
        /\ Limit \in Nat
    BY DEF DispatchInv, TickKind, TickRecord, Given, CountsAssumption
  <2>2. SumFunction(tick.given) \in Nat /\ Len(tick.todo) \in Nat
    <3>1. Nats(tick.given, Executors) /\ DOMAIN tick.given = Executors
      BY <2>1 DEF Nats
    <3>2. QED
      BY <2>1, <3>1, SumNat, LenProperties DEF SumFunction
  <2>3. QED
    BY <2>1, <2>2 DEF Spent, Room
<1>4. QED
  BY <1>1, <1>2, <1>3, PTL DEF DispatchSpec

-----------------------------------------------------------------------------
MonthRows == [Months -> Reading \cup {NoValue}]

\* What a session may be about to write.
Copies ==
    {NoDraft} \cup [op : {"move"}, m : Months, target : Statuses]
        \cup [op : {"write"}, base : MonthRows, new : MonthRows, m : Months, rev : Revision \cup {NoValue}]

ReadingsKinds == ReadingsTypeOK /\ drafts \in [Editors -> Copies]

\* Rows stay; a copy differs from what was read in the month itself, and in others but for
\* the value; the revision goes from the value read to the value written, and is left out
\* when they are the same.
Computed(d) ==
    /\ d.new[d.m] # NoValue
    /\ \A n \in Months :
        /\ d.base[n] # NoValue => d.new[n] # NoValue
        /\ n # d.m => ValueOf(d.new[n]) = ValueOf(d.base[n])
        /\ n # d.m /\ d.base[n] = NoValue => d.new[n] = NoValue
    /\ IF d.rev = NoValue THEN ValueOf(d.new[d.m]) = ValueOf(d.base[d.m])
       ELSE d.rev = [old |-> ValueOf(d.base[d.m]), new |-> ValueOf(d.new[d.m])]

\* What a session read is still there.
Based(d) ==
    \A n \in Months : /\ d.base[n] # NoValue => reading[n] # NoValue
                      /\ d.new[n] # NoValue => period[n] # NoValue

DraftsTold == \A s \in Editors : drafts[s].op = "write" => Computed(drafts[s]) /\ Based(drafts[s])

ReadingsInv == ReadingsKinds /\ DraftsTold /\ HistoryTold

-----------------------------------------------------------------------------
\* What each kind of draft holds.
LEMMA DraftFields ==
  ASSUME NEW d \in Copies
  PROVE  /\ d.op \in {"idle", "move", "write"}
         /\ d.op = "idle" => d = NoDraft
         /\ d.op = "move" => d.m \in Months /\ d.target \in Statuses
         /\ d.op = "write" => /\ d.base \in MonthRows /\ d.new \in MonthRows /\ d.m \in Months
                                /\ d.rev \in Revision \cup {NoValue}
BY DEF Copies, NoDraft

\* get_previous_accepted: the base is a value or nothing.
LEMMA BaseTyped ==
  ASSUME ReadingsAssumption, ReadingsTypeOK, NEW copy \in MonthRows, NEW m \in Months,
         \A k \in Months : reading[k] # NoValue => copy[k] # NoValue
  PROVE  Base(copy, m) \in Optional
<1> DEFINE earlier == {k \in Months : k < m /\ Accepted(reading[k])}
<1>1. CASE earlier = {}
  BY <1>1 DEF Base, Optional
<1>2. CASE earlier # {}
  <2>1. earlier \in SUBSET (0 .. m) /\ m \in Nat
    <3>1. m \in Nat /\ \A k \in earlier : k \in Nat /\ k < m
      BY DEF ReadingsAssumption
    <3>2. \A k \in Nat : k < m => k \in 0 .. m
      BY <3>1
    <3>3. QED
      BY <3>1, <3>2
  <2> HIDE DEF earlier
  <2>2. Max(earlier) \in earlier
    BY <1>2, <2>1, MaxOf
  <2>3. copy[Max(earlier)] \in Reading
    BY <2>2 DEF earlier, Accepted, MonthRows
  <2>4. Base(copy, m) = copy[Max(earlier)].value
    BY <1>2 DEF Base, earlier
  <2>5. QED
    BY <2>3, <2>4 DEF Reading
<1>3. QED
  BY <1>1, <1>2

\* evaluate_value: a judged reading is a reading with the value it was given.
LEMMA JudgedTyped ==
  ASSUME ReadingsAssumption, NEW base \in Optional, NEW value \in Optional, NEW kind \in EntryKinds
  PROVE  /\ Judged(base, value, kind) \in Reading /\ Judged(base, value, kind) # NoValue
         /\ Judged(base, value, kind).value = value
<1>1. Judged(base, value, kind) \in Reading
  BY DEF Judged, Reading
<1>2. QED
  BY <1>1 DEF Judged, ReadingsAssumption

\* A commit writes the columns that changed: the value is the new one where it changed.
LEMMA MergedTyped ==
  ASSUME NEW now \in Reading, NEW base \in Reading \cup {NoValue}, NEW new \in Reading
  PROVE  /\ Merged(now, base, new) \in Reading
         /\ Merged(now, base, new).value =
              IF base # NoValue /\ new.value = base.value THEN now.value ELSE new.value
<1>1. CASE base = NoValue
  BY <1>1 DEF Merged
<1>2. CASE base # NoValue
  <2>1. DOMAIN new = {"value", "kind", "previous", "status"}
    BY DEF Reading
  <2>2. Merged(now, base, new) =
          [f \in {"value", "kind", "previous", "status"} |-> IF new[f] = base[f] THEN now[f] ELSE new[f]]
    BY <1>2, <2>1 DEF Merged
  <2>3. QED
    BY <1>2, <2>2 DEF Reading
<1>3. QED
  BY <1>1, <1>2
-----------------------------------------------------------------------------
\* A session that has computed writes nothing yet.
LEMMA ComputesKeeps ==
  ASSUME ReadingsAssumption, ReadingsInv, NEW s \in Editors, NEW new \in MonthRows, NEW m \in Months,
         NEW revision \in Revision \cup {NoValue}, Computes(s, new, m, revision),
         Computed([op |-> "write", base |-> reading, new |-> new, m |-> m, rev |-> revision]),
         \A n \in Months : new[n] # NoValue => period[n] # NoValue
  PROVE  ReadingsInv'
<1> DEFINE d == [op |-> "write", base |-> reading, new |-> new, m |-> m, rev |-> revision]
<1>1. d \in Copies /\ d.base = reading /\ d.new = new /\ d.op = "write"
  BY DEF ReadingsInv, ReadingsKinds, ReadingsTypeOK, Copies, MonthRows
<1>2. /\ drafts' = [drafts EXCEPT ![s] = d] /\ UNCHANGED <<period, reading, trail, meter>>
  BY DEF Computes
<1>3. Computed(d)
  OBVIOUS
<1> HIDE DEF d
<1>4. ReadingsKinds'
  BY <1>1, <1>2 DEF ReadingsInv, ReadingsKinds, ReadingsTypeOK
<1>5. Based(d)
  BY <1>1 DEF Based
<1>6. DraftsTold'
  BY <1>2, <1>3, <1>5 DEF ReadingsInv, ReadingsKinds, DraftsTold, Based
<1>7. HistoryTold'
  BY <1>2 DEF ReadingsInv, HistoryTold
<1>8. QED
  BY <1>4, <1>6, <1>7 DEF ReadingsInv

\* upsert_reading, directly and by an import
LEMMA EntersKeeps ==
  ASSUME ReadingsAssumption, ReadingsInv, NEW s \in Editors, NEW m \in Months,
         NEW value \in Optional, NEW kind \in EntryKinds, Enters(s, m, value, kind)
  PROVE  ReadingsInv'
<1> DEFINE entry == Judged(Base(reading, m), value, kind)
           new == [reading EXCEPT ![m] = entry]
           revision == IF ValueOf(reading[m]) # value THEN [old |-> ValueOf(reading[m]), new |-> value] ELSE NoValue
<1>1. reading \in MonthRows /\ period[m] # NoValue /\ ReadingsTypeOK
  BY DEF Enters, ReadingsInv, ReadingsKinds, ReadingsTypeOK, MonthRows, ReadingsAssumption, Statuses
<1>2. entry \in Reading /\ entry # NoValue /\ entry.value = value
  BY <1>1, BaseTyped, JudgedTyped
<1> HIDE DEF entry
<1>3. new \in MonthRows /\ new[m] = entry /\ \A n \in Months : n # m => new[n] = reading[n]
  BY <1>1, <1>2 DEF MonthRows
<1>4. ValueOf(new[m]) = value
  BY <1>2, <1>3 DEF ValueOf
<1>5. ValueOf(reading[m]) \in Optional
  BY <1>1 DEF ValueOf, MonthRows, Reading, Optional
<1>6. revision \in Revision \cup {NoValue}
  BY <1>5 DEF Revision
<1>7. ValueOf(reading[m]) # value => revision # NoValue /\ revision = [old |-> ValueOf(reading[m]), new |-> value]
  BY <1>6, <1>5 DEF Revision, ReadingsAssumption
<1>8. \A n \in Months : new[n] # NoValue => period[n] # NoValue
  BY <1>1, <1>3 DEF ReadingsTypeOK
<1>9. Computes(s, new, m, revision)
  BY DEF Enters, entry
<1> HIDE DEF new
<1>10. Computed([op |-> "write", base |-> reading, new |-> new, m |-> m, rev |-> revision])
  BY <1>2, <1>3, <1>4, <1>7 DEF Computed
<1> HIDE DEF revision
<1>11. QED
  BY <1>3, <1>6, <1>8, <1>9, <1>10, ComputesKeeps

\* apply_correction with recompute_forward
LEMMA CorrectKeeps ==
  ASSUME ReadingsAssumption, ReadingsInv, NEW s \in Editors, NEW m \in Months, Correct(s, m)
  PROVE  ReadingsInv'
<1>1. PICK value \in Values, kind \in EntryKinds :
        Computes(s, Recomputed([reading EXCEPT ![m] = Judged(Base(reading, m), value, kind)], m), m,
                 [old |-> reading[m].value, new |-> value])
  BY DEF Correct
<1> DEFINE entry == Judged(Base(reading, m), value, kind)
           copy == [reading EXCEPT ![m] = entry]
           new == Recomputed(copy, m)
           revision == [old |-> reading[m].value, new |-> value]
<1>2. reading \in MonthRows /\ reading[m] # NoValue /\ reading[m] \in Reading /\ ReadingsTypeOK /\ value \in Optional
  BY DEF Correct, ReadingsInv, ReadingsKinds, ReadingsTypeOK, MonthRows, Optional
<1>3. entry \in Reading /\ entry # NoValue /\ entry.value = value
  BY <1>2, BaseTyped, JudgedTyped
<1> HIDE DEF entry
<1>4. copy \in MonthRows /\ copy[m] = entry /\ \A n \in Months : n # m => copy[n] = reading[n]
  BY <1>2, <1>3 DEF MonthRows
<1> HIDE DEF copy
<1>5. ASSUME NEW n \in Months
      PROVE  /\ new[n] \in Reading \cup {NoValue} /\ (reading[n] # NoValue => new[n] # NoValue)
             /\ (n = m => new[n] = entry)
             /\ (n # m => ValueOf(new[n]) = ValueOf(reading[n]))
             /\ (n # m /\ reading[n] = NoValue => new[n] = NoValue)
  <2>1. CASE n > m /\ reading[n] # NoValue /\ period[n] # "closed" /\ ValueOf(reading[n]) # NoValue
    <3>1. Base(copy, n) \in Optional
      BY <1>2, <1>3, <1>4, BaseTyped
    <3>2. reading[n] \in Reading /\ reading[n].value \in Optional /\ reading[n].kind \in EntryKinds
      BY <1>2, <2>1 DEF MonthRows, Reading
    <3>3. new[n] = Judged(Base(copy, n), reading[n].value, reading[n].kind)
      BY <2>1 DEF Recomputed
    <3>4. new[n] \in Reading /\ new[n] # NoValue /\ new[n].value = reading[n].value
      BY <3>1, <3>2, <3>3, JudgedTyped
    <3>5. n # m
      BY <2>1 DEF ReadingsAssumption
    <3>6. QED
      BY <2>1, <3>4, <3>5 DEF ValueOf
  <2>2. CASE ~(n > m /\ reading[n] # NoValue /\ period[n] # "closed" /\ ValueOf(reading[n]) # NoValue)
    <3>1. new[n] = copy[n]
      BY <2>2 DEF Recomputed
    <3>2. QED
      BY <1>2, <1>3, <1>4, <3>1 DEF MonthRows
  <2>3. QED
    BY <2>1, <2>2
<1>6. new \in MonthRows
  BY <1>5 DEF MonthRows, Recomputed
<1>7. revision \in Revision /\ revision # NoValue
  BY <1>2 DEF Revision, Reading, ReadingsAssumption
<1>8. \A n \in Months : new[n] # NoValue => period[n] # NoValue
  BY <1>2, <1>5 DEF ReadingsTypeOK
<1>9. Computes(s, new, m, revision)
  BY <1>1 DEF entry, copy
<1>10. ValueOf(new[m]) = value /\ ValueOf(reading[m]) = reading[m].value /\ new[m] # NoValue
  BY <1>2, <1>3, <1>5 DEF ValueOf
<1> HIDE DEF new
<1>11. Computed([op |-> "write", base |-> reading, new |-> new, m |-> m, rev |-> revision])
  BY <1>5, <1>7, <1>10 DEF Computed
<1> HIDE DEF revision
<1>12. QED
  BY <1>6, <1>7, <1>8, <1>9, <1>11, ComputesKeeps

\* A month after the commit of a write: its value, and whether there is one at all.
LEMMA Written ==
  ASSUME ReadingsAssumption, ReadingsTypeOK, NEW d \in Copies, d.op = "write", Computed(d), Based(d),
         reading' = [n \in Months |-> IF d.new[n] = d.base[n] THEN reading[n]
                                  ELSE Merged(reading[n], d.base[n], d.new[n])],
         d.base[d.m] = NoValue => reading[d.m] = NoValue,
         NEW n \in Months
  PROVE  /\ reading'[n] \in Reading \cup {NoValue}
         /\ reading[n] # NoValue => reading'[n] # NoValue
         /\ reading'[n] # NoValue => period[n] # NoValue
         /\ n # d.m => ValueOf(reading'[n]) = ValueOf(reading[n]) /\ (reading[n] = NoValue => reading'[n] = NoValue)
         /\ n = d.m => reading'[n] # NoValue
         /\ n = d.m /\ ValueOf(d.new[n]) = ValueOf(d.base[n]) => ValueOf(reading'[n]) = ValueOf(reading[n])
         /\ n = d.m /\ ValueOf(d.new[n]) # ValueOf(d.base[n]) => ValueOf(reading'[n]) = ValueOf(d.new[n])
<1> DEFINE now == reading[n]
           base == d.base[n]
           new == d.new[n]
<1>1. /\ now \in Reading \cup {NoValue} /\ base \in Reading \cup {NoValue} /\ new \in Reading \cup {NoValue}
      /\ d.m \in Months /\ NoValue \notin Reading
  BY DraftFields DEF ReadingsTypeOK, MonthRows, ReadingsAssumption
<1>2. /\ base # NoValue => now # NoValue /\ new # NoValue
      /\ new # NoValue => period[n] # NoValue
      /\ now # NoValue => period[n] # NoValue
      /\ n = d.m => new # NoValue /\ (base = NoValue => now = NoValue)
      /\ n # d.m => ValueOf(new) = ValueOf(base) /\ (base = NoValue => new = NoValue)
  BY <1>1 DEF Computed, Based, ReadingsTypeOK
<1>3. reading'[n] = IF new = base THEN now ELSE Merged(now, base, new)
  OBVIOUS
<1> HIDE DEF now, base, new
<1>4. CASE new = base
  BY <1>1, <1>2, <1>3, <1>4 DEF now, new, base
<1>5. CASE new # base /\ base = NoValue
  <2>1. n = d.m /\ reading'[n] = new /\ new \in Reading /\ now = NoValue
    BY <1>1, <1>2, <1>3, <1>5 DEF Merged
  <2>2. QED
    BY <1>1, <1>2, <1>5, <2>1 DEF ValueOf, now, new, base
<1>6. CASE new # base /\ base # NoValue
  <2>1. now \in Reading /\ base \in Reading /\ new \in Reading
    BY <1>1, <1>2, <1>6
  <2>2. reading'[n] \in Reading /\ reading'[n].value = IF new.value = base.value THEN now.value ELSE new.value
    BY <1>3, <1>6, <2>1, MergedTyped
  <2>3. /\ ValueOf(new) = new.value /\ ValueOf(base) = base.value /\ ValueOf(now) = now.value
        /\ ValueOf(reading'[n]) = reading'[n].value /\ reading'[n] # NoValue /\ now # NoValue
    BY <1>1, <2>1, <2>2 DEF ValueOf
  <2>4. QED
    BY <1>2, <2>1, <2>2, <2>3 DEF now, new, base
<1>7. QED
  BY <1>4, <1>5, <1>6

\* What a session computed is written; the month that has a revision has its new value.
LEMMA ReadingsCommitKeeps ==
  ASSUME ReadingsAssumption, ReadingsInv, NEW s \in Editors, CommitDraft(s)
  PROVE  ReadingsInv'
<1>1. PICK d \in Copies : d = drafts[s]
  BY DEF ReadingsInv, ReadingsKinds
<1>2. /\ drafts' = [drafts EXCEPT ![s] = NoDraft] /\ NoDraft \in Copies /\ NoDraft.op = "idle"
      /\ ReadingsTypeOK /\ drafts \in [Editors -> Copies]
  BY DEF CommitDraft, ReadingsInv, ReadingsKinds, Copies, NoDraft
<1>3. CASE /\ d.op = "move" /\ period' = [period EXCEPT ![d.m] = d.target]
           /\ UNCHANGED <<reading, trail, meter>>
  <2>1. d.m \in Months /\ d.target \in Statuses /\ NoValue \notin Statuses
    BY <1>3, DraftFields DEF ReadingsAssumption
  <2>2. ReadingsKinds'
    BY <1>2, <1>3, <2>1 DEF ReadingsKinds, ReadingsTypeOK
  <2>3. \A n \in Months : period[n] # NoValue => period'[n] # NoValue
    BY <1>2, <1>3, <2>1 DEF ReadingsTypeOK
  <2>4. DraftsTold'
    BY <1>2, <1>3, <2>3 DEF ReadingsInv, DraftsTold, Based
  <2>5. HistoryTold'
    BY <1>3 DEF ReadingsInv, HistoryTold
  <2>6. QED
    BY <2>2, <2>4, <2>5 DEF ReadingsInv
<1>4. CASE /\ d.op = "write" /\ (d.base[d.m] = NoValue => reading[d.m] = NoValue)
           /\ reading' = [n \in Months |-> IF d.new[n] = d.base[n] THEN reading[n]
                                       ELSE Merged(reading[n], d.base[n], d.new[n])]
           /\ trail' = IF d.rev = NoValue THEN trail ELSE [trail EXCEPT ![d.m] = d.rev]
           /\ UNCHANGED <<period, meter>>
  <2>1. Computed(d) /\ Based(d)
    BY <1>1, <1>4 DEF ReadingsInv, DraftsTold
  <2>2. \A n \in Months :
         /\ reading'[n] \in Reading \cup {NoValue}
         /\ reading[n] # NoValue => reading'[n] # NoValue
         /\ reading'[n] # NoValue => period[n] # NoValue
         /\ n # d.m => ValueOf(reading'[n]) = ValueOf(reading[n]) /\ (reading[n] = NoValue => reading'[n] = NoValue)
         /\ n = d.m => reading'[n] # NoValue
         /\ n = d.m /\ ValueOf(d.new[n]) = ValueOf(d.base[n]) => ValueOf(reading'[n]) = ValueOf(reading[n])
         /\ n = d.m /\ ValueOf(d.new[n]) # ValueOf(d.base[n]) => ValueOf(reading'[n]) = ValueOf(d.new[n])
    BY <1>2, <1>4, <2>1, Written
  <2>3. /\ d.m \in Months /\ d.rev \in Revision \cup {NoValue} /\ DOMAIN reading' = Months
        /\ trail \in [Months -> Revision \cup {NoValue}]
    BY <1>2, <1>4, DraftFields DEF ReadingsTypeOK
  <2>4. \A n \in Months : trail'[n] = IF n = d.m /\ d.rev # NoValue THEN d.rev ELSE trail[n]
    BY <1>4, <2>3
  <2>5. reading' \in [Months -> Reading \cup {NoValue}]
    BY <1>4, <2>2
  <2>6. ReadingsKinds'
    <3>1. trail' \in [Months -> Revision \cup {NoValue}]
      BY <1>4, <2>3
    <3>2. \A n \in Months : trail'[n] # NoValue => reading'[n] # NoValue
      BY <1>2, <2>2, <2>4 DEF ReadingsTypeOK
    <3>3. \A n \in Months : reading'[n] # NoValue => period'[n] # NoValue
      BY <1>4, <2>2
    <3>4. QED
      BY <1>2, <1>4, <2>5, <3>1, <3>2, <3>3 DEF ReadingsKinds, ReadingsTypeOK
  <2>7. DraftsTold'
    BY <1>2, <1>4, <2>2 DEF ReadingsInv, DraftsTold, Based
  <2>8. ASSUME NEW n \in Months, reading'[n] # NoValue
        PROVE  IF trail'[n] = NoValue THEN reading'[n].value = NoValue
               ELSE trail'[n].old # trail'[n].new => reading'[n].value = trail'[n].new
    <3>1. /\ ValueOf(reading'[n]) = reading'[n].value
          /\ reading[n] # NoValue => ValueOf(reading[n]) = reading[n].value
          /\ reading[n] = NoValue => ValueOf(reading[n]) = NoValue /\ trail[n] = NoValue
      BY <1>2, <2>8 DEF ValueOf, ReadingsTypeOK
    <3>2. CASE n # d.m
      BY <2>2, <2>4, <2>8, <3>1, <3>2 DEF ReadingsInv, HistoryTold
    <3>3. CASE n = d.m /\ d.rev = NoValue
      <4>1. ValueOf(reading'[n]) = ValueOf(reading[n]) /\ trail'[n] = trail[n]
        BY <2>1, <2>2, <2>4, <3>3 DEF Computed
      <4>2. QED
        BY <3>1, <4>1 DEF ReadingsInv, HistoryTold
    <3>4. CASE n = d.m /\ d.rev # NoValue
      <4>1. /\ trail'[n] = d.rev /\ d.rev.old = ValueOf(d.base[n]) /\ d.rev.new = ValueOf(d.new[n])
        BY <2>1, <2>4, <3>4 DEF Computed
      <4>2. QED
        BY <2>2, <3>1, <3>4, <4>1
    <3>5. QED
      BY <3>2, <3>3, <3>4
  <2>9. QED
    BY <2>6, <2>7, <2>8 DEF ReadingsInv, HistoryTold
<1>5. QED
  BY <1>1, <1>3, <1>4 DEF CommitDraft
-----------------------------------------------------------------------------
\* A change of status that waits for its commit.
LEMMA MoveKeeps ==
  ASSUME ReadingsAssumption, ReadingsInv, NEW s \in Editors, NEW m \in Months, NEW target \in Statuses,
         Move(s, m, target)
  PROVE  ReadingsInv'
<1> DEFINE d == [op |-> "move", m |-> m, target |-> target]
<1>1. d \in Copies /\ d.op = "move"
  BY DEF Copies
<1>2. drafts' = [drafts EXCEPT ![s] = d] /\ UNCHANGED <<period, reading, trail, meter>>
  BY DEF Move
<1> HIDE DEF d
<1>3. QED
  BY <1>1, <1>2 DEF ReadingsInv, ReadingsKinds, ReadingsTypeOK, DraftsTold, Based, HistoryTold

\* A session that gives up leaves the rows as they are.
LEMMA AbortKeeps ==
  ASSUME ReadingsAssumption, ReadingsInv, NEW s \in Editors, Abort(s)
  PROVE  ReadingsInv'
<1>1. NoDraft \in Copies /\ NoDraft.op = "idle"
  BY DEF Copies, NoDraft
<1>2. QED
  BY <1>1 DEF Abort, ReadingsInv, ReadingsKinds, ReadingsTypeOK, DraftsTold, Based, HistoryTold

\* A new period takes none away.
LEMMA CreatePeriodKeeps ==
  ASSUME ReadingsAssumption, ReadingsInv, NEW m \in Months, CreatePeriod(m)
  PROVE  ReadingsInv'
<1>1. /\ UNCHANGED <<reading, trail, meter, drafts>> /\ period' \in [Months -> Statuses \cup {NoValue}]
      /\ \A n \in Months : period[n] # NoValue => period'[n] # NoValue
  BY DEF CreatePeriod, ReadingsInv, ReadingsKinds, ReadingsTypeOK, Statuses, ReadingsAssumption
<1>2. QED
  BY <1>1 DEF ReadingsInv, ReadingsKinds, ReadingsTypeOK, DraftsTold, Based, HistoryTold

\* The invariant holds at the start ...
LEMMA ReadingsInitKeeps == ASSUME ReadingsAssumption, ReadingsInit PROVE ReadingsInv
BY DEF ReadingsInit, ReadingsInv, ReadingsKinds, ReadingsTypeOK, DraftsTold, HistoryTold, Copies, NoDraft

\* ... and every step keeps it.
LEMMA ReadingsStepKeeps == ASSUME ReadingsAssumption, ReadingsInv, [ReadingsNext]_meterVars PROVE ReadingsInv'
<1>1. CASE UNCHANGED meterVars \/ Retire
  <2>1. UNCHANGED <<period, reading, trail, drafts>> /\ meter' \in {"active", "retired"}
    BY <1>1 DEF meterVars, Retire, ReadingsInv, ReadingsKinds, ReadingsTypeOK
  <2>2. QED
    BY <2>1 DEF ReadingsInv, ReadingsKinds, ReadingsTypeOK, DraftsTold, Based, HistoryTold
<1>2. ASSUME NEW s \in Editors, NEW m \in Months, PutReading(s, m) PROVE ReadingsInv'
  BY <1>2, EntersKeeps DEF PutReading, Optional
<1>3. ASSUME NEW s \in Editors, NEW m \in Months, ImportReading(s, m) PROVE ReadingsInv'
  <2>1. PICK value \in Optional : Enters(s, m, value, "normal")
    BY <1>3 DEF ImportReading, Optional
  <2>2. QED
    BY <2>1, EntersKeeps DEF EntryKinds
<1>4. QED
  BY <1>1, <1>2, <1>3, CorrectKeeps, MoveKeeps, ReadingsCommitKeeps, AbortKeeps, CreatePeriodKeeps DEF ReadingsNext

\* The inductive invariant holds in every reachable state.
LEMMA ReadingsInductive == ReadingsAssumption => (ReadingsSpec => []ReadingsInv)
<1> SUFFICES ASSUME ReadingsAssumption PROVE ReadingsSpec => []ReadingsInv
    OBVIOUS
<1>1. ReadingsInit => ReadingsInv
  BY ReadingsInitKeeps
<1>2. ReadingsInv /\ [ReadingsNext]_meterVars => ReadingsInv'
  BY ReadingsStepKeeps
<1>3. QED
  BY <1>1, <1>2, PTL DEF ReadingsSpec

\* Readings and revisions keep to their kinds, a reading has a period and a revision has a
\* reading, for any months and sessions.
THEOREM ReadingsTypeCorrect == ReadingsAssumption => (ReadingsSpec => []ReadingsTypeOK)
<1>1. ReadingsInv => ReadingsTypeOK
  BY DEF ReadingsInv, ReadingsKinds
<1>2. QED
  BY <1>1, ReadingsInductive, PTL

\* ReadingRevision, append-only history of every change to a reading: its latest entry names
\* the value the reading has, for any months, values and sessions, although an import, a
\* direct entry and a correction may be on their way at a time and a correction rewrites
\* later months from its copies.
THEOREM ReadingsHistoryTold == ReadingsAssumption => (ReadingsSpec => []HistoryTold)
<1>1. ReadingsInv => HistoryTold
  BY DEF ReadingsInv
<1>2. QED
  BY <1>1, ReadingsInductive, PTL

-----------------------------------------------------------------------------
\* The scenarios the runs play are behaviours of every component.
LEMMA ScenarioInits ==
    ASSUME OperationsInit
    PROVE  /\ Init /\ Outbox!Init /\ ReconciliationInit /\ StockInit
           /\ DispatchInit /\ IntakeInit /\ ReadingsInit
BY DEF OperationsInit

LEMMA ScenarioSteps ==
    ASSUME [OperationsNext]_<<part, outboxVars, vars, reconciliationVars, stockVars, dispatchVars, intakeVars, meterVars>>
    PROVE  /\ [Next]_vars /\ [Outbox!Next]_(Outbox!vars)
           /\ [ReconciliationNext]_reconciliationVars /\ [StockNext]_stockVars
           /\ [DispatchNext]_dispatchVars /\ [IntakeNext]_intakeVars /\ [ReadingsNext]_meterVars
<1>1. CASE Publications
  BY <1>1, Zenon DEF Publications, outboxVars, Outbox!vars
<1>2. CASE Comparisons
  BY <1>2, Zenon DEF Comparisons, outboxVars, Outbox!vars
<1>3. CASE Movements
  BY <1>3, Zenon DEF Movements, outboxVars, Outbox!vars
<1>4. CASE Assignments
  BY <1>4, Zenon DEF Assignments, DispatchNext, outboxVars, Outbox!vars
<1>5. CASE Incoming
  BY <1>5, Zenon DEF Incoming, outboxVars, Outbox!vars
<1>6. CASE Readings
  BY <1>6, Zenon DEF Readings, outboxVars, Outbox!vars
<1>7. CASE Deliveries
  BY <1>7, Zenon DEF Deliveries
<1>8. CASE UNCHANGED <<part, outboxVars, vars, reconciliationVars, stockVars, dispatchVars, intakeVars, meterVars>>
  BY <1>8, Zenon DEF outboxVars, Outbox!vars
<1>9. QED
  BY <1>1, <1>2, <1>3, <1>4, <1>5, <1>6, <1>7, <1>8 DEF OperationsNext

\* Reports, outbox, comparison, stock, assignment, intake and readings share no state: what
\* is proved of each holds of the scenarios too.
THEOREM ScenariosAreOperations ==
    OperationsSpec => /\ Spec /\ Outbox!Spec /\ ReconciliationSpec /\ StockSpec
                      /\ DispatchSpec /\ IntakeSpec /\ ReadingsSpec
BY ScenarioInits, ScenarioSteps, PTL
   DEF OperationsSpec, Spec, Outbox!Spec, ReconciliationSpec, StockSpec, DispatchSpec, IntakeSpec, ReadingsSpec

\* The theorems about the outbox, of its scenario.  What Outbox and Delivery define are two
\* copies of the same definitions.
Delivery == INSTANCE WebhookOutboxProofs WITH
    MaxEvents <- 2, Workers <- MCWorkers, ClaimBatch <- 2, MaxRetries <- 2,
    Tokens <- 1..5, NoToken <- 0, MaxFaults <- 2,
    row <- outbox, claims <- claimed, failures <- unsuccessful, refused <- refusals, faults <- outages

\* What the outbox does is what the theorems are about.
LEMMA DeliverySteps ==
    /\ Outbox!Init => Delivery!Init
    /\ [Outbox!Next]_(Outbox!vars) => [Delivery!Next]_(Delivery!vars)
<1>1. Outbox!Init = Delivery!Init
  BY DEF Outbox!Init, Delivery!Init, Outbox!Events, Delivery!Events, Outbox!NewRow, Delivery!NewRow
<1>2. Outbox!Next => Delivery!Next
  <2>0. Outbox!Events = Delivery!Events
    BY DEF Outbox!Events, Delivery!Events
  <2>1. Outbox!Claimable = Delivery!Claimable /\ Outbox!FreshTokens = Delivery!FreshTokens
    BY DEF Outbox!Claimable, Delivery!Claimable, Outbox!FreshTokens, Delivery!FreshTokens, Outbox!Events, Delivery!Events
  <2>2. ASSUME NEW batch \in SUBSET Outbox!Events PROVE Outbox!Oldest(batch) <=> Delivery!Oldest(batch)
    <3>1. Outbox!Claimable = Delivery!Claimable
      BY <2>1
    <3>2. Outbox!Cardinality(batch) = Delivery!Cardinality(batch)
      BY DEF Outbox!Cardinality, Delivery!Cardinality
    <3>3. QED
      BY <3>1, <3>2 DEF Outbox!Oldest, Delivery!Oldest
  <2>3. \A w \in MCWorkers : Outbox!ClaimRows(w) => Delivery!ClaimRows(w)
    BY <2>1, <2>2, Zenon DEF Outbox!ClaimRows, Delivery!ClaimRows, Outbox!Events, Delivery!Events
  <2>4. \A w \in MCWorkers : Outbox!PostSome(w) => Delivery!PostSome(w)
    BY Zenon DEF Outbox!PostSome, Delivery!PostSome, Outbox!Post, Delivery!Post, Outbox!Result, Delivery!Result
  <2>5. \A w \in MCWorkers : Outbox!Settle(w) => Delivery!Settle(w)
    BY Zenon DEF Outbox!Settle, Delivery!Settle, Outbox!Owns, Delivery!Owns, Outbox!Settled, Delivery!Settled,
           Outbox!Delivered, Delivery!Delivered, Outbox!Unconfirmed, Delivery!Unconfirmed, Outbox!LastAttempt, Delivery!LastAttempt,
           Outbox!Events, Delivery!Events
  <2>6. \A w \in MCWorkers : Outbox!Crash(w) => Delivery!Crash(w)
    BY Zenon DEF Outbox!Crash, Delivery!Crash
  <2>7. \A e \in Outbox!Events : Outbox!Enqueue(e) => Delivery!Enqueue(e)
    BY DEF Outbox!Enqueue, Delivery!Enqueue, Outbox!NewRow, Delivery!NewRow, Outbox!Events, Delivery!Events
  <2>8. \A e \in Outbox!Events : Outbox!LeaseExpires(e) => Delivery!LeaseExpires(e)
    BY DEF Outbox!LeaseExpires, Delivery!LeaseExpires, Outbox!Orphan, Delivery!Orphan, Outbox!Owns, Delivery!Owns
  <2>9. \A e \in Outbox!Events : Outbox!BackoffElapses(e) => Delivery!BackoffElapses(e)
    BY DEF Outbox!BackoffElapses, Delivery!BackoffElapses
  <2>10. \A e \in Outbox!Events : Outbox!Purge(e) => Delivery!Purge(e)
    BY DEF Outbox!Purge, Delivery!Purge
  <2>11. QED
    BY <2>0, <2>3, <2>4, <2>5, <2>6, <2>7, <2>8, <2>9, <2>10, Zenon
    DEF Outbox!Next, Delivery!Next, Outbox!WorkerStep, Delivery!WorkerStep, Outbox!RowStep, Delivery!RowStep
<1>3. QED
  BY <1>1, <1>2 DEF Outbox!vars, Delivery!vars

LEMMA OutboxDelivers == OperationsSpec => Delivery!Spec
BY DeliverySteps, ScenariosAreOperations, PTL DEF Outbox!Spec, Delivery!Spec

LEMMA DeliveryAssumed == Delivery!OutboxAssumption
BY DEF Delivery!OutboxAssumption

\* No row of the outbox is marked as sent, or deleted, that was not received.
THEOREM ScenariosSendTruly == OperationsSpec => []SentWasReceived
<1>1. Delivery!Spec => []Delivery!SentWasReceived
  BY DeliveryAssumed, Delivery!NothingSentInVain
<1>2. Delivery!SentWasReceived => SentWasReceived
  BY DEF SentWasReceived, Outbox!SentWasReceived, Delivery!SentWasReceived, Outbox!Events, Delivery!Events
<1>3. QED
  BY <1>1, <1>2, OutboxDelivers, PTL

\* No row of the outbox is given up but for a refusal or a budget spent on confirmed failures.
THEOREM ScenariosGiveUpDeservedly == OperationsSpec => []DeadLetterIsEarned
<1>1. Delivery!Spec => []Delivery!DeadLetterIsEarned
  BY DeliveryAssumed, Delivery!NothingGivenUpEarly
<1>2. Delivery!DeadLetterIsEarned => DeadLetterIsEarned
  BY DEF DeadLetterIsEarned, Outbox!DeadLetterIsEarned, Delivery!DeadLetterIsEarned, Outbox!Events, Delivery!Events
<1>3. QED
  BY <1>1, <1>2, OutboxDelivers, PTL

\* A claim on a row of the outbox is settled by the worker that holds it.
THEOREM ScenariosSettleByHolder == OperationsSpec => OnlyTheHolderSettles
<1> DEFINE Held(events) ==
        \A e \in events :
          outbox[e].status = "in_flight" /\ outbox'[e].status # "in_flight" =>
              \E w \in MCWorkers : \E c \in claimed[w] :
                  /\ c.event = e /\ c.token = outbox[e].token
                  /\ claimed'[w] = {}
                  /\ outbox'[e].status = "sent" => c.result = "ok"
<1>1. Delivery!Spec => Delivery!OnlyTheHolderSettles
  BY DeliveryAssumed, Delivery!HolderSettles
<1>2. [Held(Delivery!Events)]_(Delivery!vars) => [Held(Outbox!Events)]_(Outbox!vars)
  BY Zenon DEF Delivery!Events, Outbox!Events, Delivery!vars, Outbox!vars
<1>3. QED
  BY <1>1, <1>2, OutboxDelivers, PTL
     DEF OnlyTheHolderSettles, Outbox!OnlyTheHolderSettles, Delivery!OnlyTheHolderSettles

\* A row of the outbox that was delivered or given up is never taken up again.
THEOREM ScenariosSettleForGood == OperationsSpec => SettledIsFinal
<1> DEFINE Final(events) ==
        \A e \in events :
          /\ outbox[e].status = "sent" => outbox'[e].status \in {"sent", "purged"}
          /\ outbox[e].status = "failed" => outbox'[e] = outbox[e]
<1>1. Delivery!Spec => Delivery!SettledIsFinal
  BY DeliveryAssumed, Delivery!SettledForGood
<1>2. [Final(Delivery!Events)]_(Delivery!vars) => [Final(Outbox!Events)]_(Outbox!vars)
  BY Zenon DEF Delivery!Events, Outbox!Events, Delivery!vars, Outbox!vars
<1>3. QED
  BY <1>1, <1>2, OutboxDelivers, PTL
     DEF SettledIsFinal, Outbox!SettledIsFinal, Delivery!SettledIsFinal

\* The type invariant of the scenarios, whatever they play: no row has more attempts than it
\* may have, no lot falls below zero, no lock is given back more often than it was taken, and
\* one transaction at most counts the day.
THEOREM OperationsTypeCorrect == OperationsSpec => []OperationsTypeOK
<1>1. /\ (Spec => []TypeOK) /\ (ReconciliationSpec => []ReconciliationTypeOK) /\ (StockSpec => []StockTypeOK)
      /\ (DispatchSpec => []DispatchTypeOK) /\ (IntakeSpec => []IntakeTypeOK) /\ (ReadingsSpec => []ReadingsTypeOK)
  BY ScenarioAssumption, PublicationTypeCorrect, ReconciliationTypeCorrect, StockTypeCorrect, DispatchTypeCorrect,
     IntakeTypeCorrect, ReadingsTypeCorrect
<1>2. Delivery!Spec => []Delivery!TypeOK
  BY DeliveryAssumed, Delivery!OutboxTypeCorrect
<1>3. Delivery!TypeOK => Outbox!TypeOK
  BY DEF Outbox!TypeOK, Delivery!TypeOK, Outbox!Events, Delivery!Events, Outbox!Row, Delivery!Row,
         Outbox!RowStatus, Delivery!RowStatus, Outbox!Claim, Delivery!Claim, Outbox!Result, Delivery!Result
<1>4. /\ TypeOK /\ Outbox!TypeOK /\ ReconciliationTypeOK /\ StockTypeOK
      /\ DispatchTypeOK /\ IntakeTypeOK /\ ReadingsTypeOK
      => OperationsTypeOK
  BY DEF OperationsTypeOK
<1>5. QED
  BY <1>1, <1>2, <1>3, <1>4, ScenariosAreOperations, OutboxDelivers, PTL

=============================================================================
