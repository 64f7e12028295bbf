----------------------------- MODULE MediaFiles -----------------------------
(***************************************************************************)
(* The media service: the life of a stored file and its publication lock.  *)
(* Archiving and deleting are two-phase sagas: a reservation, one update   *)
(* guarded by "active and not locked", then I/O with the storage and an    *)
(* unguarded write of the outcome.  A lock is taken by one update guarded  *)
(* by "active".  Uploads create active, unlocked files, the initial state. *)
(***************************************************************************)
CONSTANTS
    Media,      \* the stored files
    SlowSagas   \* files whose saga may outlive the threshold of Resolve

VARIABLES
    file,       \* media_files.status
    held,       \* files with publication_locked
    sagas       \* live archive and delete sagas, past their reservation

mediaVars == <<file, held, sagas>>

MediaAssumption == SlowSagas \subseteq Media

Reservation == {"archiving", "deleting"}
FileStatus == {"active", "archived", "deleted"} \cup Reservation

\* A deletion leaves the row.
Outcome(kind) == IF kind = "archiving" THEN "archived" ELSE "deleted"

MediaInit ==
    /\ file = [m \in Media |-> "active"]
    /\ held = {}
    /\ sagas = {}

-----------------------------------------------------------------------------

Reservable(m) == file[m] = "active" /\ m \notin held

\* Phase 1 of archive_media and delete_media.
Reserve(m, kind) ==
    /\ Reservable(m)
    /\ file' = [file EXCEPT ![m] = kind]
    /\ sagas' = sagas \cup {<<m, kind>>}
    /\ UNCHANGED held

\* Phase 2: the I/O is done, or failed and the reservation is given back.
Conclude(m, kind) ==
    /\ <<m, kind>> \in sagas
    /\ \E outcome \in {Outcome(kind), "active"} : file' = [file EXCEPT ![m] = outcome]
    /\ sagas' = sagas \ {<<m, kind>>}
    /\ UNCHANGED held

\* The process dies between the phases.
Abandon(m, kind) ==
    /\ <<m, kind>> \in sagas
    /\ sagas' = sagas \ {<<m, kind>>}
    /\ UNCHANGED <<file, held>>

\* Mutant: a file being archived or deleted may be locked.
LockableUnlessGone(m) == file[m] \notin {"archived", "deleted"}

Lockable(m) == file[m] = "active"

Acquire(m) == Lockable(m) /\ held' = held \cup {m} /\ UNCHANGED <<file, sagas>>

Release(ms) == held' = held \ ms /\ UNCHANGED <<file, sagas>>

\* A reservation older than the threshold: its saga has died, or is slow.
Stale(m) ==
    /\ file[m] \in Reservation
    /\ m \in SlowSagas \/ \A kind \in Reservation : <<m, kind>> \notin sagas

\* Bytes of an archiving file are in place; those of a deleting one may be gone.
Resolved(m) == IF file[m] = "archiving" THEN "active" ELSE "deleted"

\* resolve_stale_transitions; which of the stale ones are old enough is time's choice.
Resolve(old) ==
    /\ \A m \in old : Stale(m)
    /\ file' = [m \in Media |-> IF m \in old THEN Resolved(m) ELSE file[m]]
    /\ UNCHANGED <<held, sagas>>

SagaStep(m, kind) == Reserve(m, kind) \/ Conclude(m, kind) \/ Abandon(m, kind)

MediaNext ==
    \/ \E m \in Media, kind \in Reservation : SagaStep(m, kind)
    \/ \E m \in Media : Acquire(m)
    \/ \E ms \in SUBSET Media : Release(ms)
    \/ \E old \in SUBSET Media : Resolve(old)

MediaSpec == MediaInit /\ [][MediaNext]_mediaVars

-----------------------------------------------------------------------------
MediaTypeOK ==
    /\ file \in [Media -> FileStatus]
    /\ held \subseteq Media
    /\ sagas \subseteq Media \X Reservation

\* A locked file is active: neither side overtakes the other, and neither the
\* end of a saga nor its recovery lands on a file that was locked meanwhile.
LockedStaysActive == \A m \in held : file[m] = "active"

\* A file whose bytes may already be gone never becomes active through the
\* recovery of a dead delete saga: only a live saga that failed gives it back.
NeverRevivedBlindly ==
    [][\A m \in Media : file[m] = "deleting" /\ file'[m] = "active" => <<m, "deleting">> \in sagas]_mediaVars

=============================================================================
