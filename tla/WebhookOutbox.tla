--------------------------- MODULE WebhookOutbox ---------------------------
(***************************************************************************)
(* Delivery of the transactional outbox (services/webhook_sender).  Rows   *)
(* are inserted by the transactions of the workflow; several workers run   *)
(* process_outbox: they claim a batch in a short transaction, post each    *)
(* row outside any transaction, and settle the batch in a second one with  *)
(* a compare-and-set on the claim token.  A claim whose worker died or     *)
(* stalled is taken over when its lease has run out.  The receiver,        *)
(* InfraSafe, is external: all that is said of it is that a 200 means the  *)
(* event was received, a 400/401/403 that it was not.                      *)
(***************************************************************************)
EXTENDS Integers, FiniteSets

CONSTANTS
    MaxEvents,    \* bound: outbox rows explored, numbered in order of creation
    Workers,      \* processes that run process_outbox
    ClaimBatch,   \* INFRASAFE_OUTBOX_CLAIM_BATCH
    MaxRetries,   \* INFRASAFE_WEBHOOK_MAX_RETRIES
    Tokens,       \* pool of claim tokens; a claim draws one nobody refers to
    NoToken,      \* SQL NULL in claim_token
    MaxFaults     \* bound: crashes, stalls beyond the lease, internal errors

ASSUME OutboxAssumption ==
    /\ MaxEvents \in Nat /\ MaxFaults \in Nat
    /\ ClaimBatch \in Nat \ {0} /\ MaxRetries \in Nat \ {0}
    /\ Tokens \subseteq Nat /\ NoToken \notin Tokens

VARIABLES
    row,        \* the webhook_outbox table
    claims,     \* claims[w]: what worker w has claimed and not yet settled
    received,   \* events the receiver has taken in
    failures,   \* history: confirmed unsuccessful posts of each event
    refused,    \* history: events the receiver refused for good
    faults      \* crashes, stalls and internal errors so far

vars == <<row, claims, received, failures, refused, faults>>

Events == 1..MaxEvents
RowStatus == {"absent", "pending", "in_flight", "sent", "failed", "purged"}
Result == {"none", "ok", "refused", "busy", "unknown"}

\* ready: retry_after has passed; leased: claimed_at is within the lease.
Row == [status : RowStatus, attempts : 0..MaxRetries, token : Tokens \cup {NoToken},
        ready : BOOLEAN, leased : BOOLEAN]
Claim == [event : Events, token : Tokens, attempts : 0..MaxRetries, result : Result]

NewRow == [status |-> "pending", attempts |-> 0, token |-> NoToken,
           ready |-> TRUE, leased |-> FALSE]

Init ==
    /\ row = [e \in Events |-> [NewRow EXCEPT !.status = "absent"]]
    /\ claims = [w \in Workers |-> {}]
    /\ received = {}
    /\ failures = [e \in Events |-> 0]
    /\ refused = {}
    /\ faults = 0

-----------------------------------------------------------------------------
\* A business transaction commits with its event; a repeated emission of an
\* event already in the table inserts nothing and is a stutter.
Enqueue(e) ==
    /\ row[e].status = "absent"
    /\ \A f \in Events : f < e => row[f].status # "absent"
    /\ row' = [row EXCEPT ![e] = NewRow]
    /\ UNCHANGED <<claims, received, failures, refused, faults>>

\* Mutant: an abandoned claim is never taken over.
ClaimablePendingOnly == {e \in Events : row[e].status = "pending" /\ row[e].ready}

Claimable ==
    {e \in Events : \/ row[e].status = "pending" /\ row[e].ready
                    \/ row[e].status = "in_flight" /\ ~row[e].leased}

\* The oldest claimable rows, as many as fit the batch.
Oldest(batch) ==
    /\ batch \subseteq Claimable /\ batch # {}
    /\ \A e \in batch, f \in Claimable \ batch : e < f
    /\ Cardinality(batch) <= ClaimBatch
    /\ Cardinality(batch) < ClaimBatch => batch = Claimable

FreshTokens ==
    {t \in Tokens : /\ \A e \in Events : row[e].token # t
                    /\ \A w \in Workers : \A c \in claims[w] : c.token # t}

\* Phase 1, one transaction.  The rows are told apart by their id, so one
\* token serves the whole batch.
ClaimRows(w) ==
    /\ claims[w] = {}
    /\ \E batch \in SUBSET Events, t \in FreshTokens :
          /\ Oldest(batch)
          /\ \A u \in FreshTokens : t <= u
          /\ row' = [e \in Events |->
                        IF e \in batch
                        THEN [row[e] EXCEPT !.status = "in_flight", !.token = t, !.leased = TRUE]
                        ELSE row[e]]
          /\ claims' = [claims EXCEPT ![w] =
                           {[event |-> e, token |-> t, attempts |-> row[e].attempts,
                             result |-> "none"] : e \in batch}]
    /\ UNCHANGED <<received, failures, refused, faults>>

\* Phase 2: one POST of the batch ends.  A timeout or an internal error says
\* nothing about whether the receiver took the event in.
Post(w, c, result, taken) ==
    /\ c \in claims[w] /\ c.result = "none"
    /\ result = "ok" => taken
    /\ result = "refused" => ~taken
    /\ claims' = [claims EXCEPT ![w] = (@ \ {c}) \cup {[c EXCEPT !.result = result]}]
    /\ received' = IF taken THEN received \cup {c.event} ELSE received
    /\ failures' = [failures EXCEPT ![c.event] = IF result \in {"refused", "busy"}
                                                 THEN @ + 1 ELSE @]
    /\ refused' = IF result = "refused" THEN refused \cup {c.event} ELSE refused
    /\ IF result = "unknown" THEN faults < MaxFaults /\ faults' = faults + 1
                             ELSE faults' = faults
    /\ UNCHANGED row

\* Mutants: the update is keyed by the id and status, or by the id alone.
OwnsByStatus(c) == row[c.event].status = "in_flight"
OwnsById(c) == TRUE

\* The compare-and-set condition of a settlement.
Owns(c) == row[c.event].status = "in_flight" /\ row[c.event].token = c.token

\* Mutants of the three tests a settlement makes.
DeliveredMaybe(c) == c.result \in {"ok", "unknown"}
UnconfirmedNever(c) == FALSE
LastAttemptLate(spent) == spent > MaxRetries

Delivered(c) == c.result = "ok"
Unconfirmed(c) == c.result = "unknown"
LastAttempt(spent) == spent >= MaxRetries

\* What a settlement writes: success, an internal error (which costs no
\* attempt), the last confirmed failure, or one that will be retried.
Settled(r, c) ==
    LET spent == c.attempts + 1
        free == [r EXCEPT !.token = NoToken, !.leased = FALSE]
    IN CASE Delivered(c) -> [free EXCEPT !.status = "sent"]
         [] Unconfirmed(c) -> [free EXCEPT !.status = "pending"]
         [] c.result = "refused" \/ (c.result = "busy" /\ LastAttempt(spent)) ->
                [free EXCEPT !.status = "failed", !.attempts = spent]
         [] OTHER -> [free EXCEPT !.status = "pending", !.attempts = spent, !.ready = FALSE]

\* Phase 3, one transaction for the whole batch.
Settle(w) ==
    /\ claims[w] # {}
    /\ \A c \in claims[w] : c.result # "none"
    /\ row' = [e \in Events |->
                  IF \E c \in claims[w] : c.event = e /\ Owns(c)
                  THEN Settled(row[e], CHOOSE c \in claims[w] : c.event = e /\ Owns(c))
                  ELSE row[e]]
    /\ claims' = [claims EXCEPT ![w] = {}]
    /\ UNCHANGED <<received, failures, refused, faults>>

\* The worker's process dies between two phases; its rows stay in flight.
Crash(w) ==
    /\ claims[w] # {}
    /\ faults < MaxFaults
    /\ faults' = faults + 1
    /\ claims' = [claims EXCEPT ![w] = {}]
    /\ UNCHANGED <<row, received, failures, refused>>

Orphan(e) == \A w \in Workers : \A c \in claims[w] : c.event = e => ~Owns(c)

\* The lease of an abandoned claim runs out; so does that of a worker that is
\* merely too slow.
LeaseExpires(e) ==
    /\ row[e].status = "in_flight" /\ row[e].leased
    /\ row' = [row EXCEPT ![e].leased = FALSE]
    /\ IF Orphan(e) THEN faults' = faults ELSE faults < MaxFaults /\ faults' = faults + 1
    /\ UNCHANGED <<claims, received, failures, refused>>

BackoffElapses(e) ==
    /\ row[e].status = "pending" /\ ~row[e].ready
    /\ row' = [row EXCEPT ![e].ready = TRUE]
    /\ UNCHANGED <<claims, received, failures, refused, faults>>

\* Retention deletes delivered rows only.
Purge(e) ==
    /\ row[e].status = "sent"
    /\ row' = [row EXCEPT ![e].status = "purged"]
    /\ UNCHANGED <<claims, received, failures, refused, faults>>

PostSome(w) ==
    \E c \in claims[w], result \in Result \ {"none"}, taken \in BOOLEAN :
        Post(w, c, result, taken)

WorkerStep(w) == ClaimRows(w) \/ PostSome(w) \/ Settle(w) \/ Crash(w)
RowStep(e) == Enqueue(e) \/ LeaseExpires(e) \/ BackoffElapses(e) \/ Purge(e)

Next == (\E w \in Workers : WorkerStep(w)) \/ (\E e \in Events : RowStep(e))

Spec == Init /\ [][Next]_vars

\* The scheduler runs process_outbox for ever, every POST has a timeout, and
\* time passes: leases and back-offs end.
Fairness ==
    /\ \A w \in Workers : WF_vars(ClaimRows(w)) /\ WF_vars(PostSome(w)) /\ WF_vars(Settle(w))
    /\ \A e \in Events : WF_vars(LeaseExpires(e)) /\ WF_vars(BackoffElapses(e))

FairSpec == Spec /\ Fairness

-----------------------------------------------------------------------------
TypeOK ==
    /\ row \in [Events -> Row]
    /\ claims \in [Workers -> SUBSET Claim]
    /\ received \subseteq Events
    /\ failures \in [Events -> Nat]
    /\ refused \subseteq Events
    /\ faults \in 0..MaxFaults

\* A row marked as sent was received, whatever crash, stall or takeover came
\* before; only such rows are ever deleted.
SentWasReceived == \A e \in Events : row[e].status \in {"sent", "purged"} => e \in received

\* The retry budget is spent by confirmed failures alone, and a row is given
\* up only when the receiver refused it or the budget is spent.
DeadLetterIsEarned ==
    \A e \in Events :
        /\ row[e].attempts <= failures[e]
        /\ row[e].status = "failed" => e \in refused \/ failures[e] >= MaxRetries

\* A claim is settled only by the worker that holds it: the late answer of a
\* worker whose lease was taken over changes nothing.
OnlyTheHolderSettles ==
    [][\A e \in Events :
          row[e].status = "in_flight" /\ row'[e].status # "in_flight" =>
              \E w \in Workers : \E c \in claims[w] :
                  /\ c.event = e /\ c.token = row[e].token
                  /\ claims'[w] = {}
                  /\ row'[e].status = "sent" => c.result = "ok"]_vars

\* What was delivered or given up is never sent again.
SettledIsFinal ==
    [][\A e \in Events :
          /\ row[e].status = "sent" => row'[e].status \in {"sent", "purged"}
          /\ row[e].status = "failed" => row'[e] = row[e]]_vars

\* Every event enqueued is in the end delivered or given up: no takeover, no
\* batch and no older row keeps it in the table for ever.
EverythingSettles ==
    \A e \in Events : row[e].status = "pending" ~> row[e].status \in {"sent", "failed", "purged"}
=============================================================================
