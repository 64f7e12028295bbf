------------------------- MODULE WebhookOutboxProofs -------------------------
(***************************************************************************)
(* Theorems about the delivery of the outbox, for any number of events,    *)
(* workers, tokens and retries and any sequence of crashes and takeovers.  *)
(* The invariant relates what a worker believes of its claim to what has   *)
(* happened at the receiver; the row is written from those beliefs alone.  *)
(***************************************************************************)
EXTENDS WebhookOutbox, TLAPS

USE OutboxAssumption

\* What a worker has learnt of a claim is true; the attempts it read when it
\* claimed the row have been paid for, the present one included; and one more
\* is within the budget.
Truthful(c) ==
    /\ c.result = "ok" => c.event \in received
    /\ c.result = "refused" => c.event \in refused
    /\ c.attempts <= failures[c.event]
    /\ c.result \in {"refused", "busy"} => c.attempts + 1 <= failures[c.event]
    /\ c.attempts < MaxRetries

ClaimsTruthful == \A w \in Workers : \A c \in claims[w] : Truthful(c)

\* What the row of event e says is true as well.
RowTrue(r, e) ==
    /\ r.status \in {"sent", "purged"} => e \in received
    /\ r.attempts <= failures[e]
    /\ r.status = "failed" => e \in refused \/ failures[e] >= MaxRetries
    /\ r.status \in {"absent", "pending", "in_flight"} => r.attempts < MaxRetries

RowsTrue == \A e \in Events : RowTrue(row[e], e)

IInv == TypeOK /\ ClaimsTruthful /\ RowsTrue

-----------------------------------------------------------------------------
LEMMA NewRowType == NewRow \in Row /\ NewRow.status = "pending" /\ NewRow.attempts = 0
BY DEF NewRow, Row, RowStatus

LEMMA OutboxInit == ASSUME Init PROVE IInv
<1> DEFINE absent == [NewRow EXCEPT !.status = "absent"]
<1>1. absent \in Row /\ absent.status = "absent" /\ absent.attempts = 0
  BY NewRowType DEF Row, RowStatus
<1>2. /\ row = [e \in Events |-> absent] /\ claims = [w \in Workers |-> {}]
      /\ received = {} /\ failures = [e \in Events |-> 0] /\ refused = {} /\ faults = 0
  BY DEF Init
<1> HIDE DEF absent
<1>3. TypeOK
  BY <1>1, <1>2 DEF TypeOK
<1>4. ClaimsTruthful
  BY <1>2 DEF ClaimsTruthful
<1>5. RowsTrue
  BY <1>1, <1>2 DEF RowsTrue, RowTrue
<1>6. QED
  BY <1>3, <1>4, <1>5 DEF IInv

\* What a settlement writes is a row, and true if the claim is.
LEMMA SettledTrue ==
    ASSUME TypeOK, NEW e \in Events, NEW r \in Row, RowTrue(r, e), r.status = "in_flight",
           NEW c \in Claim, c.event = e, c.result # "none", Truthful(c)
    PROVE  /\ Settled(r, c) \in Row
           /\ RowTrue(Settled(r, c), e)
           /\ Settled(r, c).status \in {"sent", "pending", "failed"}
           /\ Settled(r, c).status = "sent" => c.result = "ok"
<1> DEFINE spent == c.attempts + 1
           free == [r EXCEPT !.token = NoToken, !.leased = FALSE]
<1>1. /\ c.attempts \in Nat /\ spent \in 0..MaxRetries /\ failures[e] \in Nat
      /\ c.result \in {"ok", "refused", "busy", "unknown"}
  BY DEF Claim, Truthful, TypeOK, Result
<1>2. free \in Row /\ free.status = "in_flight" /\ free.attempts = r.attempts
  BY DEF Row
<1>3. r.attempts \in 0..MaxRetries /\ r.attempts < MaxRetries /\ r.attempts <= failures[e]
  BY DEF Row, RowTrue
<1>4. Settled(r, c) = CASE Delivered(c) -> [free EXCEPT !.status = "sent"]
                        [] Unconfirmed(c) -> [free EXCEPT !.status = "pending"]
                        [] c.result = "refused" \/ (c.result = "busy" /\ LastAttempt(spent)) ->
                               [free EXCEPT !.status = "failed", !.attempts = spent]
                        [] OTHER -> [free EXCEPT !.status = "pending", !.attempts = spent,
                                                 !.ready = FALSE]
  BY DEF Settled
<1> HIDE DEF free, spent
<1>5. CASE c.result = "ok"
  <2>1. Settled(r, c) = [free EXCEPT !.status = "sent"]
    BY <1>4, <1>5 DEF Delivered, Unconfirmed
  <2>2. /\ Settled(r, c) \in Row /\ Settled(r, c).status = "sent"
        /\ Settled(r, c).attempts = r.attempts
    BY <1>2, <2>1 DEF Row, RowStatus
  <2>3. QED
    BY <1>3, <1>5, <2>2 DEF RowTrue, Truthful
<1>6. CASE c.result = "unknown"
  <2>1. Settled(r, c) = [free EXCEPT !.status = "pending"]
    BY <1>4, <1>6 DEF Delivered, Unconfirmed
  <2>2. /\ Settled(r, c) \in Row /\ Settled(r, c).status = "pending"
        /\ Settled(r, c).attempts = r.attempts
    BY <1>2, <2>1 DEF Row, RowStatus
  <2>3. QED
    BY <1>3, <2>2 DEF RowTrue
<1>7. CASE c.result \in {"refused", "busy"} /\ (c.result = "refused" \/ LastAttempt(spent))
  <2>1. Settled(r, c) = [free EXCEPT !.status = "failed", !.attempts = spent]
    BY <1>4, <1>7 DEF Delivered, Unconfirmed
  <2>2. /\ Settled(r, c) \in Row /\ Settled(r, c).status = "failed"
        /\ Settled(r, c).attempts = spent
    BY <1>1, <1>2, <2>1 DEF Row, RowStatus
  <2>3. spent <= failures[e] /\ (c.result # "refused" => spent >= MaxRetries)
    BY <1>7 DEF Truthful, LastAttempt, spent
  <2>4. c.result = "refused" => e \in refused
    BY DEF Truthful
  <2>5. QED
    BY <1>1, <2>2, <2>3, <2>4 DEF RowTrue
<1>8. CASE c.result = "busy" /\ ~LastAttempt(spent)
  <2>1. Settled(r, c) = [free EXCEPT !.status = "pending", !.attempts = spent, !.ready = FALSE]
    BY <1>4, <1>8 DEF Delivered, Unconfirmed
  <2>2. /\ Settled(r, c) \in Row /\ Settled(r, c).status = "pending"
        /\ Settled(r, c).attempts = spent
    BY <1>1, <1>2, <2>1 DEF Row, RowStatus
  <2>3. spent <= failures[e] /\ spent < MaxRetries
    BY <1>1, <1>8 DEF Truthful, LastAttempt, spent
  <2>4. QED
    BY <2>2, <2>3 DEF RowTrue
<1>9. QED
  BY <1>1, <1>5, <1>6, <1>7, <1>8

-----------------------------------------------------------------------------
(* The steps.                                                               *)

\* A step of the table alone keeps the claims true.
LEMMA ClaimsUntouched ==
    ASSUME ClaimsTruthful, UNCHANGED <<claims, received, failures, refused>>
    PROVE  ClaimsTruthful'
BY DEF ClaimsTruthful, Truthful

LEMMA RowStepKeeps == ASSUME IInv, NEW e \in Events, RowStep(e) PROVE IInv'
<1> USE DEF IInv, TypeOK
<1>1. row[e] \in Row /\ RowTrue(row[e], e)
  BY DEF RowsTrue
<1>2. ASSUME NEW r \in Row, RowTrue(r, e), row' = [row EXCEPT ![e] = r],
             UNCHANGED <<claims, received, failures, refused>>, faults' \in 0..MaxFaults
      PROVE  IInv'
  <2>1. row' \in [Events -> Row] /\ \A f \in Events : row'[f] = IF f = e THEN r ELSE row[f]
    BY <1>2
  <2>2. \A f \in Events : RowTrue(row'[f], f)
    BY <1>2, <2>1 DEF RowsTrue
  <2>3. RowsTrue'
    BY <1>2, <2>2 DEF RowsTrue, RowTrue
  <2>4. QED
    BY <1>2, <2>1, <2>3, ClaimsUntouched
<1>3. CASE Enqueue(e)
  <2>1. RowTrue(NewRow, e)
    <3>1. failures[e] \in Nat
      OBVIOUS
    <3>2. QED
      BY <3>1, NewRowType DEF RowTrue
  <2>2. QED
    BY <1>2, <1>3, <2>1, NewRowType DEF Enqueue
<1>4. CASE LeaseExpires(e)
  <2> DEFINE r == [row[e] EXCEPT !.leased = FALSE]
  <2>1. r \in Row /\ r.status = row[e].status /\ r.attempts = row[e].attempts
    BY <1>1 DEF Row
  <2>2. RowTrue(r, e)
    BY <1>1, <2>1 DEF RowTrue
  <2>3. row' = [row EXCEPT ![e] = r] /\ faults' \in 0..MaxFaults
    BY <1>4 DEF LeaseExpires
  <2> HIDE DEF r
  <2>4. QED
    BY <1>2, <1>4, <2>1, <2>2, <2>3 DEF LeaseExpires
<1>5. CASE BackoffElapses(e)
  <2> DEFINE r == [row[e] EXCEPT !.ready = TRUE]
  <2>1. r \in Row /\ r.status = row[e].status /\ r.attempts = row[e].attempts
    BY <1>1 DEF Row
  <2>2. RowTrue(r, e)
    BY <1>1, <2>1 DEF RowTrue
  <2>3. row' = [row EXCEPT ![e] = r] /\ faults' \in 0..MaxFaults
    BY <1>5 DEF BackoffElapses
  <2> HIDE DEF r
  <2>4. QED
    BY <1>2, <1>5, <2>1, <2>2, <2>3 DEF BackoffElapses
<1>6. CASE Purge(e)
  <2> DEFINE r == [row[e] EXCEPT !.status = "purged"]
  <2>1. r \in Row /\ r.status = "purged" /\ r.attempts = row[e].attempts
    BY <1>1 DEF Row, RowStatus
  <2>2. RowTrue(r, e)
    BY <1>1, <1>6, <2>1 DEF RowTrue, Purge
  <2>3. row' = [row EXCEPT ![e] = r] /\ faults' \in 0..MaxFaults
    BY <1>6 DEF Purge
  <2> HIDE DEF r
  <2>4. QED
    BY <1>2, <1>6, <2>1, <2>2, <2>3 DEF Purge
<1>7. QED
  BY <1>3, <1>4, <1>5, <1>6 DEF RowStep

LEMMA ClaimKeeps == ASSUME IInv, NEW w \in Workers, ClaimRows(w) PROVE IInv'
<1> USE DEF IInv, TypeOK
<1>1. PICK batch \in SUBSET Events, t \in FreshTokens :
        /\ Oldest(batch)
        /\ row' = [e \in Events |->
                      IF e \in batch
                      THEN [row[e] EXCEPT !.status = "in_flight", !.token = t, !.leased = TRUE]
                      ELSE row[e]]
        /\ claims' = [claims EXCEPT ![w] =
                         {[event |-> e, token |-> t, attempts |-> row[e].attempts,
                           result |-> "none"] : e \in batch}]
        /\ UNCHANGED <<received, failures, refused, faults>>
  BY DEF ClaimRows
<1>2. t \in Tokens /\ \A e \in Events : row[e] \in Row /\ RowTrue(row[e], e)
  BY DEF FreshTokens, RowsTrue
<1>3. \A e \in batch : e \in Events /\ row[e].status \in {"pending", "in_flight"}
  BY <1>1 DEF Oldest, Claimable
<1>4. \A e \in batch : /\ row[e].attempts \in 0..MaxRetries /\ row[e].attempts < MaxRetries
                       /\ row[e].attempts <= failures[e]
  BY <1>2, <1>3 DEF RowTrue, Row
<1> DEFINE claim(e) == [event |-> e, token |-> t, attempts |-> row[e].attempts, result |-> "none"]
<1>5. \A e \in batch : claim(e) \in Claim /\ Truthful(claim(e))
  BY <1>2, <1>3, <1>4 DEF Claim, Truthful, Result
<1>6. claims' \in [Workers -> SUBSET Claim]
  BY <1>1, <1>5
<1>7. ClaimsTruthful'
  <2>1. \A v \in Workers : \A c \in claims'[v] : Truthful(c)
    BY <1>1, <1>5 DEF ClaimsTruthful
  <2>2. QED
    BY <1>1, <2>1 DEF ClaimsTruthful, Truthful
<1>8. \A e \in Events : row'[e] \in Row /\ RowTrue(row'[e], e)
  <2>1. ASSUME NEW e \in batch PROVE row'[e] \in Row /\ RowTrue(row'[e], e)
    <3> DEFINE r == [row[e] EXCEPT !.status = "in_flight", !.token = t, !.leased = TRUE]
    <3>1. r \in Row /\ r.status = "in_flight" /\ r.attempts = row[e].attempts
      BY <1>2, <1>3 DEF Row, RowStatus
    <3>2. row'[e] = r
      BY <1>1, <1>3
    <3> HIDE DEF r
    <3>3. QED
      BY <1>4, <3>1, <3>2 DEF RowTrue
  <2>2. ASSUME NEW e \in Events \ batch PROVE row'[e] \in Row /\ RowTrue(row'[e], e)
    BY <1>1, <1>2
  <2>3. QED
    BY <2>1, <2>2
<1>9. row' \in [Events -> Row] /\ RowsTrue'
  BY <1>1, <1>8 DEF RowsTrue, RowTrue
<1>10. QED
  BY <1>1, <1>6, <1>7, <1>9

LEMMA PostKeeps ==
    ASSUME IInv, NEW w \in Workers, NEW c \in claims[w], NEW result \in Result \ {"none"},
           NEW taken \in BOOLEAN, Post(w, c, result, taken)
    PROVE  IInv'
<1> USE DEF IInv, TypeOK
<1> DEFINE d == [c EXCEPT !.result = result]
<1>1. c \in Claim /\ c.result = "none" /\ Truthful(c)
  BY DEF Post, ClaimsTruthful
<1>2. d \in Claim /\ d.event = c.event /\ d.attempts = c.attempts /\ d.result = result
  BY <1>1 DEF Claim
<1>3. c.event \in Events /\ c.attempts \in Nat /\ \A e \in Events : failures[e] \in Nat
  BY <1>1 DEF Claim
<1>4. /\ claims' = [claims EXCEPT ![w] = (@ \ {c}) \cup {d}]
      /\ received' = IF taken THEN received \cup {c.event} ELSE received
      /\ failures' = [failures EXCEPT ![c.event] = IF result \in {"refused", "busy"}
                                                   THEN @ + 1 ELSE @]
      /\ refused' = IF result = "refused" THEN refused \cup {c.event} ELSE refused
      /\ row' = row /\ faults' \in 0..MaxFaults
      /\ result = "ok" => taken
  BY DEF Post
<1> HIDE DEF d
<1>5. /\ received \subseteq received' /\ received' \subseteq Events
      /\ refused \subseteq refused' /\ refused' \subseteq Events
      /\ failures' \in [Events -> Nat]
      /\ \A e \in Events : failures[e] <= failures'[e]
      /\ result \in {"refused", "busy"} => failures'[c.event] = failures[c.event] + 1
  BY <1>3, <1>4
<1>6. claims' \in [Workers -> SUBSET Claim]
  BY <1>2, <1>4
<1>7. \A b \in Claim : Truthful(b) => Truthful(b)'
  <2>1. \A b \in Claim : b.event \in Events /\ b.attempts \in Nat
    BY DEF Claim
  <2>2. QED
    BY <1>3, <1>5, <2>1 DEF Truthful
<1>8. Truthful(d)'
  <2>1. result = "ok" => c.event \in received'
    BY <1>4
  <2>2. result = "refused" => c.event \in refused'
    BY <1>4
  <2>3. c.attempts <= failures[c.event] /\ c.attempts < MaxRetries
    BY <1>1 DEF Truthful
  <2>4. failures[c.event] \in Nat /\ failures'[c.event] \in Nat
    BY <1>3, <1>5
  <2>5. QED
    BY <1>2, <1>3, <1>5, <2>1, <2>2, <2>3, <2>4 DEF Truthful
<1>9. ClaimsTruthful'
  <2>1. ASSUME NEW v \in Workers, NEW b \in claims'[v] PROVE Truthful(b)'
    <3>1. b = d \/ (b \in claims[v] /\ b \in Claim)
      BY <1>4
    <3>2. QED
      BY <1>7, <1>8, <3>1 DEF ClaimsTruthful
  <2>2. QED
    BY <2>1 DEF ClaimsTruthful
<1>10. RowsTrue'
  <2>1. \A e \in Events : row[e].attempts \in Nat
    BY DEF Row
  <2>2. ASSUME NEW e \in Events PROVE RowTrue(row[e], e)'
    <3>1. RowTrue(row[e], e)
      BY DEF RowsTrue
    <3>2. QED
      BY <1>3, <1>4, <1>5, <2>1, <3>1 DEF RowTrue
  <2>3. QED
    BY <1>4, <2>2 DEF RowsTrue
<1>11. QED
  BY <1>4, <1>5, <1>6, <1>9, <1>10

\* A settlement touches only the rows it still owns.
LEMMA SettleEffect ==
    ASSUME IInv, NEW w \in Workers, Settle(w), NEW e \in Events
    PROVE  \/ row'[e] = row[e]
           \/ \E c \in claims[w] : /\ c.event = e /\ Owns(c) /\ c \in Claim /\ Truthful(c)
                                  /\ c.result # "none"
                                  /\ row'[e] = Settled(row[e], c)
<1>1. CASE \E c \in claims[w] : c.event = e /\ Owns(c)
  <2> DEFINE c == CHOOSE c \in claims[w] : c.event = e /\ Owns(c)
  <2>1. c \in claims[w] /\ c.event = e /\ Owns(c)
    BY <1>1
  <2>2. row'[e] = Settled(row[e], c)
    BY <1>1 DEF Settle
  <2> HIDE DEF c
  <2>3. c \in Claim /\ Truthful(c) /\ c.result # "none"
    BY <2>1 DEF Settle, IInv, TypeOK, ClaimsTruthful
  <2>4. QED
    BY <2>1, <2>2, <2>3
<1>2. CASE ~\E c \in claims[w] : c.event = e /\ Owns(c)
  BY <1>2 DEF Settle
<1>3. QED
  BY <1>1, <1>2

LEMMA SettleKeeps == ASSUME IInv, NEW w \in Workers, Settle(w) PROVE IInv'
<1> USE DEF IInv, TypeOK
<1>1. \A e \in Events : row'[e] \in Row /\ RowTrue(row'[e], e)
  <2>1. SUFFICES ASSUME NEW e \in Events PROVE row'[e] \in Row /\ RowTrue(row'[e], e)
    OBVIOUS
  <2>2. row[e] \in Row /\ RowTrue(row[e], e)
    BY DEF RowsTrue
  <2>3. CASE row'[e] = row[e]
    BY <2>2, <2>3
  <2>4. ASSUME NEW c \in claims[w], c.event = e, Owns(c), c \in Claim, Truthful(c),
               c.result # "none", row'[e] = Settled(row[e], c)
        PROVE  row'[e] \in Row /\ RowTrue(row'[e], e)
    <3>1. row[e].status = "in_flight"
      BY <2>4 DEF Owns
    <3>2. Settled(row[e], c) \in Row /\ RowTrue(Settled(row[e], c), e)
      BY <2>2, <2>4, <3>1, SettledTrue
    <3>3. QED
      BY <2>4, <3>2
  <2>5. QED
    BY <2>3, <2>4, SettleEffect
<1>2. /\ row' \in [Events -> Row] /\ claims' = [claims EXCEPT ![w] = {}]
      /\ UNCHANGED <<received, failures, refused, faults>>
  BY <1>1 DEF Settle
<1>3. RowsTrue'
  BY <1>1, <1>2 DEF RowsTrue, RowTrue
<1>4. ClaimsTruthful'
  BY <1>2 DEF ClaimsTruthful, Truthful
<1>5. QED
  BY <1>2, <1>3, <1>4

LEMMA CrashKeeps == ASSUME IInv, NEW w \in Workers, Crash(w) PROVE IInv'
<1> USE DEF IInv, TypeOK
<1>1. /\ claims' = [claims EXCEPT ![w] = {}] /\ faults' \in 0..MaxFaults
      /\ UNCHANGED <<row, received, failures, refused>>
  BY DEF Crash
<1>2. ClaimsTruthful' /\ RowsTrue'
  BY <1>1 DEF ClaimsTruthful, Truthful, RowsTrue, RowTrue
<1>3. QED
  BY <1>1, <1>2

-----------------------------------------------------------------------------
LEMMA OutboxInductive == Spec => []IInv
<1>1. Init => IInv
  BY OutboxInit
<1>2. IInv /\ [Next]_vars => IInv'
  <2>1. SUFFICES ASSUME IInv, [Next]_vars PROVE IInv'
    OBVIOUS
  <2>2. CASE \E w \in Workers : WorkerStep(w)
    BY <2>1, <2>2, ClaimKeeps, PostKeeps, SettleKeeps, CrashKeeps DEF WorkerStep, PostSome
  <2>3. CASE \E e \in Events : RowStep(e)
    BY <2>1, <2>3, RowStepKeeps
  <2>4. CASE UNCHANGED vars
    BY <2>1, <2>4 DEF vars, IInv, TypeOK, ClaimsTruthful, Truthful, RowsTrue, RowTrue
  <2>5. QED
    BY <2>1, <2>2, <2>3, <2>4 DEF Next
<1>3. QED
  BY <1>1, <1>2, PTL DEF Spec

\* Every variable keeps its type; in particular the attempts never pass the
\* budget, however often a row is claimed.
THEOREM OutboxTypeCorrect == Spec => []TypeOK
BY OutboxInductive, PTL DEF IInv

\* Nothing is marked as sent, or deleted, that was not received.
THEOREM NothingSentInVain == Spec => []SentWasReceived
<1>1. IInv => SentWasReceived
  BY DEF IInv, RowsTrue, RowTrue, SentWasReceived
<1>2. QED
  BY <1>1, OutboxInductive, PTL

\* Nothing is given up before it was refused or the budget was spent on
\* confirmed failures.
THEOREM NothingGivenUpEarly == Spec => []DeadLetterIsEarned
<1>1. IInv => DeadLetterIsEarned
  BY DEF IInv, RowsTrue, RowTrue, DeadLetterIsEarned
<1>2. QED
  BY <1>1, OutboxInductive, PTL

\* Only the worker that holds a claim settles it.
THEOREM HolderSettles == Spec => OnlyTheHolderSettles
<1> DEFINE Held ==
        \A e \in Events :
          row[e].status = "in_flight" /\ row'[e].status # "in_flight" =>
              \E w \in Workers : \E c \in claims[w] :
                  /\ c.event = e /\ c.token = row[e].token
                  /\ claims'[w] = {}
                  /\ row'[e].status = "sent" => c.result = "ok"
<1>1. IInv /\ [Next]_vars => [Held]_vars
  <2> SUFFICES ASSUME IInv, Next, NEW e \in Events,
                      row[e].status = "in_flight", row'[e].status # "in_flight"
               PROVE  \E w \in Workers : \E c \in claims[w] :
                          /\ c.event = e /\ c.token = row[e].token
                          /\ claims'[w] = {}
                          /\ row'[e].status = "sent" => c.result = "ok"
    BY DEF vars
  <2>1. row \in [Events -> Row] /\ row[e] \in Row /\ RowTrue(row[e], e)
    BY DEF IInv, TypeOK, RowsTrue
  <2>2. CASE \E w \in Workers : Settle(w)
    <3>1. PICK w \in Workers : Settle(w)
      BY <2>2
    <3>2. PICK c \in claims[w] : /\ c.event = e /\ Owns(c) /\ c \in Claim /\ Truthful(c)
                                /\ c.result # "none" /\ row'[e] = Settled(row[e], c)
      BY <3>1, SettleEffect
    <3>3. row'[e].status = "sent" => c.result = "ok"
      BY <2>1, <3>2, SettledTrue DEF IInv
    <3>4. claims'[w] = {}
      BY <3>1 DEF Settle, IInv, TypeOK
    <3>5. QED
      BY <3>2, <3>3, <3>4 DEF Owns
  <2>3. ASSUME NEW w \in Workers, ClaimRows(w) \/ PostSome(w) \/ Crash(w) PROVE FALSE
    <3>1. CASE ClaimRows(w)
      <4>1. row'[e] = row[e] \/ \E t \in Tokens :
               row'[e] = [row[e] EXCEPT !.status = "in_flight", !.token = t, !.leased = TRUE]
        BY <3>1 DEF ClaimRows, FreshTokens
      <4>2. QED
        BY <2>1, <4>1 DEF Row
    <3>2. CASE PostSome(w) \/ Crash(w)
      BY <3>2 DEF PostSome, Post, Crash
    <3>3. QED
      BY <2>3, <3>1, <3>2
  <2>4. ASSUME NEW f \in Events, RowStep(f) PROVE FALSE
    <3>1. CASE f # e
      BY <2>1, <2>4, <3>1 DEF RowStep, Enqueue, LeaseExpires, BackoffElapses, Purge
    <3>2. CASE f = e
      BY <2>1, <2>4, <3>2 DEF RowStep, Enqueue, LeaseExpires, BackoffElapses, Purge, Row
    <3>3. QED
      BY <3>1, <3>2
  <2>5. QED
    BY <2>2, <2>3, <2>4 DEF Next, WorkerStep
<1>2. QED
  BY <1>1, OutboxInductive, PTL DEF Spec, OnlyTheHolderSettles

\* What was delivered or given up is out of reach of every worker: a claim takes pending and
\* abandoned rows only, and a late settlement no longer owns its row.
THEOREM SettledForGood == Spec => SettledIsFinal
<1> DEFINE Final ==
        \A e \in Events :
          /\ row[e].status = "sent" => row'[e].status \in {"sent", "purged"}
          /\ row[e].status = "failed" => row'[e] = row[e]
<1>1. IInv /\ [Next]_vars => [Final]_vars
  <2> SUFFICES ASSUME IInv, Next, NEW e \in Events, row[e].status \in {"sent", "failed"}
               PROVE  row'[e] = row[e] \/ (row[e].status = "sent" /\ row'[e].status = "purged")
    BY DEF vars
  <2>1. row \in [Events -> Row]
    BY DEF IInv, TypeOK
  <2>2. ASSUME NEW w \in Workers, WorkerStep(w) PROVE row'[e] = row[e]
    <3>1. CASE ClaimRows(w)
      <4>1. \A batch \in SUBSET Events : Oldest(batch) => e \notin batch
        BY DEF Oldest, Claimable
      <4>2. QED
        BY <3>1, <4>1 DEF ClaimRows
    <3>2. CASE PostSome(w) \/ Crash(w)
      BY <3>2 DEF PostSome, Post, Crash
    <3>3. CASE Settle(w)
      BY <3>3, SettleEffect DEF Owns
    <3>4. QED
      BY <2>2, <3>1, <3>2, <3>3 DEF WorkerStep
  <2>3. ASSUME NEW f \in Events, RowStep(f)
        PROVE  row'[e] = row[e] \/ (row[e].status = "sent" /\ row'[e].status = "purged")
    <3>1. CASE f # e
      BY <2>1, <2>3, <3>1 DEF RowStep, Enqueue, LeaseExpires, BackoffElapses, Purge
    <3>2. CASE f = e
      <4>1. CASE Purge(e)
        BY <2>1, <4>1 DEF Purge, Row
      <4>2. QED
        BY <2>3, <3>2, <4>1 DEF RowStep, Enqueue, LeaseExpires, BackoffElapses, Purge
    <3>3. QED
      BY <3>1, <3>2
  <2>4. QED
    BY <2>2, <2>3 DEF Next
<1>2. QED
  BY <1>1, OutboxInductive, PTL DEF Spec, SettledIsFinal
=============================================================================
