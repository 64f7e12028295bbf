---------------------------- MODULE AccessReviews ----------------------------
(***************************************************************************)
(* The manual review of disputed entries at one gate with one barrier:     *)
(* ingestion that creates reviews, operators that resolve them or open the *)
(* barrier by hand or by a guest's code, and the worker that expires them. *)
(* Each is a transaction: it computes the key of an advisory lock, waits   *)
(* for the lock, reads, waits for the lock of each hash chain it appends   *)
(* to, writes and commits.  The key is the barrier while it is active,     *)
(* else the gate.  Every table has a chain; that of access_events is left  *)
(* out: only a reception takes its lock, and it has that of the decisions. *)
(***************************************************************************)
EXTENDS Naturals, Sequences, FiniteSets

CONSTANTS
    Reviews,        \* events that need a review
    Operators,      \* processes of the API
    Worker,         \* the review-expiry worker
    Nobody,         \* holder of a free lock
    OpenBound,      \* bound: openings by hand
    ToggleBound     \* bound: times the barrier is (de)activated

ReviewsAssumption ==
    /\ Reviews # {} /\ IsFiniteSet(Reviews)
    /\ Worker \notin Operators /\ Nobody \notin Operators \cup {Worker}
    /\ OpenBound \in Nat /\ ToggleBound \in Nat

VARIABLES
    group,      \* access_decisions: the statuses of a review's rows, by id
    chain,      \* access_decisions: for each row, by id, the row it hashes
    commands,   \* barrier_commands of a review's decisions
    alone,      \* openings by hand
    code,       \* a guest's one-time code
    codeOpens,  \* openings by that code
    captured,   \* events the camera has captured
    cleared,    \* of those, the ones before an opening without a decision
    late,       \* reviews whose deadline has passed
    active,     \* is the barrier active?
    toggles,
    holder,     \* advisory locks
    tx          \* the transaction of each process

db == <<group, chain, commands, alone, code, codeOpens, cleared>>
world == <<captured, late, active, toggles>>
reviewVars == <<db, world, holder, tx>>

Procs == Operators \cup {Worker}
Key == {"barrier", "gate"}
Chain == {"decisions", "openings", "audit"}
Lock == Key \cup Chain
Status == {"pending", "allowed", "denied", "expired"}
Kind == {"receive", "allow", "deny", "alone", "code", "expire"}

\* Current row: the one with the highest id.
Current(r) == IF group[r] = <<>> THEN "none" ELSE group[r][Len(group[r])]
Pending == {r \in Reviews : Current(r) = "pending"}

\* "begun": now is taken and the barrier looked up; "keyed": the key is known;
\* "locked": the lock is held; "read": the writes are decided, chains: those it has read.
Tx == [at : {"idle", "begun", "keyed", "locked", "read"}, kind : Kind, review : Reviews,
       barrier : BOOLEAN, key : Key, overdue : SUBSET Reviews, since : SUBSET Reviews,
       todo : SUBSET (Reviews \X Key), writes : [Reviews -> Status \cup {"none"}],
       opens : BOOLEAN, tail : Nat, chains : SUBSET Chain]

NoWrites == [r \in Reviews |-> "none"]
IdleTx == [at |-> "idle", kind |-> "expire", review |-> CHOOSE r \in Reviews : TRUE,
           barrier |-> FALSE, key |-> "gate", overdue |-> {}, since |-> {}, todo |-> {},
           writes |-> NoWrites, opens |-> FALSE, tail |-> 0, chains |-> {}]

ReviewsInit ==
    /\ group = [r \in Reviews |-> <<>>] /\ chain = <<>>
    /\ commands = [r \in Reviews |-> 0]
    /\ alone = 0 /\ code = "active" /\ codeOpens = 0
    /\ captured = {} /\ cleared = {} /\ late = {}
    /\ active = TRUE /\ toggles = 0
    /\ holder = [k \in Lock |-> Nobody]
    /\ tx = [p \in Procs |-> IdleTx]

-----------------------------------------------------------------------------
\* The surroundings.

Capture(r) ==
    /\ r \notin captured
    /\ captured' = captured \cup {r}
    /\ UNCHANGED <<db, late, active, toggles, holder, tx>>

DeadlinePasses(r) ==
    /\ Current(r) = "pending" /\ r \notin late
    /\ late' = late \cup {r}
    /\ UNCHANGED <<db, captured, active, toggles, holder, tx>>

Toggle ==
    /\ toggles < ToggleBound
    /\ active' = ~active /\ toggles' = toggles + 1
    /\ UNCHANGED <<db, captured, late, holder, tx>>

-----------------------------------------------------------------------------
\* Transactions.

\* Mutant: by hand and by code the gate is locked.
KeyByKind(kind) == IF kind \in {"alone", "code"} THEN "gate" ELSE "barrier"

\* canonical_lock_key; where the barrier is named it must be active.
CanonicalKey(kind) == IF active THEN "barrier" ELSE "gate"

\* The key of a resolution is read after the barrier, the others at once.
Begin(p, kind, r) ==
    /\ p \in Operators /\ tx[p].at = "idle" /\ kind # "expire"
    /\ kind = "receive" => r \in captured
    /\ kind \in {"alone", "code"} => active
    /\ kind = "alone" => alone < OpenBound
    /\ kind = "code" => code = "active"
    /\ tx' = [tx EXCEPT ![p] =
           [IdleTx EXCEPT !.at = IF kind \in {"allow", "deny"} THEN "begun" ELSE "keyed",
                          !.kind = kind, !.review = r, !.barrier = active,
                          !.key = CanonicalKey(kind), !.overdue = late, !.since = captured]]
    /\ UNCHANGED <<db, world, holder>>

ReadKey(p) ==
    /\ p \in Operators /\ tx[p].at = "begun"
    /\ tx' = [tx EXCEPT ![p].at = "keyed", ![p].key = CanonicalKey(tx[p].kind)]
    /\ UNCHANGED <<db, world, holder>>

Due == Pending \cap late

\* A tick of the worker: the reviews due, with the key of each.
Tick ==
    /\ tx[Worker].at = "idle" /\ Due # {}
    /\ tx' = [tx EXCEPT ![Worker] =
           [IdleTx EXCEPT !.at = "begun", !.overdue = late,
                          !.todo = Due \X {CanonicalKey("expire")}]]
    /\ UNCHANGED <<db, world, holder>>

NextDue ==
    /\ tx[Worker].at = "begun"
    /\ \E due \in tx[Worker].todo :
          tx' = [tx EXCEPT ![Worker].at = "keyed", ![Worker].review = due[1], ![Worker].key = due[2],
                           ![Worker].todo = @ \ {due}]
    /\ UNCHANGED <<db, world, holder>>

AcquireLock(p) ==
    /\ tx[p].at = "keyed" /\ holder[tx[p].key] = Nobody
    /\ holder' = [holder EXCEPT ![tx[p].key] = p]
    /\ tx' = [tx EXCEPT ![p].at = "locked"]
    /\ UNCHANGED <<db, world>>

Resolvable(r) == Current(r) = "pending"
ActiveReviews(t) == Pending \ t.overdue
CodeValid(t) == code = "active"

One(r, s) == [NoWrites EXCEPT ![r] = s]
ExpireAll(S) == [r \in Reviews |-> IF r \in S THEN "expired" ELSE "none"]

Received(t) ==
    IF Current(t.review) # "none" THEN NoWrites
    ELSE One(t.review, IF t.barrier /\ t.review \in cleared THEN "allowed" ELSE "pending")

\* resolve_event: an overdue review expires, a finished one is answered from the
\* record, one without an active barrier cannot be opened.
Resolved(t, s) ==
    IF ~Resolvable(t.review) THEN NoWrites
    ELSE IF t.review \in t.overdue THEN One(t.review, "expired")
    ELSE IF s = "allowed" /\ ~t.barrier THEN NoWrites
    ELSE One(t.review, s)

Writes(t) ==
    CASE t.kind = "receive" -> Received(t)
      [] t.kind = "allow" -> Resolved(t, "allowed")
      [] t.kind = "deny" -> Resolved(t, "denied")
      [] t.kind = "expire" -> IF Current(t.review) = "pending" THEN One(t.review, "expired") ELSE NoWrites
      [] t.kind = "alone" -> ExpireAll(Pending \cap t.overdue)
      [] t.kind = "code" -> NoWrites

Opens(t) ==
    \/ t.kind = "alone" /\ ActiveReviews(t) = {} /\ alone < OpenBound
    \/ t.kind = "code" /\ CodeValid(t)

Read(p) ==
    /\ tx[p].at = "locked"
    /\ tx' = [tx EXCEPT ![p].at = "read", ![p].writes = Writes(tx[p]), ![p].opens = Opens(tx[p])]
    /\ UNCHANGED <<db, world, holder>>

\* The tables a transaction appends to: access_decisions, manual_openings, access_audit_logs.
\* Overdue reviews that an opening by hand finds leave no audit.
Appends(t) ==
    LET opens == t.opens \/ (t.kind = "allow" /\ t.writes[t.review] = "allowed")
    IN  {k \in Chain : CASE k = "decisions" -> t.writes # NoWrites
                         [] k = "openings" -> opens
                         [] k = "audit" -> opens \/ (t.kind \in {"allow", "deny", "expire"} /\ t.writes # NoWrites)}

\* Mutant: the worker writes its audit first.
RankByKind(kind) == [decisions |-> 1, openings |-> 2, audit |-> IF kind = "expire" THEN 0 ELSE 3]

\* The tables in the order in which every transaction writes them.
Rank(kind) == [decisions |-> 1, openings |-> 2, audit |-> 3]

\* Mutant: nobody waits for a chain.
ChainOpen(k) == TRUE

ChainFree(k) == holder[k] = Nobody

\* next_hash: the lock of the chain, then its tail.
AcquireChain(p, k) ==
    LET t == tx[p]
        rest == Appends(t) \ t.chains
        rank == Rank(t.kind)
    IN  /\ t.at = "read" /\ k \in rest /\ \A l \in rest : rank[k] <= rank[l]
        /\ ChainFree(k)
        /\ holder' = [holder EXCEPT ![k] = p]
        /\ tx' = [tx EXCEPT ![p] = [t EXCEPT !.chains = t.chains \cup {k},
                                             !.tail = IF k = "decisions" THEN Len(chain) ELSE t.tail]]
        /\ UNCHANGED <<db, world>>

Released(p) == [k \in Lock |-> IF holder[k] = p THEN Nobody ELSE holder[k]]
Done(p) == [tx EXCEPT ![p] = IF @.todo = {} THEN IdleTx ELSE [@ EXCEPT !.at = "begun", !.chains = {}]]

Written(t) == {r \in Reviews : t.writes[r] # "none"}

\* An opening without a decision dates from the start of its transaction.
Commit(p) ==
    LET t == tx[p] IN
    /\ t.at = "read" /\ t.chains = Appends(t)
    /\ group' = [r \in Reviews |-> IF r \in Written(t) THEN Append(group[r], t.writes[r]) ELSE group[r]]
    /\ chain' = chain \o [i \in 1..Cardinality(Written(t)) |-> t.tail + i - 1]
    /\ commands' = [r \in Reviews |-> IF t.kind = "allow" /\ t.writes[r] = "allowed"
                                      THEN commands[r] + 1 ELSE commands[r]]
    /\ alone' = IF t.opens /\ t.kind = "alone" THEN alone + 1 ELSE alone
    /\ codeOpens' = IF t.opens /\ t.kind = "code" THEN codeOpens + 1 ELSE codeOpens
    /\ code' = IF t.opens /\ t.kind = "code" THEN "used" ELSE code
    /\ cleared' = cleared \cup (IF t.opens THEN t.since
                                ELSE IF t.kind = "allow" /\ t.writes[t.review] = "allowed" THEN t.since ELSE {})
    /\ holder' = Released(p) /\ tx' = Done(p)
    /\ UNCHANGED world

\* An error or the end of the process: everything is rolled back.
Abort(p) ==
    /\ tx[p].at # "idle"
    /\ holder' = Released(p) /\ tx' = [tx EXCEPT ![p] = IdleTx]
    /\ UNCHANGED <<db, world>>

Proceed(p) ==
    \/ ReadKey(p) \/ AcquireLock(p) \/ Read(p) \/ Commit(p)
    \/ \E k \in Chain : AcquireChain(p, k)

ReviewsNext ==
    \/ \E r \in Reviews : Capture(r) \/ DeadlinePasses(r)
    \/ Toggle \/ Tick \/ NextDue
    \/ \E p \in Procs :
          \/ Proceed(p) \/ Abort(p)
          \/ \E kind \in Kind, r \in Reviews : Begin(p, kind, r)

ReviewsSpec == ReviewsInit /\ [][ReviewsNext]_reviewVars

\* Deadlines come, transactions go on (locks are granted in order) and do not
\* all fail, the worker ticks.
ReviewsFairness ==
    /\ \A r \in Reviews : WF_reviewVars(DeadlinePasses(r))
    /\ \A p \in Procs : SF_reviewVars(Proceed(p))
    /\ WF_reviewVars(Tick) /\ WF_reviewVars(NextDue)
    /\ <>[][~Abort(Worker)]_reviewVars

ReviewsFairSpec == ReviewsSpec /\ ReviewsFairness

-----------------------------------------------------------------------------
\* No lock outlives its transaction.
ReviewsTypeOK ==
    /\ group \in [Reviews -> Seq(Status)]
    /\ chain \in Seq(Nat)
    /\ commands \in [Reviews -> Nat]
    /\ alone \in Nat /\ codeOpens \in Nat
    /\ code \in {"active", "used"}
    /\ captured \subseteq Reviews /\ cleared \subseteq captured /\ late \subseteq captured
    /\ active \in BOOLEAN /\ toggles \in 0..ToggleBound
    /\ holder \in [Lock -> Procs \cup {Nobody}]
    /\ tx \in [Procs -> Tx]
    /\ \A k \in Lock : holder[k] # Nobody => tx[holder[k]].at # "idle"

\* Every row of the decisions hashes the row before it, whoever wrote it.
ChainUnbroken == \A i \in DOMAIN chain : chain[i] = i - 1

\* The life of a review, and of the openings by hand beside it.
Lifecycle == INSTANCE ReviewLifecycle
    WITH status <- [r \in Reviews |-> Current(r)], commands <- commands, alone <- alone, byCode <- codeOpens
ReviewLifecycleSpec == Lifecycle!Spec

\* A review comes to an end, also when its barrier has been put out of service.
ReviewsEnd == \A r \in Reviews : Current(r) = "pending" ~> Current(r) # "pending"
==============================================================================
